------------------------------ MODULE MCServices ------------------------------
(***************************************************************************)
(* Services of the server that share no state, for TLC: a behaviour is one *)
(* of any one of them, chosen at the beginning, while the others rest in   *)
(* an initial state.                                                       *)
(***************************************************************************)
EXTENDS LogExport, Updater, AuditTrail, ClusterLease, AddressPool, RateLimiter

VARIABLE service

all == <<service, logVars, updVars, audVars, leaseVars, poolVars, rateVars>>

\* The log export is looked at twice.  For delivery: one sink; without edits two
\* emitters and three events; with one edit one emitter and one event, or without
\* faults and retries two events, or three before any has been delivered.
FirstSink    == CHOOSE s \in Sinks : TRUE
FirstAdmin   == CHOOSE d \in Admins : TRUE
FirstEmitter == CHOOSE m \in Emitters : TRUE

DeliveryBounds ==
    /\ created \subseteq {FirstSink}
    /\ \A d \in Admins \ {FirstAdmin} : editor[d] = NoEdit
    /\ spent.edits <= 1
    /\ spent.edits = 1 =>
          /\ \A m \in Emitters \ {FirstEmitter} : emitter[m] = NotEmitting
          /\ \/ Cardinality(emitted) <= 1
             \/ /\ spent.faults = 0
                /\ worker.attempt = 0
                /\ \/ Cardinality(emitted) <= 2
                   \/ \A t \in Tasks : outcome[t] \in {"none", "waiting", "dropped"}

\* For routing: no events, all sinks there at the beginning, and edits that overlap
\* as they like, but the last of three comes when the others are over.
RoutingNext ==
    /\ (\E d \in Admins : EditorNext(d)) \/ Restart
    /\ spent'.edits = spent.edits \/ spent'.edits < MaxEdits \/ NoEdits

Init ==
    /\ service \in {"delivery", "routing", "updater", "audit", "cluster", "ipam", "rateLimit"}
    /\ LogInit /\ UpdInit /\ AudInit /\ LeaseInit /\ PoolInit /\ RateInit
    /\ service \in {"delivery", "routing"} \/ table.sinks = {}
    /\ service = "delivery" => DeliveryBounds
    /\ service = "routing" => table.sinks = Sinks
    /\ service = "updater" \/ deployment = "plain"
    /\ service = "audit" \/ \A c \in Recorders : server[c] = CHOOSE s \in Servers : TRUE

Next ==
    \/ /\ service = "delivery" /\ LogNext /\ DeliveryBounds'
       /\ UNCHANGED <<service, updVars, audVars, leaseVars, poolVars, rateVars>>
    \/ /\ service = "routing"
       /\ RoutingNext
       /\ UNCHANGED <<service, updVars, audVars, leaseVars, poolVars, rateVars>>
    \/ /\ service = "updater"
       /\ UpdNext
       /\ UNCHANGED <<service, logVars, audVars, leaseVars, poolVars, rateVars>>
    \/ /\ service = "audit"
       /\ AudNext
       /\ UNCHANGED <<service, logVars, updVars, leaseVars, poolVars, rateVars>>
    \/ /\ service = "cluster"
       /\ LeaseNext
       /\ UNCHANGED <<service, logVars, updVars, audVars, poolVars, rateVars>>
    \/ /\ service = "ipam"
       /\ PoolNext
       /\ UNCHANGED <<service, logVars, updVars, audVars, leaseVars, rateVars>>
    \/ /\ service = "rateLimit"
       /\ RateNext
       /\ UNCHANGED <<service, logVars, updVars, audVars, leaseVars, poolVars>>

\* No fair action is enabled in a service that rests.
Spec == Init /\ [][Next]_all /\ LogFairness /\ UpdFairness

\* The text of the first instant, "...5Z", sorts after that of the second,
\* "...51Z".
TextOrder == <<2, 1>>

\* The rate limiter's instants are half a second apart, and "...05.5Z" sorts
\* before "...05Z".
HalfSeconds     == [s \in 0..7 |-> s \div 2]
WholeSecondLast == [s \in 0..7 |-> IF s % 2 = 0 THEN s + 1 ELSE s - 1]
=============================================================================
