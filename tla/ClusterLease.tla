------------------------------ MODULE ClusterLease ------------------------------
(***************************************************************************)
(* Leader election (internal/cluster, clusterrepo): every node tries to    *)
(* take or renew one lease row at each heartbeat and remembers the answer  *)
(* until the next.                                                         *)
(*                                                                         *)
(* A step is one SQL statement or the section under Service.mu.  Time is   *)
(* counted in half seconds, of which the row keeps the whole ones; the     *)
(* clocks of the nodes agree.                                              *)
(***************************************************************************)
EXTENDS Naturals

CONSTANTS
    Nodes,       \* Config.InstanceID
    LeaseTTL,    \* Config.LeaseTTL in seconds
    LastTime     \* bound: time goes from 0 to here, in half seconds

ASSUME LeaseAssumption == LeaseTTL \in Nat /\ LastTime \in Nat

VARIABLES
    now,
    lease,       \* the row of cluster_leases: {} until there is one
    nodeRow,     \* cluster_nodes: is_leader as each node last reported it
    tick,        \* Service.tick in progress
    believes     \* Service.isLeader and leaseExpires of each node

leaseVars == <<now, lease, nodeRow, tick, believes>>

Seconds(t) == t \div 2

NotTicking == [pc |-> "none", at |-> 0, wrote |-> FALSE, lease |-> {}]

LeaseInit ==
    /\ now = 0
    /\ lease = {}
    /\ nodeRow = [n \in Nodes |-> FALSE]
    /\ tick = [n \in Nodes |-> NotTicking]
    /\ believes = [n \in Nodes |-> [leader |-> FALSE, expires |-> 0]]

TimePasses ==
    /\ now < LastTime
    /\ now' = now + 1
    /\ UNCHANGED <<lease, nodeRow, tick, believes>>

Tick_Start(n) ==
    /\ tick[n].pc = "none"
    /\ tick' = [tick EXCEPT ![n] = [NotTicking EXCEPT !.pc = "acquire", !.at = now]]
    /\ UNCHANGED <<now, lease, nodeRow, believes>>

\* Mutant: a lease may be taken in the second it expires.
MayTake_AtExpiry(n, at) ==
    \A l \in lease : l.expires <= Seconds(at) \/ l.leader = n

\* WHERE lease_expires_at < ? OR leader_id = excluded.leader_id
MayTake(n, at) ==
    \A l \in lease : l.expires < Seconds(at) \/ l.leader = n

\* INSERT ... ON CONFLICT DO UPDATE, with the time of the start of the tick.
TryAcquireLease(n) ==
    /\ tick[n].pc = "acquire"
    /\ LET takes == MayTake(n, tick[n].at) IN
       /\ lease' = IF takes
                   THEN {[leader |-> n, expires |-> Seconds(tick[n].at) + LeaseTTL]}
                   ELSE lease
       /\ tick' = [tick EXCEPT ![n].pc = "read", ![n].wrote = takes]
    /\ UNCHANGED <<now, nodeRow, believes>>

GetLease(n) ==
    /\ tick[n].pc = "read"
    /\ tick' = [tick EXCEPT ![n].pc = "report", ![n].lease = lease]
    /\ UNCHANGED <<now, lease, nodeRow, believes>>

Acquired(n) == tick[n].wrote /\ \A l \in tick[n].lease : l.leader = n

UpsertNode(n) ==
    /\ tick[n].pc = "report"
    /\ nodeRow' = [nodeRow EXCEPT ![n] = Acquired(n)]
    /\ tick' = [tick EXCEPT ![n].pc = "remember"]
    /\ UNCHANGED <<now, lease, believes>>

Remember(n) ==
    /\ tick[n].pc = "remember"
    /\ \E l \in tick[n].lease :
           believes' = [believes EXCEPT ![n] = [leader |-> Acquired(n),
                                                expires |-> l.expires]]
    /\ tick' = [tick EXCEPT ![n] = NotTicking]
    /\ UNCHANGED <<now, lease, nodeRow>>

\* A statement fails: the node goes on believing what it believed.
Tick_Fails(n) ==
    /\ tick[n].pc \notin {"none", "remember"}
    /\ tick' = [tick EXCEPT ![n] = NotTicking]
    /\ UNCHANGED <<now, lease, nodeRow, believes>>

Restart_Node(n) ==
    /\ tick' = [tick EXCEPT ![n] = NotTicking]
    /\ believes' = [believes EXCEPT ![n] = [leader |-> FALSE, expires |-> 0]]
    /\ UNCHANGED <<now, lease, nodeRow>>

LeaseNext ==
    \/ TimePasses
    \/ \E n \in Nodes :
        \/ Tick_Start(n) \/ TryAcquireLease(n) \/ GetLease(n)
        \/ UpsertNode(n) \/ Remember(n)
        \/ Tick_Fails(n) \/ Restart_Node(n)

LeaseSpec == LeaseInit /\ [][LeaseNext]_leaseVars

-----------------------------------------------------------------------------
\* Two nodes may report themselves as leader at the same time, since a node
\* that cannot reach the database remembers the last answer for ever; but the
\* lease of one of them, as it remembers it, has run out (tick, Status).
OneUnexpiredLeader ==
    \A m, n \in Nodes :
        /\ believes[m].leader /\ Seconds(now) <= believes[m].expires
        /\ believes[n].leader /\ Seconds(now) <= believes[n].expires
        => m = n
=============================================================================
