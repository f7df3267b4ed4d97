----------------------------- MODULE LogDelivery -----------------------------
(***************************************************************************)
(* What the log export promises of one event for one sink: it is taken,    *)
(* or dropped because the queue is full; what was taken is settled once,   *)
(* in the order it was taken, unless the process stops first.              *)
(***************************************************************************)
EXTENDS Naturals, Sequences

CONSTANTS
    Tasks,       \* an event together with a sink it is routed to
    Capacity     \* tasks that wait at the same time, the one at work aside

VARIABLES
    waiting,     \* tasks taken and not settled, oldest first
    outcome      \* what has become of each task

Init ==
    /\ waiting = <<>>
    /\ outcome = [t \in Tasks |-> "none"]

Accept(t) ==
    /\ outcome[t] = "none"
    /\ Len(waiting) <= Capacity
    /\ waiting' = Append(waiting, t)
    /\ outcome' = [outcome EXCEPT ![t] = "waiting"]

Drop(t) ==
    /\ outcome[t] = "none"
    /\ Len(waiting) >= Capacity
    /\ outcome' = [outcome EXCEPT ![t] = "dropped"]
    /\ UNCHANGED waiting

Settle ==
    /\ waiting # <<>>
    /\ waiting' = Tail(waiting)
    /\ \E o \in {"delivered", "failed"} :
           outcome' = [outcome EXCEPT ![Head(waiting)] = o]

Stop ==
    /\ waiting' = <<>>
    /\ outcome' = [t \in Tasks |->
                       IF outcome[t] = "waiting" THEN "lost" ELSE outcome[t]]

Next ==
    \/ \E t \in Tasks : Accept(t) \/ Drop(t)
    \/ Settle
    \/ Stop

Spec == Init /\ [][Next]_<<waiting, outcome>> /\ WF_<<waiting, outcome>>(Settle)
=============================================================================
