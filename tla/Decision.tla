------------------------------- MODULE Decision -------------------------------
(***************************************************************************)
(* What dual approval promises of one request: it is decided at most once, *)
(* by somebody other than the user who asked, and the decision stands.     *)
(***************************************************************************)
CONSTANTS
    Ids,         \* requests for approval
    Users

VARIABLES
    status,      \* "absent", "pending", "approved" or "rejected"
    requester,   \* who asked: {} while there is no request
    decider      \* who decided: {} until somebody has

Init ==
    /\ status = [p \in Ids |-> "absent"]
    /\ requester = [p \in Ids |-> {}]
    /\ decider = [p \in Ids |-> {}]

Ask(p, u) ==
    /\ status[p] = "absent"
    /\ status' = [status EXCEPT ![p] = "pending"]
    /\ requester' = [requester EXCEPT ![p] = {u}]
    /\ UNCHANGED decider

Decide(p, u, verdict) ==
    /\ status[p] = "pending"
    /\ u \notin requester[p]
    /\ status' = [status EXCEPT ![p] = verdict]
    /\ decider' = [decider EXCEPT ![p] = {u}]
    /\ UNCHANGED requester

Next == \E p \in Ids, u \in Users :
    \/ Ask(p, u)
    \/ \E verdict \in {"approved", "rejected"} : Decide(p, u, verdict)

Spec == Init /\ [][Next]_<<status, requester, decider>>
=============================================================================
