------------------------------ MODULE MCSecurity ------------------------------
(***************************************************************************)
(* Accounts and approvals, which share no state, for TLC: a behaviour is   *)
(* one of either, chosen at the beginning, while the other rests in an     *)
(* initial state.  Every set is one of equals.                             *)
(***************************************************************************)
EXTENDS Accounts, Approvals, TLC

VARIABLE under

all == <<under, acctVars, apprVars>>

Init ==
    /\ AcctInit /\ ApprInit
    /\ \/ under = "accounts" /\ ~dual
       \/ /\ under = "approvals"
          /\ Admins = Users /\ account = {}
          /\ \A s \in Sessions : session[s] = NoSession
          /\ \A u \in Users : ~user[u].must

Next ==
    \/ under = "accounts" /\ AcctNext /\ UNCHANGED <<under, apprVars>>
    \/ under = "approvals" /\ ApprNext /\ UNCHANGED <<under, acctVars>>

Spec == Init /\ [][Next]_all

\* Every staff has Users among it, and Handlers are the Clients.
Symmetry == Permutations(Users) \union Permutations(Sessions) \union
            Permutations(Keys) \union Permutations(Clients)
=============================================================================
