--------------------------- MODULE MCControlPlane ---------------------------
(***************************************************************************)
(* Instances of the control plane for TLC: each configuration picks the    *)
(* requests that clients send, how many at a time, and the sets.           *)
(***************************************************************************)
EXTENDS ControlPlaneSequential, TLC

\* Only the client addresses are ordered.
Symmetry == Permutations(Agents) \union Permutations(Keys) \union
            Permutations(Tokens) \union Permutations(Workers) \union
            Permutations(Policies) \union Permutations(Hosts) \union
            Permutations(Nets)

\* Nothing reads kept but properties that Lifecycle does not check.
ButKept == <<tables, req, handed, enrolledBy, cut, withdrawn>>

Onboarding == {"createToken", "enroll"}
TokenOps   == Onboarding \union {"revokeToken"}
StateOps   == Onboarding \union
              {"disable", "enable", "revoke", "checkIn", "rotate", "reconcile"}
InventoryOps == StateOps \union {"revokeToken", "reissue"}
IntentOps  == Onboarding \union
              {"assign", "unassign", "trafficMode", "updatePolicy"}

\* For the run about the inventory: three agents on two hosts as long as they
\* enroll, check in, rotate and are revoked, which is what the addresses of
\* peers depend on; otherwise two agents on one host.
Touched == {a \in Agents : agent[a] # NoAgent}
Named == ({agent[a].host : a \in Touched} \union
          {token[t].bound : t \in Tokens}) \ {None}
OnlyOnboarded ==
    /\ runtime = {} /\ kept = {} /\ withdrawn = {}
    /\ \A a \in Agents : agent[a].status # "disabled"
TwoAgentsUnlessOnboarding ==
    OnlyOnboarded \/ (Cardinality(Touched) <= 2 /\ Cardinality(Named) <= 1)

\* For the run about rendering: two agents may share a policy, and an agent
\* may have two policies, but not all of that with everything else varying.
InUse == {p \in Policies : \/ \E a \in Agents : <<a, p>> \in assigned
                           \/ \E t \in Tokens : p \in token[t].policies}
OneTokenOrPolicy ==
    \/ Cardinality({t \in Tokens : token[t] # NoToken}) <= 1
    \/ \E p \in Policies :
           /\ InUse \subseteq {p}
           /\ \A q \in Policies \ {p} :
                  policy[q].dests = Nets /\ policy[q].mode = "standard"
=============================================================================
