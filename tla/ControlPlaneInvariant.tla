------------------------ MODULE ControlPlaneInvariant ------------------------
(***************************************************************************)
(* The inductive invariant of the control plane.  Its parts say what each  *)
(* request relies on between two of its calls, in the face of every other  *)
(* request: what it has read may be stale, but rows never disappear, the   *)
(* identity of a row never changes and a cleared secret never comes back.  *)
(***************************************************************************)
EXTENDS ControlPlane

RefreshOps   == {"enroll", "assign", "unassign", "trafficMode", "updatePolicy"}
RefreshCalls == {"refresh.FindPeer", "refresh.Render", "refresh.UpdateIntent"}

\* Requests that name an agent when they begin.
AgentOps == StateActions \union
    {"checkIn", "rotate", "reconcile", "reissue", "assign", "unassign",
     "trafficMode"}

LookupCalls == {"FindByHostname", "FindByPublicKey", "AllocateAddress",
                "InsertAgent"}
PeerCalls   == {"AssignPolicies", "MarkUsed", "BuildConfig"} \union RefreshCalls

(* What the request of worker w relies on between two of its calls.        *)

\* A request that begins with an agent keeps it.
AgentLocal(w) ==
    /\ req[w].op \in AgentOps => req[w].agent \in Agents
    /\ req[w].op \in StateActions => HasAgent(req[w].agent)
    /\ req[w].op = "assign" => req[w].policy \in Policies

\* The token a request works on has a row.
TokenLocal(w) ==
    req[w].pc \in {"BindPolicies", "Revoke"} =>
        req[w].token \in Tokens /\ HasToken(req[w].token)

\* A refresh writes to a peer that exists, with a status read from it.
RefreshLocal(w) ==
    /\ req[w].pc \in RefreshCalls => req[w].op \in RefreshOps
    /\ req[w].pc \in {"refresh.Render", "refresh.UpdateIntent"} =>
           /\ req[w].agent \in Agents
           /\ HasPeer(req[w].agent)
           /\ req[w].status # "absent"

\* A write to a peer comes after a read that found it.
PeerLocal(w) ==
    \/ req[w].pc \in {"UpdatePeerStatus", "ClearAssignedAddress", "ApplyPeer"}
    \/ /\ req[w].pc \in {"UpdateAgentStatus", "ClearAuthToken"}
       /\ req[w].status # "absent"
    => req[w].agent \in Agents /\ HasPeer(req[w].agent)

\* An enrollment holds a token that admits its hostname and, once it has
\* inserted them, an agent enrolled by that token and its peer.
EnrollLocal(w) == req[w].op = "enroll" =>
    /\ ~req[w].late
    /\ req[w].pc \in LookupCalls \union {"InsertPeer"} \union PeerCalls
    /\ req[w].token \in Tokens /\ HasToken(req[w].token)
    /\ token[req[w].token].model = "B" => token[req[w].token].bound = req[w].host
    /\ req[w].pc \notin LookupCalls =>
           /\ req[w].agent \in Agents
           /\ HasAgent(req[w].agent)
           /\ enrolledBy[req[w].agent] = req[w].token
    /\ req[w].pc \in PeerCalls => HasPeer(req[w].agent)

\* A check-in was authenticated before the revocation was answered.
CheckInLocal(w) == req[w].op = "checkIn" =>
    ~req[w].late /\ HasPeer(req[w].agent)

\* A revoke that has cleared the secret relies on it staying cleared.
RevokeLocal(w) ==
    /\ req[w].op = "revoke"
    /\ req[w].pc \in {"UpdatePeerStatus", "ClearAssignedAddress", "RemovePeer"}
    => ~agent[req[w].agent].auth

\* What is about to be stored or configured as a key is one.
KeyLocal(w) ==
    \/ req[w].op = "enroll"
    \/ req[w].op = "reconcile" /\ req[w].pc = "ApplyPeer"
    \/ /\ req[w].op = "checkIn"
       /\ req[w].pc \in {"FindByPublicKey", "UpdatePublicKeyAndStatus"}
    => req[w].key \in Keys

RequestOK(w) ==
    /\ AgentLocal(w)
    /\ TokenLocal(w)
    /\ RefreshLocal(w)
    /\ PeerLocal(w)
    /\ EnrollLocal(w)
    /\ CheckInLocal(w)
    /\ RevokeLocal(w)
    /\ KeyLocal(w)

-----------------------------------------------------------------------------
(* What the tables keep.                                                   *)

\* Only rows that exist carry a secret, a token of origin or a key.
Rows ==
    /\ \A a \in Agents : agent[a].auth => HasAgent(a)
    /\ \A a \in Agents : enrolledBy[a] # None =>
           HasAgent(a) /\ HasToken(enrolledBy[a])
    /\ \A a \in Agents : HasPeer(a) => HasAgent(a) /\ peer[a].key \in Keys

\* A secret is handed out only for a row that is complete.
Handed ==
    /\ \A a \in Agents : a \in handed => HasPeer(a)
    /\ \A t \in Tokens : t \in handed => HasToken(t)

\* An answered revocation holds.
CutOff == \A a \in cut : HasAgent(a) /\ ~agent[a].auth

Withdrawn == \A t \in withdrawn : HasToken(t) /\ token[t].revokedAt

Inv ==
    /\ TypeOK
    /\ \A w \in Workers : RequestOK(w)
    /\ Rows
    /\ Handed
    /\ CutOff
    /\ Withdrawn
    /\ SpentTokenHasPeer
    /\ BoundHostname

-----------------------------------------------------------------------------
(* What a step may never do; every part of Inv leans on it.                *)

RowsKept ==
    /\ \A a \in Agents : HasAgent(a) =>
           /\ HasAgent(a)'
           /\ agent'[a].host = agent[a].host
           /\ agent'[a].auth => agent[a].auth
           /\ enrolledBy'[a] = enrolledBy[a]
    /\ \A a \in Agents : HasPeer(a) => HasPeer(a)'
    /\ \A t \in Tokens : HasToken(t) =>
           /\ HasToken(t)'
           /\ token'[t].model = token[t].model
           /\ token'[t].bound = token[t].bound
           /\ token[t].revokedAt => token'[t].revokedAt

\* No step loses a row or changes what the row stands for, and a cleared
\* secret or a revocation is never undone: not by an enable that started
\* before the revoke, nor by an enrollment that marks a revoked token used
\* (UpdateStatus, ClearAuthToken and MarkUsed write single columns).
RowsStay == [][RowsKept]_vars
=============================================================================
