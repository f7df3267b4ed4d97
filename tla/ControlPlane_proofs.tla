------------------------- MODULE ControlPlane_proofs -------------------------
(***************************************************************************)
(* Inv is an inductive invariant of the control plane, for any number of   *)
(* workers, agents, tokens and keys, with requests that end anywhere; the  *)
(* safety properties of ControlPlane follow from it.                       *)
(*                                                                         *)
(* The argument: rows only grow (RowsKept), so what a request knows of the *)
(* rows it has read survives the steps of every other request; each step   *)
(* then has to establish no more than the facts about its own request and  *)
(* about the row it writes.                                                *)
(***************************************************************************)
EXTENDS ControlPlaneTypes

WorkerNext(w) ==
    \/ EnrollmentNext(w)
    \/ PolicyNext(w)
    \/ LifecycleNext(w)
    \/ ReconcileNext(w)
    \/ Abort(w)

\* A step of one worker leaves the requests of the others alone.
LEMMA StepOthers ==
    ASSUME TypeOK, NEW w \in Workers, NEW r, Step(w, r)
    PROVE  /\ req'[w] = r
           /\ \A v \in Workers \ {w} : req'[v] = req[v]
  BY DEF TypeOK, Step

\* The steps below move one worker and leave all others where they are:
\* going on to the next call,
LEMMA ContinueOthers ==
    ASSUME TypeOK, NEW w \in Workers, NEW pc, Continue(w, pc)
    PROVE  /\ req'[w] = [req[w] EXCEPT !.pc = pc]
           /\ \A v \in Workers \ {w} : req'[v] = req[v]
  BY StepOthers DEF Continue

\* answering,
LEMMA AnswerOthers ==
    ASSUME TypeOK, NEW w \in Workers, Answer(w)
    PROVE  /\ req'[w] = NoRequest
           /\ \A v \in Workers \ {w} : req'[v] = req[v]
  BY StepOthers DEF Answer

\* and taking up a request.
LEMMA BeginOthers ==
    ASSUME TypeOK, NEW w \in Workers, NEW r, Begin(w, r)
    PROVE  /\ req'[w] = r
           /\ \A v \in Workers \ {w} : req'[v] = req[v]
  BY StepOthers DEF Begin

\* A step of one worker never touches the request of another.
LEMMA OthersKept ==
    ASSUME TypeOK, NEW w \in Workers, WorkerNext(w)
    PROVE  \A v \in Workers \ {w} : req'[v] = req[v]
  <1>1. CASE EnrollmentNext(w)
    BY <1>1, BeginOthers, StepOthers, ContinueOthers, AnswerOthers
    DEF EnrollmentNext, CreateToken_Insert, Reissue_FindAgent,
        Reissue_ListPolicies, Reissue_Insert, CreateToken_BindPolicies,
        RevokeToken_Find, RevokeToken_Revoke, Enroll_FindByHash,
        Enroll_FindByHostname, Enroll_FindByPublicKey, Enroll_AllocateAddress,
        Enroll_InsertAgent, Enroll_InsertPeer, Enroll_AssignPolicies,
        Enroll_MarkUsed, Enroll_BuildConfig
  <1>2. CASE PolicyNext(w)
    BY <1>2, BeginOthers, StepOthers, ContinueOthers, AnswerOthers
    DEF PolicyNext, Refresh_FindPeer, Refresh_Render, Refresh_UpdateIntent,
        AfterRefresh, AssignPolicy_Find, AssignPolicy_Insert, UnassignPolicy,
        SetTrafficMode, UpdatePolicy, UpdatePolicy_ListAssignments
  <1>3. CASE LifecycleNext(w)
    BY <1>3, BeginOthers, StepOthers, ContinueOthers, AnswerOthers
    DEF LifecycleNext, ChangeAgentState_FindAgent, ChangeAgentState_FindPeer,
        ChangeAgentState_UpdateAgent, Revoke_ClearAuthToken,
        ChangeAgentState_UpdatePeer, Revoke_ClearAssignedAddress,
        ChangeAgentState_RemovePeer, AnswerChange, AfterChange, CheckIn_FindAgent,
        CheckIn_FindPeer, CheckIn_FindByPublicKey, CheckIn_UpdatePublicKey,
        Rotate_FindAgent, Rotate_FindPeer, Rotate_UpdateStatus
  <1>4. CASE ReconcileNext(w)
    BY <1>4, BeginOthers, StepOthers, ContinueOthers, AnswerOthers
    DEF ReconcileNext, ReconcilePeer_FindByID, ReconcilePeer_ApplyPeer,
        ReconcilePeer_UpdateStatus
  <1>5. CASE Abort(w)
    BY <1>5, AnswerOthers DEF Abort
  <1> QED
    BY <1>1, <1>2, <1>3, <1>4, <1>5 DEF WorkerNext

-----------------------------------------------------------------------------
\* A step that leaves agents, peers, tokens and origins alone keeps the rows.
LEMMA RowsUntouched ==
    ASSUME UNCHANGED <<agent, peer, token, enrolledBy>>
    PROVE  RowsKept
  BY DEF RowsKept, HasAgent, HasPeer, HasToken

\* A step that writes peers keeps the rows if it loses no peer,
LEMMA OnlyPeerWritten ==
    ASSUME UNCHANGED <<agent, token, enrolledBy>>,
           \A a \in Agents : HasPeer(a) => HasPeer(a)'
    PROVE  RowsKept
  BY DEF RowsKept, HasAgent, HasToken

\* one that writes agents if it loses none and neither renames one nor stores a
\* secret for it again,
LEMMA OnlyAgentWritten ==
    ASSUME UNCHANGED <<peer, token>>,
           \A a \in Agents : HasAgent(a) =>
               /\ HasAgent(a)'
               /\ agent'[a].host = agent[a].host
               /\ agent'[a].auth => agent[a].auth
               /\ enrolledBy'[a] = enrolledBy[a]
    PROVE  RowsKept
  BY DEF RowsKept, HasPeer, HasToken

\* and one that writes tokens if it keeps model, binding and revocation.
LEMMA OnlyTokenWritten ==
    ASSUME UNCHANGED <<agent, peer, enrolledBy>>,
           \A t \in Tokens : HasToken(t) =>
               /\ HasToken(t)'
               /\ token'[t].model = token[t].model
               /\ token'[t].bound = token[t].bound
               /\ token[t].revokedAt => token'[t].revokedAt
    PROVE  RowsKept
  BY DEF RowsKept, HasAgent, HasPeer

\* No writer of a status column clears it.
LEMMA StatusWritten ==
    ASSUME TypeOK, NEW a, NEW s, s # "absent",
           peer' = [peer EXCEPT ![a].status = s]
    PROVE  \A b \in Agents : HasPeer(b) => HasPeer(b)'
  BY DEF TypeOK, PeerRow, HasPeer

\* Token requests and enrollments keep every row that exists.
LEMMA EnrollmentKeepsRows ==
    ASSUME Inv, NEW w \in Workers, EnrollmentNext(w)
    PROVE  RowsKept
  <1> USE DEF Inv
  <1>1. CASE CreateToken_Insert(w)
    BY <1>1, OnlyTokenWritten
    DEF CreateToken_Insert, TypeOK, history, HasToken, NoToken
  <1>2. CASE Reissue_Insert(w)
    BY <1>2, OnlyTokenWritten
    DEF Reissue_Insert, TypeOK, history, HasToken, NoToken
  <1>3. CASE CreateToken_BindPolicies(w)
    BY <1>3, OnlyTokenWritten
    DEF CreateToken_BindPolicies, TypeOK, TokenRow, HasToken
  <1>4. CASE RevokeToken_Revoke(w)
    BY <1>4, OnlyTokenWritten
    DEF RevokeToken_Revoke, TypeOK, TokenRow, HasToken
  <1>5. CASE Enroll_InsertAgent(w)
    BY <1>5, OnlyAgentWritten DEF Enroll_InsertAgent, TypeOK, HasAgent
  <1>6. CASE Enroll_InsertPeer(w)
    BY <1>6, OnlyPeerWritten
    DEF Enroll_InsertPeer, TypeOK, PeerRow, HasPeer, history
  <1>7. CASE Enroll_MarkUsed(w)
    BY <1>7, OnlyTokenWritten
    DEF Enroll_MarkUsed, TypeOK, TokenRow, HasToken, history
  <1>8. CASE \/ Reissue_FindAgent(w)
            \/ Reissue_ListPolicies(w)
            \/ RevokeToken_Find(w)
            \/ Enroll_FindByHash(w)
            \/ Enroll_FindByHostname(w)
            \/ Enroll_FindByPublicKey(w)
            \/ Enroll_AllocateAddress(w)
            \/ Enroll_AssignPolicies(w)
            \/ Enroll_BuildConfig(w)
    BY <1>8, RowsUntouched
    DEF Reissue_FindAgent, Reissue_ListPolicies, RevokeToken_Find,
        Enroll_FindByHash, Enroll_FindByHostname, Enroll_FindByPublicKey,
        Enroll_AllocateAddress, Enroll_AssignPolicies, Enroll_BuildConfig,
        tables, history
  <1> QED
    BY <1>1, <1>2, <1>3, <1>4, <1>5, <1>6, <1>7, <1>8 DEF EnrollmentNext

\* Policy requests keep every row: a refresh writes to a peer it has read.
LEMMA PolicyKeepsRows ==
    ASSUME Inv, NEW w \in Workers, PolicyNext(w)
    PROVE  RowsKept
  <1> USE DEF Inv
  <1>1. CASE Refresh_UpdateIntent(w)
    <2>1. IntentStatus(req[w].status) # "absent"
      BY <1>1 DEF Refresh_UpdateIntent, RequestOK, RefreshLocal, IntentStatus
    <2>2. \A a \in Agents : HasPeer(a) => HasPeer(a)'
      BY <1>1, <2>1 DEF Refresh_UpdateIntent, TypeOK, PeerRow, HasPeer
    <2> QED
      BY <1>1, <2>2, OnlyPeerWritten DEF Refresh_UpdateIntent, history
  <1>2. CASE SetTrafficMode(w)
    BY <1>2, OnlyAgentWritten
    DEF SetTrafficMode, TypeOK, AgentRow, HasAgent, history
  <1>3. CASE \/ Refresh_FindPeer(w)
            \/ Refresh_Render(w)
            \/ AssignPolicy_Find(w)
            \/ AssignPolicy_Insert(w)
            \/ UnassignPolicy(w)
            \/ UpdatePolicy(w)
            \/ UpdatePolicy_ListAssignments(w)
    BY <1>3, RowsUntouched
    DEF Refresh_FindPeer, Refresh_Render, AssignPolicy_Find,
        AssignPolicy_Insert, UnassignPolicy, UpdatePolicy,
        UpdatePolicy_ListAssignments, tables, history
  <1> QED
    BY <1>1, <1>2, <1>3 DEF PolicyNext

\* State changes, check-ins and rotations keep every row, and none of them
\* stores a secret.
LEMMA LifecycleKeepsRows ==
    ASSUME Inv, NEW w \in Workers, LifecycleNext(w)
    PROVE  RowsKept
  <1> USE DEF Inv
  <1>1. CASE ChangeAgentState_UpdateAgent(w)
    <2>1. AgentStatusAfter(req[w].op) # "absent"
      BY <1>1 DEF ChangeAgentState_UpdateAgent, AgentStatusAfter, StateActions
    <2>2. agent' = [agent EXCEPT ![req[w].agent].status = AgentStatusAfter(req[w].op)]
      BY <1>1 DEF ChangeAgentState_UpdateAgent
    <2> QED
      BY <1>1, <2>1, <2>2, OnlyAgentWritten
      DEF ChangeAgentState_UpdateAgent, TypeOK, AgentRow, HasAgent, history
  <1>2. CASE Revoke_ClearAuthToken(w)
    BY <1>2, OnlyAgentWritten
    DEF Revoke_ClearAuthToken, TypeOK, AgentRow, HasAgent
  <1>3. CASE ChangeAgentState_UpdatePeer(w)
    <2>1. PeerStatusAfter(req[w].op) # "absent"
      BY <1>3 DEF ChangeAgentState_UpdatePeer, PeerStatusAfter, StateActions
    <2>2. peer' = [peer EXCEPT ![req[w].agent].status = PeerStatusAfter(req[w].op)]
      BY <1>3 DEF ChangeAgentState_UpdatePeer
    <2> QED
      BY <1>3, <2>1, <2>2, StatusWritten, OnlyPeerWritten
      DEF ChangeAgentState_UpdatePeer, history
  <1>4. CASE Revoke_ClearAssignedAddress(w)
    BY <1>4, OnlyPeerWritten
    DEF Revoke_ClearAssignedAddress, TypeOK, PeerRow, HasPeer, history
  <1>5. CASE CheckIn_UpdatePublicKey(w)
    BY <1>5, OnlyPeerWritten
    DEF CheckIn_UpdatePublicKey, TypeOK, PeerRow, HasPeer, history
  <1>6. CASE Rotate_UpdateStatus(w)
    BY <1>6, StatusWritten, OnlyPeerWritten DEF Rotate_UpdateStatus, history
  <1>7. CASE \/ ChangeAgentState_FindAgent(w)
            \/ ChangeAgentState_FindPeer(w)
            \/ ChangeAgentState_RemovePeer(w)
            \/ CheckIn_FindAgent(w)
            \/ CheckIn_FindPeer(w)
            \/ CheckIn_FindByPublicKey(w)
            \/ Rotate_FindAgent(w)
            \/ Rotate_FindPeer(w)
    BY <1>7, RowsUntouched
    DEF ChangeAgentState_FindAgent, ChangeAgentState_FindPeer,
        ChangeAgentState_RemovePeer, CheckIn_FindAgent, CheckIn_FindPeer,
        CheckIn_FindByPublicKey, Rotate_FindAgent, Rotate_FindPeer,
        tables, history
  <1> QED
    BY <1>1, <1>2, <1>3, <1>4, <1>5, <1>6, <1>7 DEF LifecycleNext

\* No step of the control plane loses a row: RowsKept, step by step.
LEMMA NextKeepsRows ==
    ASSUME Inv, [Next]_vars
    PROVE  RowsKept
  <1>1. ASSUME NEW w \in Workers, ReconcileNext(w)
        PROVE  RowsKept
    <2>1. CASE ReconcilePeer_UpdateStatus(w)
      BY <2>1, StatusWritten, OnlyPeerWritten
      DEF ReconcilePeer_UpdateStatus, history, Inv
    <2> QED
      BY <1>1, <2>1, RowsUntouched
      DEF ReconcileNext, ReconcilePeer_FindByID, ReconcilePeer_ApplyPeer,
          tables, history
  <1>2. ASSUME NEW w \in Workers, Abort(w)
        PROVE  RowsKept
    BY <1>2, RowsUntouched DEF Abort, tables, history
  <1>3. ASSUME NEW t \in Tokens, Expire(t)
        PROVE  RowsKept
    BY <1>3, OnlyTokenWritten
    DEF Expire, Inv, TypeOK, TokenRow, HasToken, history
  <1>4. CASE UNCHANGED vars
    BY <1>4, RowsUntouched DEF vars, tables, history
  <1> QED
    BY <1>1, <1>2, <1>3, <1>4, EnrollmentKeepsRows, PolicyKeepsRows,
       LifecycleKeepsRows DEF Next

-----------------------------------------------------------------------------
(* A request that a step leaves alone still has what it relies on.         *)

\* A request survives every step of another worker: such a step keeps all
\* rows, and rows are all that a request relies on.
LEMMA RequestKept ==
    ASSUME Inv, RowsKept, NEW v \in Workers, req'[v] = req[v]
    PROVE  RequestOK(v)'
  <1> USE DEF RowsKept
  <1>0. RequestOK(v)
    BY DEF Inv
  <1>1. AgentLocal(v)'
    BY <1>0 DEF RequestOK, AgentLocal, AgentOps
  <1>2. TokenLocal(v)'
    BY <1>0 DEF RequestOK, TokenLocal
  <1>3. RefreshLocal(v)'
    BY <1>0 DEF RequestOK, RefreshLocal
  <1>4. EnrollLocal(v)'
    BY <1>0 DEF RequestOK, EnrollLocal, LookupCalls, PeerCalls, RefreshCalls
  <1>5. CheckInLocal(v)'
    BY <1>0 DEF RequestOK, CheckInLocal, AgentLocal, AgentOps
  <1>6. RevokeLocal(v)'
    BY <1>0 DEF RequestOK, RevokeLocal, AgentLocal, AgentOps, StateActions
  <1>7. KeyLocal(v)'
    BY <1>0 DEF RequestOK, KeyLocal
  <1>8. PeerLocal(v)'
    BY <1>0 DEF RequestOK, PeerLocal
  <1> QED
    BY <1>1, <1>2, <1>3, <1>4, <1>5, <1>6, <1>7, <1>8 DEF RequestOK

\* An idle worker relies on nothing.
LEMMA IdleOK ==
    ASSUME NEW w \in Workers, req'[w] = NoRequest
    PROVE  RequestOK(w)'
  BY DEF NoRequest, RequestOK, AgentLocal, TokenLocal, RefreshLocal, PeerLocal,
         EnrollLocal, CheckInLocal, RevokeLocal, KeyLocal, AgentOps, StateActions,
         RefreshCalls

\* Neither does one that has just answered.
LEMMA AnswerOK ==
    ASSUME TypeOK, NEW w \in Workers, Answer(w)
    PROVE  RequestOK(w)'
  BY IdleOK, AnswerOthers

\* What Continue keeps of a request.
LEMMA ContinueKeeps ==
    ASSUME TypeOK, NEW w \in Workers, NEW pc, Continue(w, pc)
    PROVE  /\ req'[w].pc = pc
           /\ req'[w].op = req[w].op
           /\ req'[w].agent = req[w].agent
           /\ req'[w].token = req[w].token
           /\ req'[w].host = req[w].host
           /\ req'[w].key = req[w].key
           /\ req'[w].policy = req[w].policy
           /\ req'[w].status = req[w].status
           /\ req'[w].late = req[w].late
  <1>1. req[w] \in Request
    BY DEF TypeOK
  <1>2. req'[w] = [req[w] EXCEPT !.pc = pc]
    BY ContinueOthers
  <1> QED
    BY <1>1, <1>2 DEF Request

\* A disable, enable or revoke needs no more than its agent.
LEMMA StateRequestOK ==
    ASSUME NEW w \in Workers, req'[w].op \in StateActions,
           req'[w].agent \in Agents, HasAgent(req[w].agent)',
           req'[w].pc \in {"FindPeer", "UpdateAgentStatus", "ClearAuthToken",
                           "UpdatePeerStatus", "ClearAssignedAddress",
                           "RemovePeer"},
           RevokeLocal(w)', PeerLocal(w)'
    PROVE  RequestOK(w)'
  BY DEF RequestOK, AgentLocal, TokenLocal, RefreshLocal, EnrollLocal,
         CheckInLocal, KeyLocal, StateActions, HasAgent,
         RefreshCalls

\* A rotation, a reconcile or a policy request needs its agent and, for a
\* refresh, the peer it has read.
LEMMA PlainRequestOK ==
    ASSUME NEW w \in Workers,
           req'[w].op \in {"rotate", "reissue", "unassign", "trafficMode"},
           req'[w].agent \in Agents,
           req'[w].pc \in {"FindPeer", "UpdatePeerStatus", "ListPolicies",
                           "InsertToken", "refresh.FindPeer"},
           RefreshLocal(w)', PeerLocal(w)'
    PROVE  RequestOK(w)'
  BY DEF RequestOK, AgentLocal, TokenLocal, EnrollLocal, CheckInLocal,
         RevokeLocal, KeyLocal, StateActions

\* A check-in needs its peer and, to complete a rotation, a key.
LEMMA CheckInRequestOK ==
    ASSUME RowsKept, NEW w \in Workers, RequestOK(w), req[w].op = "checkIn",
           req'[w].op = "checkIn", req'[w].agent = req[w].agent,
           req'[w].late = req[w].late, req'[w].key \in Keys,
           req'[w].pc \in {"FindByPublicKey", "UpdatePublicKeyAndStatus"}
    PROVE  RequestOK(w)'
  <1>1. req[w].agent \in Agents /\ HasPeer(req[w].agent) /\ ~req[w].late
    BY DEF RequestOK, AgentLocal, AgentOps, CheckInLocal
  <1>2. peer'[req[w].agent].status # "absent"
    BY <1>1 DEF RowsKept, HasPeer
  <1> QED
    BY <1>1, <1>2
    DEF RequestOK, AgentLocal, TokenLocal, RefreshLocal, EnrollLocal,
        PeerLocal, CheckInLocal, RevokeLocal, KeyLocal, StateActions, HasPeer,
        RefreshCalls

\* The worker that takes a lifecycle step has what its next call relies on.
LEMMA LifecycleRequestOK ==
    ASSUME Inv, RowsKept, NEW w \in Workers, LifecycleNext(w)
    PROVE  RequestOK(w)'
  <1> USE DEF Inv
  <1>0. RequestOK(w) /\ req[w] \in Request
    BY DEF TypeOK
  <1>1. CASE ChangeAgentState_FindAgent(w)
    <2>1. PICK a \in Agents, action \in StateActions :
            HasAgent(a) /\ Begin(w, OpenFor(action, "FindPeer", a))
      BY <1>1 DEF ChangeAgentState_FindAgent
    <2>2. req'[w] = OpenFor(action, "FindPeer", a)
      BY <2>1, BeginOthers
    <2>3. agent'[a].status # "absent"
      BY <2>1 DEF RowsKept, HasAgent
    <2>4. req'[w].op = action /\ req'[w].pc = "FindPeer" /\ req'[w].agent = a
      BY <2>2 DEF OpenFor, Open, NoRequest
    <2>5. RevokeLocal(w)' /\ PeerLocal(w)'
      BY <2>4 DEF RevokeLocal, PeerLocal
    <2> QED
      BY <2>3, <2>4, <2>5, StateRequestOK DEF HasAgent
  <1>2. CASE ChangeAgentState_FindPeer(w)
    <2> DEFINE row == peer[req[w].agent]
    <2>1. req'[w] = [req[w] EXCEPT !.pc = "UpdateAgentStatus",
                        !.status = row.status, !.key = row.key, !.addr = row.addr]
      BY <1>2, StepOthers DEF ChangeAgentState_FindPeer
    <2>2. /\ req'[w].op = req[w].op
          /\ req'[w].agent = req[w].agent
          /\ req'[w].pc = "UpdateAgentStatus"
          /\ req'[w].status = row.status
      BY <1>0, <2>1 DEF Request
    <2>3. req[w].agent \in Agents /\ agent'[req[w].agent].status # "absent"
      BY <1>0, <1>2 DEF ChangeAgentState_FindPeer, RequestOK, AgentLocal,
                        AgentOps, RowsKept, HasAgent
    <2>4. row.status # "absent" => peer'[req[w].agent].status # "absent"
      BY <2>3 DEF RowsKept, HasPeer
    <2>5. RevokeLocal(w)' /\ PeerLocal(w)'
      BY <2>2, <2>3, <2>4 DEF RevokeLocal, PeerLocal, HasPeer
    <2> QED
      BY <1>2, <2>2, <2>3, <2>5, StateRequestOK
      DEF ChangeAgentState_FindPeer, HasAgent
  <1>3. CASE /\ req[w].op \in StateActions
            /\ \E pc \in {"ClearAuthToken", "UpdatePeerStatus",
                          "ClearAssignedAddress", "RemovePeer"} : Continue(w, pc)
            /\ RevokeLocal(w)' /\ PeerLocal(w)'
    <2>1. /\ req'[w].op \in StateActions
          /\ req'[w].agent = req[w].agent
          /\ req'[w].pc \in {"ClearAuthToken", "UpdatePeerStatus",
                             "ClearAssignedAddress", "RemovePeer"}
      BY <1>3, ContinueKeeps
    <2>2. req[w].agent \in Agents /\ agent'[req[w].agent].status # "absent"
      BY <1>0, <1>3 DEF RequestOK, AgentLocal, AgentOps, RowsKept, HasAgent
    <2> QED
      BY <1>3, <2>1, <2>2, StateRequestOK DEF HasAgent
  <1>4. CASE ChangeAgentState_UpdateAgent(w)
    <2>1. CASE Answer(w)
      BY <2>1, AnswerOK
    <2>2. CASE req[w].op = "revoke" /\ Continue(w, "ClearAuthToken")
      <3>1. RevokeLocal(w)' /\ PeerLocal(w)'
        BY <1>0, <1>4, <2>2, ContinueKeeps
        DEF RevokeLocal, RequestOK, PeerLocal, RowsKept, ChangeAgentState_UpdateAgent
      <3> QED
        BY <1>3, <1>4, <2>2, <3>1 DEF ChangeAgentState_UpdateAgent
    <2>3. CASE /\ req[w].op # "revoke"
               /\ req[w].status # "absent"
               /\ Continue(w, "UpdatePeerStatus")
      <3>1. RevokeLocal(w)' /\ PeerLocal(w)'
        BY <1>0, <1>4, <2>3, ContinueKeeps
        DEF RevokeLocal, RequestOK, PeerLocal, RowsKept, ChangeAgentState_UpdateAgent
      <3> QED
        BY <1>3, <1>4, <2>3, <3>1 DEF ChangeAgentState_UpdateAgent
    <2> QED
      BY <1>4, <2>1, <2>2, <2>3 DEF ChangeAgentState_UpdateAgent
  <1>5. CASE Revoke_ClearAuthToken(w)
    <2>1. CASE Answer(w)
      BY <2>1, AnswerOK
    <2>2. CASE req[w].status # "absent" /\ Continue(w, "UpdatePeerStatus")
      <3>1. req[w].agent \in Agents
        BY <1>0, <1>5 DEF Revoke_ClearAuthToken, At, RequestOK, AgentLocal,
                          AgentOps, StateActions
      <3>2. ~agent'[req[w].agent].auth
        BY <1>5, <3>1 DEF Revoke_ClearAuthToken, TypeOK, AgentRow
      <3>3. RevokeLocal(w)' /\ PeerLocal(w)'
        BY <1>0, <1>5, <2>2, <3>2, ContinueKeeps
        DEF RevokeLocal, RequestOK, PeerLocal, RowsKept, Revoke_ClearAuthToken, At
      <3> QED
        BY <1>3, <1>5, <2>2, <3>3 DEF Revoke_ClearAuthToken, At, StateActions
    <2> QED
      BY <1>5, <2>1, <2>2 DEF Revoke_ClearAuthToken, AnswerChange
  <1>6. CASE /\ ChangeAgentState_UpdatePeer(w) \/ Revoke_ClearAssignedAddress(w)
            /\ ~Answer(w)
    <2>1. PICK pc \in {"ClearAssignedAddress", "RemovePeer"} : Continue(w, pc)
      BY <1>6 DEF ChangeAgentState_UpdatePeer, Revoke_ClearAssignedAddress,
                  AfterChange, AnswerChange
    <2>2. req[w].op \in StateActions /\ agent' = agent
      BY <1>6 DEF ChangeAgentState_UpdatePeer, Revoke_ClearAssignedAddress, At,
                  StateActions
    <2>3. RevokeLocal(w)' /\ PeerLocal(w)'
      BY <1>0, <1>6, <2>1, <2>2, ContinueKeeps
      DEF RequestOK, RevokeLocal, PeerLocal, RowsKept,
          ChangeAgentState_UpdatePeer, Revoke_ClearAssignedAddress, At
    <2> QED
      BY <1>3, <2>1, <2>2, <2>3
  <1>7. CASE CheckIn_FindAgent(w)
    <2>1. PICK a \in Agents, k \in Keys \union {None} :
            /\ a \in handed
            /\ Authenticates(a)
            /\ Begin(w, [OpenFor("checkIn", "FindPeer", a)
                            EXCEPT !.key = k, !.late = a \in cut])
      BY <1>7 DEF CheckIn_FindAgent
    <2>2. req'[w] = [OpenFor("checkIn", "FindPeer", a)
                       EXCEPT !.key = k, !.late = a \in cut]
      BY <2>1, BeginOthers
    <2>3. /\ req'[w].op = "checkIn"
          /\ req'[w].pc = "FindPeer"
          /\ req'[w].agent = a
          /\ req'[w].late = (a \in cut)
      BY <2>2 DEF OpenFor, Open, NoRequest
    <2>4. a \notin cut
      BY <2>1 DEF Authenticates, CutOff
    <2>5. HasPeer(a)'
      BY <2>1 DEF Handed, RowsKept
    <2> QED
      BY <2>3, <2>4, <2>5 DEF RequestOK, AgentLocal, TokenLocal, RefreshLocal, PeerLocal,
         EnrollLocal, CheckInLocal, RevokeLocal, KeyLocal, StateActions, HasPeer,
         RefreshCalls
  <1>8. CASE CheckIn_FindPeer(w)
    <2>1. CASE Answer(w)
      BY <2>1, AnswerOK
    <2>2. CASE req[w].key \in Keys /\ Continue(w, "FindByPublicKey")
      BY <1>0, <1>8, <2>2, ContinueKeeps, CheckInRequestOK
      DEF CheckIn_FindPeer, At
    <2>3. req[w].key \in Keys \union {None}
      BY <1>0 DEF Request
    <2> QED
      BY <1>8, <2>1, <2>2, <2>3 DEF CheckIn_FindPeer
  <1>9. CASE CheckIn_FindByPublicKey(w)
    <2>1. CASE Answer(w)
      BY <2>1, AnswerOK
    <2>2. CASE Continue(w, "UpdatePublicKeyAndStatus")
      <3>1. req[w].key \in Keys
        BY <1>0, <1>9 DEF RequestOK, KeyLocal, CheckIn_FindByPublicKey, At
      <3> QED
        BY <1>0, <1>9, <2>2, <3>1, ContinueKeeps, CheckInRequestOK
        DEF CheckIn_FindByPublicKey, At
    <2> QED
      BY <1>9, <2>1, <2>2 DEF CheckIn_FindByPublicKey
  <1>10. CASE CheckIn_UpdatePublicKey(w)
    BY <1>10, AnswerOK DEF CheckIn_UpdatePublicKey
  <1>11. CASE Rotate_FindAgent(w)
    <2>1. PICK a \in Agents : Begin(w, OpenFor("rotate", "FindPeer", a))
      BY <1>11 DEF Rotate_FindAgent
    <2>2. req'[w] = OpenFor("rotate", "FindPeer", a)
      BY <2>1, BeginOthers
    <2>3. req'[w].op = "rotate" /\ req'[w].pc = "FindPeer" /\ req'[w].agent = a
      BY <2>2 DEF OpenFor, Open, NoRequest
    <2> QED
      BY <2>3, PlainRequestOK DEF RefreshLocal, RefreshCalls, PeerLocal
  <1>12. CASE Rotate_FindPeer(w)
    <2>1. CASE Answer(w)
      BY <2>1, AnswerOK
    <2>2. CASE Continue(w, "UpdatePeerStatus")
      <3>1. /\ req'[w].op = "rotate"
            /\ req'[w].pc = "UpdatePeerStatus"
            /\ req'[w].agent = req[w].agent
        BY <1>12, <2>2, ContinueKeeps DEF Rotate_FindPeer, At
      <3>2. req[w].agent \in Agents
        BY <1>0, <1>12 DEF Rotate_FindPeer, At, RequestOK, AgentLocal, AgentOps
      <3>3. CASE HasPeer(req[w].agent)
        <4>1. peer'[req[w].agent].status # "absent"
          BY <3>2, <3>3 DEF RowsKept, HasPeer
        <4> QED
          BY <3>1, <3>2, <4>1, PlainRequestOK
          DEF PeerLocal, RefreshLocal, RefreshCalls, HasPeer
      <3> QED
        BY <1>12, <3>3, AnswerOK DEF Rotate_FindPeer
    <2> QED
      BY <1>12, <2>1, <2>2 DEF Rotate_FindPeer
  <1>13. CASE Rotate_UpdateStatus(w)
    BY <1>13, AnswerOK DEF Rotate_UpdateStatus
  <1>14. CASE ChangeAgentState_RemovePeer(w) \/ Answer(w)
    BY <1>14, AnswerOK DEF ChangeAgentState_RemovePeer, AnswerChange
  <1> QED
    BY <1>1, <1>2, <1>4, <1>5, <1>6, <1>7, <1>8, <1>9, <1>10, <1>11, <1>12,
       <1>13, <1>14 DEF LifecycleNext

\* The same for ReconcilePeer,
LEMMA ReconcileRequestOK ==
    ASSUME Inv, RowsKept, NEW w \in Workers, ReconcileNext(w)
    PROVE  RequestOK(w)'
  <1> USE DEF Inv
  <1>1. CASE ReconcilePeer_FindByID(w)
    <2>1. PICK a \in Agents :
            /\ Reconcilable(peer[a].status)
            /\ Begin(w, [OpenFor("reconcile", "ApplyPeer", a)
                            EXCEPT !.key = peer[a].key])
      BY <1>1 DEF ReconcilePeer_FindByID
    <2>2. req'[w] = [OpenFor("reconcile", "ApplyPeer", a) EXCEPT !.key = peer[a].key]
      BY <2>1, BeginOthers
    <2>3. peer[a].key \in Keys /\ peer'[a].status # "absent"
      BY <2>1 DEF Reconcilable, Rows, RowsKept, HasPeer
    <2>4. /\ req'[w].op = "reconcile"
          /\ req'[w].pc = "ApplyPeer"
          /\ req'[w].agent = a
          /\ req'[w].key = peer[a].key
      BY <2>2 DEF OpenFor, Open, NoRequest
    <2> QED
      BY <2>3, <2>4 DEF RequestOK, AgentLocal, TokenLocal, RefreshLocal, PeerLocal,
         EnrollLocal, CheckInLocal, RevokeLocal, KeyLocal, StateActions,
         RefreshCalls, HasPeer
  <1>2. CASE ReconcilePeer_ApplyPeer(w)
    <2>1. req[w] \in Request
      BY DEF TypeOK
    <2>2. req'[w] = [req[w] EXCEPT !.pc = "UpdatePeerStatus"]
      BY <1>2, ContinueOthers DEF ReconcilePeer_ApplyPeer
    <2>3. /\ req'[w].op = "reconcile"
          /\ req'[w].pc = "UpdatePeerStatus"
          /\ req'[w].agent = req[w].agent
      BY <1>2, <2>1, <2>2 DEF ReconcilePeer_ApplyPeer, At, Request
    <2>4. req[w].agent \in Agents /\ peer'[req[w].agent].status # "absent"
      BY <1>2 DEF ReconcilePeer_ApplyPeer, At, RequestOK, PeerLocal, RowsKept,
                  HasPeer
    <2> QED
      BY <2>3, <2>4 DEF HasPeer,
         RequestOK, AgentLocal, TokenLocal, RefreshLocal, PeerLocal,
         EnrollLocal, CheckInLocal, RevokeLocal, KeyLocal, StateActions,
         RefreshCalls
  <1>3. CASE ReconcilePeer_UpdateStatus(w)
    BY <1>3, AnswerOK DEF ReconcilePeer_UpdateStatus
  <1> QED
    BY <1>1, <1>2, <1>3 DEF ReconcileNext

-----------------------------------------------------------------------------
(* The requests that refresh a peer intent.                                *)

\* A policy request needs its agent and, for a refresh, the peer it has read.
LEMMA PolicyRequestOK ==
    ASSUME NEW w \in Workers,
           req'[w].op \in {"assign", "unassign", "trafficMode", "updatePolicy"},
           req'[w].pc \in {"InsertAssignment", "ListByPolicyID"} \union RefreshCalls,
           AgentLocal(w)', RefreshLocal(w)'
    PROVE  RequestOK(w)'
  BY DEF RequestOK, TokenLocal, PeerLocal, EnrollLocal, CheckInLocal, RevokeLocal,
         KeyLocal,         StateActions, RefreshCalls

\* An enrollment needs its locals, its key and, for a refresh, the peer.
LEMMA EnrollRequestOK ==
    ASSUME NEW w \in Workers, req'[w].op = "enroll", req'[w].key \in Keys,
           EnrollLocal(w)', RefreshLocal(w)'
    PROVE  RequestOK(w)'
  BY DEF RequestOK, AgentLocal, AgentOps, TokenLocal, PeerLocal, EnrollLocal, CheckInLocal,
         RevokeLocal, KeyLocal, StateActions, RefreshCalls, LookupCalls, PeerCalls

\* A step of the refresh keeps the request; only an update of a policy moves
\* on to another agent.
LEMMA RefreshRequestOK ==
    ASSUME RowsKept, NEW w \in Workers, RequestOK(w), req[w].pc \in RefreshCalls,
           req'[w].op = req[w].op, req'[w].token = req[w].token,
           req'[w].host = req[w].host, req'[w].key = req[w].key,
           req'[w].policy = req[w].policy, req'[w].late = req[w].late,
           req[w].op # "updatePolicy" => req'[w].agent = req[w].agent,
           \/ req'[w].pc \in RefreshCalls
           \/ req'[w].pc = "MarkUsed" /\ req[w].op = "enroll",
           RefreshLocal(w)'
    PROVE  RequestOK(w)'
  <1>1. req[w].op \in RefreshOps
    BY DEF RequestOK, RefreshLocal
  <1>2. CASE req[w].op = "enroll"
    <2>1. req[w].key \in Keys
      BY <1>2 DEF RequestOK, KeyLocal
    <2>2. EnrollLocal(w)'
      BY <1>2 DEF RequestOK, EnrollLocal, RowsKept, LookupCalls, PeerCalls,
                  RefreshCalls
    <2> QED
      BY <1>2, <2>1, <2>2, EnrollRequestOK
  <1>3. CASE req[w].op # "enroll"
    <2>1. AgentLocal(w)'
      BY <1>1, <1>3 DEF RequestOK, AgentLocal, AgentOps, RefreshOps, StateActions
    <2> QED
      BY <1>1, <1>3, <2>1, PolicyRequestOK DEF RefreshOps
  <1> QED
    BY <1>2, <1>3

\* for the three calls of refreshPeerIntentForAgent,
LEMMA RefreshKeepsRequest ==
    ASSUME Inv, RowsKept, NEW w \in Workers,
           \/ Refresh_FindPeer(w)
           \/ Refresh_Render(w)
           \/ Refresh_UpdateIntent(w)
    PROVE  RequestOK(w)'
  <1> USE DEF Inv
  <1>0. RequestOK(w) /\ req[w] \in Request
    BY DEF TypeOK
  <1>1. req[w].pc \in RefreshCalls /\ req[w].op \in RefreshOps
    BY <1>0 DEF Refresh_FindPeer, Refresh_Render, Refresh_UpdateIntent,
                RequestOK, RefreshLocal, RefreshCalls
  <1>2. CASE Answer(w)
    BY <1>2, AnswerOK
  <1>3. CASE Continue(w, "MarkUsed") /\ req[w].op = "enroll"
    <2>1. RefreshLocal(w)'
      BY <1>3, ContinueKeeps DEF RefreshLocal, RefreshCalls
    <2> QED
      BY <1>0, <1>1, <1>3, <2>1, ContinueKeeps, RefreshRequestOK
  <1>4. CASE Refresh_FindPeer(w)
    <2>1. PICK a \in RefreshTargets(w) :
            \/ /\ HasPeer(a)
               /\ Step(w, [req[w] EXCEPT !.pc = "refresh.Render", !.agent = a,
                                         !.status = peer[a].status,
                                         !.todoAgents = @ \ {a}])
            \/ Continue(w, "MarkUsed") /\ req[w].op = "enroll"
            \/ Step(w, [req[w] EXCEPT !.todoAgents = @ \ {a}])
            \/ Answer(w)
      BY <1>4 DEF Refresh_FindPeer
    <2>2. a \in Agents
      BY <1>4, RefreshTargetsTyped DEF Refresh_FindPeer
    <2>3. CASE /\ HasPeer(a)
               /\ Step(w, [req[w] EXCEPT !.pc = "refresh.Render", !.agent = a,
                                         !.status = peer[a].status,
                                         !.todoAgents = @ \ {a}])
      <3>1. req'[w] = [req[w] EXCEPT !.pc = "refresh.Render", !.agent = a,
                                     !.status = peer[a].status,
                                     !.todoAgents = @ \ {a}]
        BY <2>3, StepOthers
      <3>2. /\ req'[w].op = req[w].op /\ req'[w].token = req[w].token
            /\ req'[w].host = req[w].host /\ req'[w].key = req[w].key
            /\ req'[w].policy = req[w].policy /\ req'[w].late = req[w].late
            /\ req'[w].agent = a /\ req'[w].status = peer[a].status
            /\ req'[w].pc = "refresh.Render"
        BY <1>0, <3>1 DEF Request
      <3>3. req[w].op # "updatePolicy" => a = req[w].agent
        BY <2>1 DEF RefreshTargets
      <3>4. peer[a].status # "absent" /\ peer'[a].status # "absent"
        BY <2>2, <2>3 DEF RowsKept, HasPeer
      <3>5. RefreshLocal(w)'
        BY <1>1, <2>2, <3>2, <3>4 DEF RefreshLocal, HasPeer
      <3> QED
        BY <1>0, <1>1, <3>2, <3>3, <3>5, RefreshRequestOK DEF RefreshCalls
    <2>4. CASE Step(w, [req[w] EXCEPT !.todoAgents = @ \ {a}])
      <3>1. req'[w] = [req[w] EXCEPT !.todoAgents = @ \ {a}]
        BY <2>4, StepOthers
      <3>2. /\ req'[w].op = req[w].op /\ req'[w].token = req[w].token
            /\ req'[w].host = req[w].host /\ req'[w].key = req[w].key
            /\ req'[w].policy = req[w].policy /\ req'[w].late = req[w].late
            /\ req'[w].agent = req[w].agent /\ req'[w].pc = "refresh.FindPeer"
        BY <1>0, <1>4, <3>1 DEF Request, Refresh_FindPeer
      <3>3. RefreshLocal(w)'
        BY <1>1, <3>2 DEF RefreshLocal
      <3> QED
        BY <1>0, <1>1, <3>2, <3>3, RefreshRequestOK DEF RefreshCalls
    <2> QED
      BY <1>2, <1>3, <2>1, <2>3, <2>4
  <1>5. CASE Refresh_Render(w)
    <2> DEFINE rendered == RenderAllowedIPs(req[w].agent)
    <2>1. Step(w, [req[w] EXCEPT !.pc = "refresh.UpdateIntent", !.ips = rendered])
      BY <1>5 DEF Refresh_Render
    <2> HIDE DEF rendered
    <2>2. req'[w] = [req[w] EXCEPT !.pc = "refresh.UpdateIntent", !.ips = rendered]
      BY <2>1, StepOthers
    <2>3. /\ req'[w].op = req[w].op /\ req'[w].token = req[w].token
          /\ req'[w].host = req[w].host /\ req'[w].key = req[w].key
          /\ req'[w].policy = req[w].policy /\ req'[w].late = req[w].late
          /\ req'[w].agent = req[w].agent /\ req'[w].status = req[w].status
          /\ req'[w].pc = "refresh.UpdateIntent"
      BY <1>0, <2>2 DEF Request
    <2>4. /\ req[w].agent \in Agents
          /\ peer'[req[w].agent].status # "absent"
          /\ req[w].status # "absent"
      BY <1>0, <1>5 DEF Refresh_Render, RequestOK, RefreshLocal, RowsKept, HasPeer
    <2>5. RefreshLocal(w)'
      BY <1>1, <2>3, <2>4 DEF RefreshLocal, HasPeer
    <2> QED
      BY <1>0, <1>1, <2>3, <2>5, RefreshRequestOK DEF RefreshCalls
  <1>6. CASE Refresh_UpdateIntent(w)
    <2>1. CASE Step(w, [req[w] EXCEPT !.pc = "refresh.FindPeer",
                                      !.status = "absent", !.ips = {}])
      <3>1. req'[w] = [req[w] EXCEPT !.pc = "refresh.FindPeer",
                                     !.status = "absent", !.ips = {}]
        BY <2>1, StepOthers
      <3>2. /\ req'[w].op = req[w].op /\ req'[w].token = req[w].token
            /\ req'[w].host = req[w].host /\ req'[w].key = req[w].key
            /\ req'[w].policy = req[w].policy /\ req'[w].late = req[w].late
            /\ req'[w].agent = req[w].agent /\ req'[w].pc = "refresh.FindPeer"
        BY <1>0, <3>1 DEF Request
      <3>3. RefreshLocal(w)'
        BY <1>1, <3>2 DEF RefreshLocal
      <3> QED
        BY <1>0, <1>1, <3>2, <3>3, RefreshRequestOK DEF RefreshCalls
    <2> QED
      BY <1>2, <1>3, <1>6, <2>1 DEF Refresh_UpdateIntent, AfterRefresh
  <1> QED
    BY <1>4, <1>5, <1>6

\* for all policy requests,
LEMMA PolicyKeepsRequest ==
    ASSUME Inv, RowsKept, NEW w \in Workers, PolicyNext(w)
    PROVE  RequestOK(w)'
  <1> USE DEF Inv
  <1>0. RequestOK(w) /\ req[w] \in Request
    BY DEF TypeOK
  <1>1. CASE AssignPolicy_Find(w)
    <2>1. PICK a \in Agents, p \in Policies :
            Begin(w, [OpenFor("assign", "InsertAssignment", a) EXCEPT !.policy = p])
      BY <1>1 DEF AssignPolicy_Find
    <2>2. req'[w] = [OpenFor("assign", "InsertAssignment", a) EXCEPT !.policy = p]
      BY <2>1, BeginOthers
    <2>3. /\ req'[w].op = "assign" /\ req'[w].pc = "InsertAssignment"
          /\ req'[w].agent = a /\ req'[w].policy = p
      BY <2>2 DEF OpenFor, Open, NoRequest
    <2> QED
      BY <2>3, PolicyRequestOK DEF AgentLocal, RefreshLocal, RefreshCalls,
                                   StateActions
  <1>2. CASE AssignPolicy_Insert(w)
    <2>1. /\ req'[w].op = "assign" /\ req'[w].pc = "refresh.FindPeer"
          /\ req'[w].agent = req[w].agent /\ req'[w].policy = req[w].policy
      BY <1>2, ContinueKeeps DEF AssignPolicy_Insert, At
    <2>2. req[w].agent \in Agents /\ req[w].policy \in Policies
      BY <1>0, <1>2 DEF AssignPolicy_Insert, At, RequestOK, AgentLocal, AgentOps
    <2> QED
      BY <2>1, <2>2, PolicyRequestOK DEF AgentLocal, RefreshLocal, RefreshCalls,
                                         RefreshOps, StateActions
  <1>3. CASE UnassignPolicy(w)
    <2>1. PICK a \in Agents, p \in Policies :
            Begin(w, [OpenFor("unassign", "refresh.FindPeer", a) EXCEPT !.policy = p])
      BY <1>3 DEF UnassignPolicy
    <2>2. req'[w] = [OpenFor("unassign", "refresh.FindPeer", a) EXCEPT !.policy = p]
      BY <2>1, BeginOthers
    <2>3. /\ req'[w].op = "unassign" /\ req'[w].pc = "refresh.FindPeer"
          /\ req'[w].agent = a
      BY <2>2 DEF OpenFor, Open, NoRequest
    <2> QED
      BY <2>3, PolicyRequestOK DEF AgentLocal, RefreshLocal, RefreshCalls,
                                   RefreshOps, StateActions
  <1>4. CASE SetTrafficMode(w)
    <2>1. PICK a \in Agents : Begin(w, OpenFor("trafficMode", "refresh.FindPeer", a))
      BY <1>4 DEF SetTrafficMode
    <2>2. req'[w] = OpenFor("trafficMode", "refresh.FindPeer", a)
      BY <2>1, BeginOthers
    <2>3. /\ req'[w].op = "trafficMode" /\ req'[w].pc = "refresh.FindPeer"
          /\ req'[w].agent = a
      BY <2>2 DEF OpenFor, Open, NoRequest
    <2> QED
      BY <2>3, PolicyRequestOK DEF AgentLocal, RefreshLocal, RefreshCalls,
                                   RefreshOps, StateActions
  <1>5. CASE UpdatePolicy(w)
    <2>1. PICK p \in Policies :
            Begin(w, [Open("updatePolicy", "ListByPolicyID") EXCEPT !.policy = p])
      BY <1>5 DEF UpdatePolicy
    <2>2. req'[w] = [Open("updatePolicy", "ListByPolicyID") EXCEPT !.policy = p]
      BY <2>1, BeginOthers
    <2>3. req'[w].op = "updatePolicy" /\ req'[w].pc = "ListByPolicyID"
      BY <2>2 DEF Open, NoRequest
    <2> QED
      BY <2>3, PolicyRequestOK DEF AgentLocal, AgentOps, RefreshLocal,
                                   RefreshCalls, StateActions
  <1>6. CASE UpdatePolicy_ListAssignments(w)
    <2>1. CASE Answer(w)
      BY <2>1, AnswerOK
    <2>2. CASE ~Answer(w)
      <3> DEFINE todo == {a \in Agents : <<a, req[w].policy>> \in assigned}
      <3>1. Step(w, [req[w] EXCEPT !.pc = "refresh.FindPeer", !.todoAgents = todo])
        BY <1>6, <2>2 DEF UpdatePolicy_ListAssignments
      <3> HIDE DEF todo
      <3>2. req'[w] = [req[w] EXCEPT !.pc = "refresh.FindPeer", !.todoAgents = todo]
        BY <3>1, StepOthers
      <3>3. req'[w].op = "updatePolicy" /\ req'[w].pc = "refresh.FindPeer"
        BY <1>0, <1>6, <3>2 DEF UpdatePolicy_ListAssignments, At, Request
      <3> QED
        BY <3>3, PolicyRequestOK DEF AgentLocal, AgentOps, RefreshLocal,
                                     RefreshCalls, RefreshOps, StateActions
    <2> QED
      BY <2>1, <2>2
  <1> QED
    BY <1>1, <1>2, <1>3, <1>4, <1>5, <1>6, RefreshKeepsRequest DEF PolicyNext

-----------------------------------------------------------------------------
\* A request about a token needs the row of the token.
LEMMA TokenRequestOK ==
    ASSUME NEW w \in Workers,
           req'[w].op \in {"createToken", "reissue", "revokeToken"},
           req'[w].pc \in {"BindPolicies", "Revoke"},
           AgentLocal(w)', TokenLocal(w)'
    PROVE  RequestOK(w)'
  BY DEF RequestOK, RefreshLocal, RefreshCalls, PeerLocal, EnrollLocal, CheckInLocal,
         RevokeLocal, KeyLocal

\* A lookup of an enrollment keeps what the enrollment holds.
LEMMA LookupRequestOK ==
    ASSUME Inv, RowsKept, NEW w \in Workers,
           req[w].op = "enroll", req[w].pc \in LookupCalls,
           req'[w].op = req[w].op, req'[w].token = req[w].token,
           req'[w].host = req[w].host, req'[w].key = req[w].key,
           req'[w].late = req[w].late, req'[w].pc \in LookupCalls
    PROVE  RequestOK(w)'
  <1>1. req[w].key \in Keys
    BY DEF Inv, RequestOK, KeyLocal
  <1>2. EnrollLocal(w)'
    BY DEF Inv, RequestOK, EnrollLocal, RowsKept, LookupCalls, PeerCalls,
           RefreshCalls
  <1>3. RefreshLocal(w)'
    BY DEF RefreshLocal, LookupCalls, RefreshCalls
  <1> QED
    BY <1>1, <1>2, <1>3, EnrollRequestOK

\* for the requests on enrollment tokens,
LEMMA TokenKeepsRequest ==
    ASSUME Inv, RowsKept, NEW w \in Workers,
           \/ CreateToken_Insert(w)
           \/ Reissue_FindAgent(w)
           \/ Reissue_ListPolicies(w)
           \/ Reissue_Insert(w)
           \/ CreateToken_BindPolicies(w)
           \/ RevokeToken_Find(w)
           \/ RevokeToken_Revoke(w)
    PROVE  RequestOK(w)'
  <1> USE DEF Inv
  <1>0. RequestOK(w) /\ req[w] \in Request
    BY DEF TypeOK
  <1>1. CASE CreateToken_Insert(w)
    <2>1. PICK t \in Tokens, h \in Hosts \union {None}, policies \in SUBSET Policies :
            /\ Begin(w, [Open("createToken", "BindPolicies")
                            EXCEPT !.token = t, !.todoPolicies = policies])
            /\ token' = [token EXCEPT ![t] =
                             IssuedToken(IF h = None THEN "A" ELSE "B", h)]
      BY <1>1 DEF CreateToken_Insert
    <2>2. req'[w] = [Open("createToken", "BindPolicies")
                        EXCEPT !.token = t, !.todoPolicies = policies]
      BY <2>1, BeginOthers
    <2>3. /\ req'[w].op = "createToken" /\ req'[w].pc = "BindPolicies"
          /\ req'[w].token = t
      BY <2>2 DEF Open, NoRequest
    <2>4. token'[t].status = "issued"
      BY <2>1 DEF TypeOK, IssuedToken, NoToken
    <2> QED
      BY <2>3, <2>4, TokenRequestOK DEF AgentLocal, AgentOps, StateActions,
                                        TokenLocal, HasToken
  <1>2. CASE Reissue_FindAgent(w)
    <2>1. PICK a \in Agents :
            Begin(w, [OpenFor("reissue", "ListPolicies", a)
                         EXCEPT !.host = agent[a].host])
      BY <1>2 DEF Reissue_FindAgent
    <2>2. req'[w] = [OpenFor("reissue", "ListPolicies", a) EXCEPT !.host = agent[a].host]
      BY <2>1, BeginOthers
    <2>3. /\ req'[w].op = "reissue" /\ req'[w].pc = "ListPolicies"
          /\ req'[w].agent = a
      BY <2>2 DEF OpenFor, Open, NoRequest
    <2> QED
      BY <2>3, PlainRequestOK DEF RefreshLocal, RefreshCalls, PeerLocal
  <1>3. CASE Reissue_ListPolicies(w)
    <2> DEFINE todo == {p \in Policies : <<req[w].agent, p>> \in assigned}
    <2>1. Step(w, [req[w] EXCEPT !.pc = "InsertToken", !.todoPolicies = todo])
      BY <1>3 DEF Reissue_ListPolicies
    <2> HIDE DEF todo
    <2>2. req'[w] = [req[w] EXCEPT !.pc = "InsertToken", !.todoPolicies = todo]
      BY <2>1, StepOthers
    <2>3. /\ req'[w].op = "reissue" /\ req'[w].pc = "InsertToken"
          /\ req'[w].agent = req[w].agent
      BY <1>0, <1>3, <2>2 DEF Reissue_ListPolicies, At, Request
    <2>4. req[w].agent \in Agents
      BY <1>0, <1>3 DEF Reissue_ListPolicies, At, RequestOK, AgentLocal, AgentOps
    <2> QED
      BY <2>3, <2>4, PlainRequestOK DEF RefreshLocal, RefreshCalls, PeerLocal
  <1>4. CASE Reissue_Insert(w)
    <2>1. PICK t \in Tokens :
            /\ token' = [token EXCEPT ![t] = IssuedToken("B", req[w].host)]
            /\ Step(w, [req[w] EXCEPT !.pc = "BindPolicies", !.token = t])
      BY <1>4 DEF Reissue_Insert
    <2>2. req'[w] = [req[w] EXCEPT !.pc = "BindPolicies", !.token = t]
      BY <2>1, StepOthers
    <2>3. /\ req'[w].op = "reissue" /\ req'[w].pc = "BindPolicies"
          /\ req'[w].token = t /\ req'[w].agent = req[w].agent
      BY <1>0, <1>4, <2>2 DEF Reissue_Insert, At, Request
    <2>4. token'[t].status = "issued"
      BY <2>1 DEF TypeOK, IssuedToken, NoToken
    <2>5. req[w].agent \in Agents
      BY <1>0, <1>4 DEF Reissue_Insert, At, RequestOK, AgentLocal, AgentOps
    <2> QED
      BY <2>3, <2>4, <2>5, TokenRequestOK DEF AgentLocal, StateActions,
                                              TokenLocal, HasToken
  <1>5. CASE RevokeToken_Find(w)
    <2>1. PICK t \in Tokens :
            HasToken(t) /\ Begin(w, [Open("revokeToken", "Revoke") EXCEPT !.token = t])
      BY <1>5 DEF RevokeToken_Find
    <2>2. req'[w] = [Open("revokeToken", "Revoke") EXCEPT !.token = t]
      BY <2>1, BeginOthers
    <2>3. /\ req'[w].op = "revokeToken" /\ req'[w].pc = "Revoke"
          /\ req'[w].token = t
      BY <2>2 DEF Open, NoRequest
    <2>4. token'[t].status # "absent"
      BY <2>1 DEF RowsKept, HasToken
    <2> QED
      BY <2>3, <2>4, TokenRequestOK DEF AgentLocal, AgentOps, StateActions,
                                        TokenLocal, HasToken
  <1>6. CASE CreateToken_BindPolicies(w) \/ RevokeToken_Revoke(w)
    BY <1>6, AnswerOK DEF CreateToken_BindPolicies, RevokeToken_Revoke
  <1> QED
    BY <1>1, <1>2, <1>3, <1>4, <1>5, <1>6

\* An admitted token has a row; a withdrawn one is never admitted.
LEMMA AdmittedToken ==
    ASSUME Inv, NEW t \in Tokens, NEW h, t \in handed, TokenAdmits(t, h)
    PROVE  /\ HasToken(t)
           /\ t \notin withdrawn
           /\ token[t].model = "B" => token[t].bound = h
  BY DEF Inv, Handed, Withdrawn, TokenAdmits, EffectiveStatus

\* and for every call of PerformEnrollment.
LEMMA EnrollKeepsRequest ==
    ASSUME Inv, RowsKept, NEW w \in Workers,
           \/ Enroll_FindByHash(w)
           \/ Enroll_FindByHostname(w)
           \/ Enroll_FindByPublicKey(w)
           \/ Enroll_AllocateAddress(w)
           \/ Enroll_InsertAgent(w)
           \/ Enroll_InsertPeer(w)
           \/ Enroll_AssignPolicies(w)
           \/ Enroll_MarkUsed(w)
           \/ Enroll_BuildConfig(w)
    PROVE  RequestOK(w)'
  <1> USE DEF Inv
  <1>0. RequestOK(w) /\ req[w] \in Request
    BY DEF TypeOK
  <1>1. CASE Enroll_FindByHash(w)
    <2>1. PICK t \in Tokens, h \in Hosts, k \in Keys :
            /\ t \in handed
            /\ TokenAdmits(t, h)
            /\ Begin(w, [Open("enroll", "FindByHostname")
                            EXCEPT !.token = t, !.host = h, !.key = k,
                                   !.late = t \in withdrawn])
      BY <1>1 DEF Enroll_FindByHash
    <2>2. req'[w] = [Open("enroll", "FindByHostname")
                        EXCEPT !.token = t, !.host = h, !.key = k,
                               !.late = t \in withdrawn]
      BY <2>1, BeginOthers
    <2>3. /\ req'[w].op = "enroll" /\ req'[w].pc = "FindByHostname"
          /\ req'[w].token = t /\ req'[w].host = h /\ req'[w].key = k
          /\ req'[w].late = (t \in withdrawn)
      BY <2>2 DEF Open, NoRequest
    <2>4. /\ t \notin withdrawn
          /\ token'[t].status # "absent"
          /\ token'[t].model = "B" => token'[t].bound = h
      BY <2>1, AdmittedToken DEF RowsKept, HasToken
    <2>5. EnrollLocal(w)'
      BY <2>3, <2>4 DEF EnrollLocal, LookupCalls, PeerCalls, RefreshCalls, HasToken
    <2> QED
      BY <2>3, <2>5, EnrollRequestOK DEF RefreshLocal, RefreshCalls
  <1>2. ASSUME NEW pc \in LookupCalls, req[w].op = "enroll",
               req[w].pc \in LookupCalls, Continue(w, pc)
        PROVE  RequestOK(w)'
    BY <1>2, ContinueKeeps, LookupRequestOK
  <1>3. CASE Enroll_FindByHostname(w) \/ Enroll_FindByPublicKey(w)
    BY <1>2, <1>3, AnswerOK
    DEF Enroll_FindByHostname, Enroll_FindByPublicKey, At, LookupCalls
  <1>4. CASE Enroll_AllocateAddress(w)
    <2>1. CASE Answer(w)
      BY <2>1, AnswerOK
    <2>2. CASE ~Answer(w)
      <3>1. PICK x : Step(w, [req[w] EXCEPT !.pc = "InsertAgent", !.addr = x])
        BY <1>4, <2>2 DEF Enroll_AllocateAddress
      <3>2. req'[w] = [req[w] EXCEPT !.pc = "InsertAgent", !.addr = x]
        BY <3>1, StepOthers
      <3>3. /\ req'[w].op = req[w].op /\ req'[w].token = req[w].token
            /\ req'[w].host = req[w].host /\ req'[w].key = req[w].key
            /\ req'[w].late = req[w].late /\ req'[w].pc = "InsertAgent"
        BY <1>0, <3>2 DEF Request
      <3> QED
        BY <1>4, <3>3, LookupRequestOK
        DEF Enroll_AllocateAddress, At, LookupCalls
    <2> QED
      BY <2>1, <2>2
  <1>5. CASE Enroll_InsertAgent(w)
    <2>1. PICK a \in Agents :
            /\ agent' = [agent EXCEPT ![a] =
                  [host |-> req[w].host, status |-> "enrolled", auth |-> TRUE,
                   override |-> "inherit"]]
            /\ enrolledBy' = [enrolledBy EXCEPT ![a] = req[w].token]
            /\ Step(w, [req[w] EXCEPT !.pc = "InsertPeer", !.agent = a])
      BY <1>5 DEF Enroll_InsertAgent
    <2>2. req'[w] = [req[w] EXCEPT !.pc = "InsertPeer", !.agent = a]
      BY <2>1, StepOthers
    <2>3. /\ req'[w].op = "enroll" /\ req'[w].token = req[w].token
          /\ req'[w].host = req[w].host /\ req'[w].key = req[w].key
          /\ req'[w].late = req[w].late /\ req'[w].pc = "InsertPeer"
          /\ req'[w].agent = a
      BY <1>0, <1>5, <2>2 DEF Request, Enroll_InsertAgent, At
    <2>4. /\ agent'[a].status = "enrolled"
          /\ enrolledBy'[a] = req[w].token
      BY <2>1 DEF TypeOK
    <2>5. req[w].key \in Keys
      BY <1>0, <1>5 DEF Enroll_InsertAgent, At, RequestOK, KeyLocal
    <2>6. EnrollLocal(w)'
      BY <1>0, <1>5, <2>3, <2>4
      DEF Enroll_InsertAgent, At, RequestOK, EnrollLocal, RowsKept, LookupCalls,
          PeerCalls, RefreshCalls, HasAgent
    <2> QED
      BY <2>3, <2>5, <2>6, EnrollRequestOK DEF RefreshLocal, RefreshCalls
  <1>6. CASE Enroll_InsertPeer(w)
    <2> DEFINE policies == token[req[w].token].policies
               pc == IF policies = {} THEN "MarkUsed" ELSE "AssignPolicies"
    <2>1. Step(w, [req[w] EXCEPT !.todoPolicies = policies, !.pc = pc])
      BY <1>6 DEF Enroll_InsertPeer
    <2>2. pc \in {"MarkUsed", "AssignPolicies"}
      OBVIOUS
    <2> HIDE DEF policies, pc
    <2>3. req'[w] = [req[w] EXCEPT !.todoPolicies = policies, !.pc = pc]
      BY <2>1, StepOthers
    <2>4. /\ req'[w].op = "enroll" /\ req'[w].token = req[w].token
          /\ req'[w].host = req[w].host /\ req'[w].key = req[w].key
          /\ req'[w].late = req[w].late /\ req'[w].pc = pc
          /\ req'[w].agent = req[w].agent
      BY <1>0, <1>6, <2>3 DEF Request, Enroll_InsertPeer, At
    <2>5. req[w].agent \in Agents
      BY <1>0, <1>6 DEF Enroll_InsertPeer, At, RequestOK, EnrollLocal, LookupCalls
    <2>6. peer'[req[w].agent].status = "planned"
      BY <1>6, <2>5 DEF Enroll_InsertPeer, TypeOK
    <2>7. req[w].key \in Keys
      BY <1>0, <1>6 DEF Enroll_InsertPeer, At, RequestOK, KeyLocal
    <2>8. EnrollLocal(w)'
      BY <1>0, <1>6, <2>2, <2>4, <2>6
      DEF Enroll_InsertPeer, At, RequestOK, EnrollLocal, RowsKept, LookupCalls,
          PeerCalls, RefreshCalls, HasPeer
    <2> QED
      BY <2>2, <2>4, <2>7, <2>8, EnrollRequestOK DEF RefreshLocal, RefreshCalls
  <1>7. CASE Enroll_AssignPolicies(w)
    <2>0. PICK p : Step(w, [req[w] EXCEPT !.todoPolicies = @ \ {p},
                                !.pc = IF req[w].todoPolicies = {p}
                                       THEN "refresh.FindPeer" ELSE @])
      BY <1>7 DEF Enroll_AssignPolicies
    <2> DEFINE todo == req[w].todoPolicies \ {p}
               pc == IF req[w].todoPolicies = {p}
                     THEN "refresh.FindPeer" ELSE req[w].pc
    <2>1. Step(w, [req[w] EXCEPT !.todoPolicies = todo, !.pc = pc])
      BY <2>0
    <2>6. pc \in {"refresh.FindPeer", "AssignPolicies"}
      BY <1>7 DEF Enroll_AssignPolicies, At
    <2> HIDE DEF todo, pc
    <2>2. req'[w] = [req[w] EXCEPT !.todoPolicies = todo, !.pc = pc]
      BY <2>1, StepOthers
    <2>3. /\ req'[w].op = "enroll" /\ req'[w].token = req[w].token
          /\ req'[w].host = req[w].host /\ req'[w].key = req[w].key
          /\ req'[w].late = req[w].late /\ req'[w].pc = pc
          /\ req'[w].agent = req[w].agent
      BY <1>0, <1>7, <2>2 DEF Request, Enroll_AssignPolicies, At
    <2>4. req[w].key \in Keys
      BY <1>0, <1>7 DEF Enroll_AssignPolicies, At, RequestOK, KeyLocal
    <2>5. EnrollLocal(w)'
      BY <1>0, <1>7, <2>3, <2>6
      DEF Enroll_AssignPolicies, At, RequestOK, EnrollLocal, RowsKept,
          LookupCalls, PeerCalls, RefreshCalls
    <2> QED
      BY <2>3, <2>4, <2>5, <2>6, EnrollRequestOK
      DEF RefreshLocal, RefreshCalls, RefreshOps
  <1>8. CASE Enroll_MarkUsed(w)
    <2>1. /\ req'[w].op = "enroll" /\ req'[w].token = req[w].token
          /\ req'[w].host = req[w].host /\ req'[w].key = req[w].key
          /\ req'[w].late = req[w].late /\ req'[w].pc = "BuildConfig"
          /\ req'[w].agent = req[w].agent
      BY <1>8, ContinueKeeps DEF Enroll_MarkUsed, At
    <2>2. req[w].key \in Keys
      BY <1>0, <1>8 DEF Enroll_MarkUsed, At, RequestOK, KeyLocal
    <2>4. req[w].op = "enroll" /\ req[w].pc = "MarkUsed"
      BY <1>8 DEF Enroll_MarkUsed, At
    <2>3. EnrollLocal(w)'
      BY <1>0, <2>1, <2>4
      DEF RequestOK, EnrollLocal, RowsKept, LookupCalls, PeerCalls, RefreshCalls
    <2> QED
      BY <2>1, <2>2, <2>3, EnrollRequestOK DEF RefreshLocal, RefreshCalls
  <1>9. CASE Enroll_BuildConfig(w)
    BY <1>9, AnswerOK DEF Enroll_BuildConfig
  <1> QED
    BY <1>1, <1>3, <1>4, <1>5, <1>6, <1>7, <1>8, <1>9

\* Every request relies on no more than what it and the others have left.
LEMMA NextKeepsRequests ==
    ASSUME Inv, [Next]_vars
    PROVE  \A v \in Workers : RequestOK(v)'
  <1>0. RowsKept
    BY NextKeepsRows
  <1>1. ASSUME NEW w \in Workers, WorkerNext(w), NEW v \in Workers
        PROVE  RequestOK(v)'
    <2>1. CASE v # w
      BY <1>0, <1>1, <2>1, OthersKept, RequestKept DEF Inv
    <2>2. RequestOK(w)'
      <3>1. CASE Abort(w)
        BY <3>1, AnswerOK DEF Abort, Inv
      <3>2. CASE EnrollmentNext(w)
        BY <1>0, <3>2, TokenKeepsRequest, EnrollKeepsRequest DEF EnrollmentNext
      <3> QED
        BY <1>0, <1>1, <3>1, <3>2, PolicyKeepsRequest, LifecycleRequestOK,
           ReconcileRequestOK DEF WorkerNext
    <2> QED
      BY <2>1, <2>2
  <1>2. CASE \E t \in Tokens : Expire(t)
    BY <1>0, <1>2, RequestKept DEF Expire
  <1>3. CASE UNCHANGED vars
    BY <1>0, <1>3, RequestKept DEF vars
  <1> QED
    BY <1>1, <1>2, <1>3 DEF Next, WorkerNext

-----------------------------------------------------------------------------
(* Which steps write what the invariant speaks of.                         *)

AgentWriter(w) ==
    \/ SetTrafficMode(w)
    \/ Enroll_InsertAgent(w)
    \/ ChangeAgentState_UpdateAgent(w)
    \/ Revoke_ClearAuthToken(w)

PeerWriter(w) ==
    \/ Refresh_UpdateIntent(w)
    \/ Enroll_InsertPeer(w)
    \/ ChangeAgentState_UpdatePeer(w)
    \/ Revoke_ClearAssignedAddress(w)
    \/ CheckIn_UpdatePublicKey(w)
    \/ Rotate_UpdateStatus(w)
    \/ ReconcilePeer_UpdateStatus(w)

TokenWriter(w) ==
    \/ CreateToken_Insert(w)
    \/ Reissue_Insert(w)
    \/ CreateToken_BindPolicies(w)
    \/ RevokeToken_Revoke(w)
    \/ Enroll_MarkUsed(w)

Writers(w) ==
    /\ agent' = agent \/ AgentWriter(w)
    /\ peer' = peer \/ PeerWriter(w)
    /\ token' = token \/ TokenWriter(w)
    /\ handed' = handed \/ CreateToken_BindPolicies(w) \/ Enroll_BuildConfig(w)
    /\ enrolledBy' = enrolledBy \/ Enroll_InsertAgent(w)
    /\ cut' = cut \/ Revoke_ClearAuthToken(w) \/ ChangeAgentState_UpdatePeer(w)
                  \/ Revoke_ClearAssignedAddress(w) \/ ChangeAgentState_RemovePeer(w)
    /\ withdrawn' = withdrawn \/ RevokeToken_Revoke(w)

\* Every variable is written by these steps only.
LEMMA EveryWriter ==
    ASSUME NEW w \in Workers, WorkerNext(w)
    PROVE  Writers(w)
  <1>1. CASE EnrollmentNext(w)
    BY <1>1
    DEF EnrollmentNext, CreateToken_Insert, Reissue_FindAgent,
        Reissue_ListPolicies, Reissue_Insert, CreateToken_BindPolicies,
        RevokeToken_Find, RevokeToken_Revoke, Enroll_FindByHash,
        Enroll_FindByHostname, Enroll_FindByPublicKey, Enroll_AllocateAddress,
        Enroll_InsertAgent, Enroll_InsertPeer, Enroll_AssignPolicies,
        Enroll_MarkUsed, Enroll_BuildConfig, Writers, AgentWriter, PeerWriter, TokenWriter,
        tables, history
  <1>2. CASE PolicyNext(w)
    BY <1>2
    DEF PolicyNext, Refresh_FindPeer, Refresh_Render, Refresh_UpdateIntent,
        AssignPolicy_Find, AssignPolicy_Insert, UnassignPolicy,
        SetTrafficMode, UpdatePolicy, UpdatePolicy_ListAssignments,
        Writers, AgentWriter, PeerWriter, TokenWriter, tables, history
  <1>3. CASE LifecycleNext(w)
    BY <1>3
    DEF LifecycleNext, ChangeAgentState_FindAgent, ChangeAgentState_FindPeer,
        ChangeAgentState_UpdateAgent, Revoke_ClearAuthToken,
        ChangeAgentState_UpdatePeer, Revoke_ClearAssignedAddress,
        ChangeAgentState_RemovePeer, CheckIn_FindAgent,
        CheckIn_FindPeer, CheckIn_FindByPublicKey, CheckIn_UpdatePublicKey,
        Rotate_FindAgent, Rotate_FindPeer, Rotate_UpdateStatus,
        Writers, AgentWriter, PeerWriter, TokenWriter, tables, history
  <1>4. CASE ReconcileNext(w)
    BY <1>4
    DEF ReconcileNext, ReconcilePeer_FindByID, ReconcilePeer_ApplyPeer,
        ReconcilePeer_UpdateStatus, Writers, AgentWriter, PeerWriter,
        TokenWriter, tables, history
  <1>5. CASE Abort(w)
    BY <1>5 DEF Abort, Writers, tables, history
  <1> QED
    BY <1>1, <1>2, <1>3, <1>4, <1>5 DEF WorkerNext

-----------------------------------------------------------------------------
(* What the tables keep.                                                   *)

\* A secret belongs to a row: only the insert of an agent brings one.
LEMMA SecretKept ==
    ASSUME Inv, RowsKept, NEW w \in Workers, Writers(w)
    PROVE  \A a \in Agents : agent'[a].auth => HasAgent(a)'
  <1> USE DEF Inv, Rows
  <1>0. RequestOK(w)
    OBVIOUS
  <1>1. CASE agent' = agent
    BY <1>1 DEF HasAgent
  <1>2. CASE SetTrafficMode(w)
    BY <1>2 DEF SetTrafficMode, TypeOK, AgentRow, HasAgent
  <1>3. CASE Enroll_InsertAgent(w)
    BY <1>3 DEF Enroll_InsertAgent, TypeOK, HasAgent
  <1>4. CASE ChangeAgentState_UpdateAgent(w)
    <2> DEFINE s == AgentStatusAfter(req[w].op)
    <2>1. agent' = [agent EXCEPT ![req[w].agent].status = s]
      BY <1>4 DEF ChangeAgentState_UpdateAgent
    <2>2. s # "absent"
      BY <1>4 DEF ChangeAgentState_UpdateAgent, AgentStatusAfter, StateActions
    <2> HIDE DEF s
    <2> QED
      BY <2>1, <2>2 DEF TypeOK, AgentRow, HasAgent
  <1>5. CASE Revoke_ClearAuthToken(w)
    BY <1>5 DEF Revoke_ClearAuthToken, TypeOK, AgentRow, HasAgent
  <1> QED
    BY <1>1, <1>2, <1>3, <1>4, <1>5 DEF Writers, AgentWriter

\* An agent has the token it was enrolled with, for ever.
LEMMA OriginKept ==
    ASSUME Inv, RowsKept, NEW w \in Workers, Writers(w)
    PROVE  \A a \in Agents : enrolledBy'[a] # None =>
               HasAgent(a)' /\ HasToken(enrolledBy[a])'
  <1> USE DEF Inv
  <1>1. CASE enrolledBy' = enrolledBy
    BY <1>1 DEF TypeOK, Rows, RowsKept, HasToken, HasAgent
  <1>2. CASE Enroll_InsertAgent(w)
    <2>1. req[w].token \in Tokens /\ token'[req[w].token].status # "absent"
      BY <1>2 DEF Enroll_InsertAgent, At, RequestOK, EnrollLocal, RowsKept, HasToken
    <2>2. PICK a \in Agents :
            /\ agent' = [agent EXCEPT ![a] =
                  [host |-> req[w].host, status |-> "enrolled", auth |-> TRUE,
                   override |-> "inherit"]]
            /\ enrolledBy' = [enrolledBy EXCEPT ![a] = req[w].token]
      BY <1>2 DEF Enroll_InsertAgent
    <2>3. agent'[a].status = "enrolled" /\ enrolledBy'[a] = req[w].token
      BY <2>2 DEF TypeOK
    <2>4. \A b \in Agents \ {a} : enrolledBy'[b] = enrolledBy[b]
      BY <2>2 DEF TypeOK
    <2> QED
      BY <2>1, <2>3, <2>4 DEF TypeOK, Rows, RowsKept, HasAgent, HasToken
  <1> QED
    BY <1>1, <1>2 DEF Writers

\* A peer belongs to an agent and has a key.
LEMMA PeerKept ==
    ASSUME Inv, RowsKept, NEW w \in Workers, Writers(w)
    PROVE  \A a \in Agents : HasPeer(a)' => HasAgent(a)' /\ peer'[a].key \in Keys
  <1> USE DEF Inv
  <1>0. \A a \in Agents : HasPeer(a) => HasAgent(a)' /\ peer[a].key \in Keys
    BY DEF Rows, RowsKept
  <1>1. CASE peer' = peer
    BY <1>0, <1>1 DEF HasPeer
  <1>2. ASSUME NEW a \in Agents, HasAgent(a),
               \A b \in Agents \ {a} : peer'[b] = peer[b],
               peer'[a].key \in Keys
        PROVE  \A b \in Agents : HasPeer(b)' => HasAgent(b)' /\ peer'[b].key \in Keys
    <2>1. HasAgent(a)'
      BY <1>2 DEF RowsKept
    <2> QED
      BY <1>0, <1>2, <2>1 DEF HasPeer
  <1>3. CASE Enroll_InsertPeer(w)
    <2>1. /\ req[w].agent \in Agents
          /\ HasAgent(req[w].agent)
          /\ req[w].key \in Keys
      BY <1>3 DEF Enroll_InsertPeer, At, RequestOK, EnrollLocal, LookupCalls, KeyLocal
    <2>2. /\ peer'[req[w].agent].key = req[w].key
          /\ \A b \in Agents \ {req[w].agent} : peer'[b] = peer[b]
      BY <1>3, <2>1 DEF Enroll_InsertPeer, TypeOK
    <2> QED
      BY <1>2, <2>1, <2>2
  <1>4. CASE CheckIn_UpdatePublicKey(w)
    <2>1. /\ req[w].agent \in Agents
          /\ HasPeer(req[w].agent)
          /\ req[w].key \in Keys
      BY <1>4 DEF CheckIn_UpdatePublicKey, At, RequestOK, AgentLocal, AgentOps,
                  CheckInLocal, KeyLocal
    <2>2. /\ peer'[req[w].agent].key = req[w].key
          /\ \A b \in Agents \ {req[w].agent} : peer'[b] = peer[b]
      BY <1>4, <2>1 DEF CheckIn_UpdatePublicKey, TypeOK, PeerRow
    <2> QED
      BY <1>2, <2>1, <2>2 DEF Rows
  <1>5. CASE Refresh_UpdateIntent(w)
    <2>1. req[w].agent \in Agents /\ HasPeer(req[w].agent)
      BY <1>5 DEF Refresh_UpdateIntent, RequestOK, RefreshLocal
    <2> DEFINE s == IntentStatus(req[w].status)
    <2>2. peer' = [peer EXCEPT ![req[w].agent].ips = req[w].ips,
                               ![req[w].agent].status = s]
      BY <1>5 DEF Refresh_UpdateIntent
    <2> HIDE DEF s
    <2>3. /\ peer'[req[w].agent].key = peer[req[w].agent].key
          /\ \A b \in Agents \ {req[w].agent} : peer'[b] = peer[b]
      BY <2>1, <2>2 DEF TypeOK, PeerRow
    <2> QED
      BY <1>2, <2>1, <2>3 DEF Rows
  <1>6. CASE Revoke_ClearAssignedAddress(w)
    BY <1>0, <1>6 DEF Revoke_ClearAssignedAddress, TypeOK, PeerRow, HasPeer
  <1>7. ASSUME NEW a \in Agents, NEW s, HasPeer(a),
               peer' = [peer EXCEPT ![a].status = s]
        PROVE  \A b \in Agents : HasPeer(b)' => HasAgent(b)' /\ peer'[b].key \in Keys
    <2>1. /\ peer'[a].key = peer[a].key
          /\ \A b \in Agents \ {a} : peer'[b] = peer[b]
      BY <1>7 DEF TypeOK, PeerRow
    <2> QED
      BY <1>2, <1>7, <2>1 DEF Rows
  <1>8. CASE ChangeAgentState_UpdatePeer(w)
    <2>1. req[w].agent \in Agents /\ HasPeer(req[w].agent)
      BY <1>8 DEF ChangeAgentState_UpdatePeer, RequestOK, PeerLocal
    <2> QED
      BY <1>7, <1>8, <2>1 DEF ChangeAgentState_UpdatePeer
  <1>9. CASE Rotate_UpdateStatus(w) \/ ReconcilePeer_UpdateStatus(w)
    <2>1. req[w].agent \in Agents /\ HasPeer(req[w].agent)
      BY <1>9 DEF Rotate_UpdateStatus, ReconcilePeer_UpdateStatus, At, RequestOK,
                  PeerLocal
    <2> QED
      BY <1>7, <1>9, <2>1 DEF Rotate_UpdateStatus, ReconcilePeer_UpdateStatus
  <1> QED
    BY <1>1, <1>3, <1>4, <1>5, <1>6, <1>8, <1>9 DEF Writers, PeerWriter

\* A secret is handed out for a complete row.
LEMMA HandedKept ==
    ASSUME Inv, RowsKept, NEW w \in Workers, Writers(w)
    PROVE  Handed'
  <1> USE DEF Inv
  <1>0. /\ \A a \in Agents : a \in handed => peer'[a].status # "absent"
        /\ \A t \in Tokens : t \in handed => token'[t].status # "absent"
    BY DEF Handed, RowsKept, HasPeer, HasToken
  <1>1. CASE handed' = handed
    BY <1>0, <1>1 DEF Handed, HasPeer, HasToken
  <1>2. CASE CreateToken_BindPolicies(w)
    <2>1. /\ handed' = handed \union {req[w].token}
          /\ req[w].token \in Tokens
          /\ token'[req[w].token].status # "absent"
      BY <1>2 DEF CreateToken_BindPolicies, RequestOK, TokenLocal, RowsKept, HasToken
    <2>2. req[w].token \notin Agents
      BY <2>1, StoreAssumption DEF StoreAssumption
    <2> QED
      BY <1>0, <2>1, <2>2 DEF Handed, HasPeer, HasToken
  <1>3. CASE Enroll_BuildConfig(w)
    <2>1. /\ handed' = handed \union {req[w].agent}
          /\ req[w].agent \in Agents
          /\ peer'[req[w].agent].status # "absent"
      BY <1>3 DEF Enroll_BuildConfig, At, RequestOK, EnrollLocal, LookupCalls,
                  PeerCalls, RowsKept, HasPeer
    <2>2. req[w].agent \notin Tokens
      BY <2>1, StoreAssumption DEF StoreAssumption
    <2> QED
      BY <1>0, <2>1, <2>2 DEF Handed, HasPeer, HasToken
  <1> QED
    BY <1>1, <1>2, <1>3 DEF Writers

\* A revocation is answered only after the secret has been cleared.
LEMMA CutOffKept ==
    ASSUME Inv, RowsKept, NEW w \in Workers, Writers(w)
    PROVE  CutOff'
  <1> USE DEF Inv
  <1>0. \A a \in cut : agent'[a].status # "absent" /\ ~agent'[a].auth
    BY DEF CutOff, RowsKept, HasAgent, TypeOK
  <1>1. ASSUME req[w].op \in StateActions,
               cut' = cut \/ /\ cut' = cut \union {req[w].agent}
                             /\ ~agent'[req[w].agent].auth
        PROVE  CutOff'
    <2>1. agent'[req[w].agent].status # "absent"
      BY <1>1 DEF RequestOK, AgentLocal, AgentOps, RowsKept, HasAgent
    <2> QED
      BY <1>0, <1>1, <2>1 DEF CutOff, HasAgent
  <1>2. CASE cut' = cut
    BY <1>0, <1>2 DEF CutOff, HasAgent
  <1>3. CASE Revoke_ClearAuthToken(w)
    <2>1. req[w].agent \in Agents
      BY <1>3 DEF Revoke_ClearAuthToken, At, RequestOK, AgentLocal, AgentOps,
                  StateActions
    <2>2. ~agent'[req[w].agent].auth
      BY <1>3, <2>1 DEF Revoke_ClearAuthToken, TypeOK, AgentRow
    <2> QED
      BY <1>1, <1>3, <2>2 DEF Revoke_ClearAuthToken, At, AnswerChange, StateActions
  <1>4. CASE ChangeAgentState_RemovePeer(w)
    <2>1. req[w].op = "revoke" => ~agent'[req[w].agent].auth
      BY <1>4 DEF ChangeAgentState_RemovePeer, RequestOK, RevokeLocal
    <2> QED
      BY <1>1, <1>4, <2>1 DEF ChangeAgentState_RemovePeer, AnswerChange, StateActions
  <1>5. CASE ChangeAgentState_UpdatePeer(w) \/ Revoke_ClearAssignedAddress(w)
    <2>1. req[w].op \in StateActions /\ agent' = agent
      BY <1>5 DEF ChangeAgentState_UpdatePeer, Revoke_ClearAssignedAddress, At,
                  StateActions
    <2>2. req[w].op = "revoke" => ~agent[req[w].agent].auth
      BY <1>5 DEF ChangeAgentState_UpdatePeer, Revoke_ClearAssignedAddress, At,
                  RequestOK, RevokeLocal
    <2>3. cut' = cut \/ AnswerChange(w)
      BY <1>5 DEF ChangeAgentState_UpdatePeer, Revoke_ClearAssignedAddress,
                  AfterChange
    <2> QED
      BY <1>1, <2>1, <2>2, <2>3 DEF AnswerChange
  <1> QED
    BY <1>2, <1>3, <1>4, <1>5 DEF Writers

\* A revocation of a token is answered only after its time has been set.
LEMMA WithdrawnKept ==
    ASSUME Inv, RowsKept, NEW w \in Workers, Writers(w)
    PROVE  Withdrawn'
  <1> USE DEF Inv
  <1>0. \A t \in withdrawn : token'[t].status # "absent" /\ token'[t].revokedAt
    BY DEF Withdrawn, RowsKept, HasToken, TypeOK
  <1>1. CASE withdrawn' = withdrawn
    BY <1>0, <1>1 DEF Withdrawn, HasToken
  <1>2. CASE RevokeToken_Revoke(w)
    <2>1. req[w].token \in Tokens /\ token'[req[w].token].status # "absent"
      BY <1>2 DEF RevokeToken_Revoke, At, RequestOK, TokenLocal, RowsKept, HasToken
    <2>2. /\ token'[req[w].token].revokedAt
          /\ withdrawn' = withdrawn \union {req[w].token}
      BY <1>2, <2>1 DEF RevokeToken_Revoke, TypeOK, TokenRow
    <2> QED
      BY <1>0, <2>1, <2>2 DEF Withdrawn, HasToken
  <1> QED
    BY <1>1, <1>2 DEF Writers

\* A token is marked used only by an enrollment that has inserted its peer.
LEMMA SpentKept ==
    ASSUME Inv, RowsKept, NEW w \in Workers, Writers(w)
    PROVE  SpentTokenHasPeer'
  <1> USE DEF Inv
  <1>1. ASSUME NEW a \in Agents, HasPeer(a)
        PROVE  enrolledBy'[a] = enrolledBy[a] /\ peer'[a].status # "absent"
    BY <1>1 DEF Rows, RowsKept, HasPeer
  <1>2. ASSUME NEW t \in Tokens, token[t].usedAt
        PROVE  \E a \in Agents : enrolledBy'[a] = t /\ peer'[a].status # "absent"
    <2>1. PICK a \in Agents : enrolledBy[a] = t /\ HasPeer(a)
      BY <1>2 DEF SpentTokenHasPeer
    <2> QED
      BY <1>1, <2>1
  <1>3. CASE \A t \in Tokens : token'[t].usedAt => token[t].usedAt
    BY <1>2, <1>3 DEF SpentTokenHasPeer, HasPeer
  <1>4. CASE token' = token
    BY <1>3, <1>4
  <1>5. CASE CreateToken_Insert(w)
    BY <1>3, <1>5 DEF CreateToken_Insert, IssuedToken, NoToken, TypeOK
  <1>6. CASE Reissue_Insert(w)
    BY <1>3, <1>6 DEF Reissue_Insert, IssuedToken, NoToken, TypeOK
  <1>7. CASE CreateToken_BindPolicies(w)
    BY <1>3, <1>7 DEF CreateToken_BindPolicies, TypeOK, TokenRow
  <1>8. CASE RevokeToken_Revoke(w)
    BY <1>3, <1>8 DEF RevokeToken_Revoke, TypeOK, TokenRow
  <1>9. CASE Enroll_MarkUsed(w)
    <2>1. /\ req[w].agent \in Agents
          /\ HasPeer(req[w].agent)
          /\ enrolledBy[req[w].agent] = req[w].token
      BY <1>9 DEF Enroll_MarkUsed, At, RequestOK, EnrollLocal, LookupCalls, PeerCalls
    <2>2. \A t \in Tokens \ {req[w].token} : token'[t] = token[t]
      BY <1>9 DEF Enroll_MarkUsed, TypeOK
    <2> QED
      BY <1>1, <1>2, <2>1, <2>2 DEF SpentTokenHasPeer, HasPeer
  <1> QED
    BY <1>4, <1>5, <1>6, <1>7, <1>8, <1>9 DEF Writers, TokenWriter

\* An agent is inserted for the hostname its token admits, and neither the
\* hostname nor the binding of the token ever changes.
LEMMA BoundKept ==
    ASSUME Inv, RowsKept, NEW w \in Workers, Writers(w)
    PROVE  BoundHostname'
  <1> USE DEF Inv
  <1>0. ASSUME NEW a \in Agents, enrolledBy'[a] = enrolledBy[a],
               enrolledBy[a] # None, token'[enrolledBy[a]].model = "B"
        PROVE  agent'[a].host = token'[enrolledBy[a]].bound
    <2>1. /\ enrolledBy[a] \in Tokens
          /\ HasAgent(a)
          /\ HasToken(enrolledBy[a])
      BY <1>0 DEF TypeOK, Rows
    <2> QED
      BY <1>0, <2>1 DEF RowsKept, BoundHostname
  <1>1. CASE enrolledBy' = enrolledBy
    BY <1>0, <1>1 DEF BoundHostname
  <1>2. CASE Enroll_InsertAgent(w)
    <2>1. PICK a \in Agents :
            /\ agent' = [agent EXCEPT ![a] =
                  [host |-> req[w].host, status |-> "enrolled", auth |-> TRUE,
                   override |-> "inherit"]]
            /\ enrolledBy' = [enrolledBy EXCEPT ![a] = req[w].token]
      BY <1>2 DEF Enroll_InsertAgent
    <2>2. /\ agent'[a].host = req[w].host
          /\ enrolledBy'[a] = req[w].token
          /\ \A b \in Agents \ {a} : enrolledBy'[b] = enrolledBy[b]
      BY <2>1 DEF TypeOK
    <2>3. token[req[w].token].model = "B" => token[req[w].token].bound = req[w].host
      BY <1>2 DEF Enroll_InsertAgent, At, RequestOK, EnrollLocal
    <2>4. token' = token
      BY <1>2 DEF Enroll_InsertAgent
    <2> QED
      BY <1>0, <2>2, <2>3, <2>4 DEF BoundHostname
  <1> QED
    BY <1>1, <1>2 DEF Writers

\* A token that expires, or a step that changes nothing, disturbs no table.
LEMMA QuietStepKeeps ==
    ASSUME Inv, RowsKept,
           UNCHANGED <<agent, peer, history>>,
           \A t \in Tokens : token'[t].usedAt = token[t].usedAt
    PROVE  /\ Rows'
           /\ Handed'
           /\ CutOff'
           /\ Withdrawn'
           /\ SpentTokenHasPeer'
           /\ BoundHostname'
  <1> USE DEF Inv, RowsKept, history
  <1>1. Rows'
    BY DEF Rows, TypeOK, HasAgent, HasPeer, HasToken
  <1>2. Handed'
    BY DEF Handed, HasPeer, HasToken
  <1>3. CutOff'
    BY DEF CutOff, HasAgent
  <1>4. Withdrawn'
    BY DEF Withdrawn, TypeOK, HasToken
  <1>5. SpentTokenHasPeer'
    BY DEF SpentTokenHasPeer, HasPeer
  <1>6. BoundHostname'
    BY DEF BoundHostname, Rows, TypeOK
  <1> QED
    BY <1>1, <1>2, <1>3, <1>4, <1>5, <1>6

-----------------------------------------------------------------------------
(* The inductive invariant and what follows from it.                       *)

\* The empty database satisfies the invariant.
LEMMA InitInv == Init => Inv
  <1> SUFFICES ASSUME Init
               PROVE  Inv
    OBVIOUS
  <1>1. TypeOK
    BY InitTyped
  <1>2. ASSUME NEW w \in Workers
        PROVE  RequestOK(w)
    BY DEF Init, NoRequest, RequestOK, AgentLocal, TokenLocal, RefreshLocal,
           PeerLocal, EnrollLocal, CheckInLocal, RevokeLocal, KeyLocal, AgentOps,
           StateActions, RefreshCalls
  <1>3. Rows /\ Handed
    BY DEF Init, Rows, Handed, HasAgent, HasPeer, HasToken, NoAgent, NoPeer
  <1>4. CutOff /\ Withdrawn
    BY DEF Init, CutOff, Withdrawn
  <1>5. SpentTokenHasPeer /\ BoundHostname
    BY DEF Init, SpentTokenHasPeer, BoundHostname, NoToken
  <1> QED
    BY <1>1, <1>2, <1>3, <1>4, <1>5 DEF Inv

\* Every step, of any worker, preserves the invariant.
LEMMA NextInv ==
    ASSUME Inv, [Next]_vars
    PROVE  Inv'
  <1>1. TypeOK' /\ RowsKept /\ (\A w \in Workers : RequestOK(w))'
    BY NextTyped, NextKeepsRows, NextKeepsRequests
  <1>2. ASSUME NEW w \in Workers, WorkerNext(w)
        PROVE  Inv'
    <2>1. Writers(w)
      BY <1>2, EveryWriter
    <2>2. Rows'
      BY <1>1, <2>1, SecretKept, OriginKept, PeerKept DEF Rows
    <2> QED
      BY <1>1, <2>1, <2>2, HandedKept, CutOffKept, WithdrawnKept, SpentKept,
         BoundKept DEF Inv
  <1>3. CASE \E t \in Tokens : Expire(t)
    BY <1>1, <1>3, QuietStepKeeps DEF Expire, Inv, TypeOK, TokenRow
  <1>4. CASE UNCHANGED vars
    BY <1>1, <1>4, QuietStepKeeps DEF vars, tables, Inv
  <1> QED
    BY <1>2, <1>3, <1>4 DEF Next, WorkerNext

\* Every state the server reaches satisfies the inductive invariant.
THEOREM Invariance == Spec => []Inv
  BY InitInv, NextInv, PTL DEF Spec

\* Every table, request and history variable keeps its type.
THEOREM TypeCorrect == Spec => []TypeOK
  BY Invariance, PTL DEF Inv

\* No check-in that began after the revocation of its agent was answered is
\* being served, however many enables, rotations and enrollments race it.
THEOREM RevocationIsFinal == Spec => []RevokedAgentNotServed
  <1>1. Inv => RevokedAgentNotServed
    BY DEF Inv, RequestOK, CheckInLocal, RevokedAgentNotServed
  <1> QED
    BY <1>1, Invariance, PTL

\* No enrollment that began after the revocation of its token was answered is
\* being served, even when an older enrollment marks the token used.
THEOREM WithdrawalIsFinal == Spec => []WithdrawnTokenAdmitsNobody
  <1>1. Inv => WithdrawnTokenAdmitsNobody
    BY DEF Inv, RequestOK, EnrollLocal, WithdrawnTokenAdmitsNobody
  <1> QED
    BY <1>1, Invariance, PTL

\* A token whose revocation was answered is reported revoked from then on.
THEOREM WithdrawalIsReported == Spec => []WithdrawnTokenIsRevoked
  <1>1. Inv => WithdrawnTokenIsRevoked
    BY DEF Inv, Withdrawn, WithdrawnTokenIsRevoked, EffectiveStatus
  <1> QED
    BY <1>1, Invariance, PTL

\* A spent token has an enrolled peer to show for it, wherever requests fail.
THEOREM TokensAreSpentLast == Spec => []SpentTokenHasPeer
  BY Invariance, PTL DEF Inv

\* The hostname binding of a token holds for every agent it enrolled.
THEOREM BindingHolds == Spec => []BoundHostname
  BY Invariance, PTL DEF Inv

\* An agent whose check-in is served has its peer row.
THEOREM ServedAgentsAreComplete == Spec => []ServedAgentHasPeer
  <1>1. Inv => ServedAgentHasPeer
    BY DEF Inv, RequestOK, CheckInLocal, ServedAgentHasPeer
  <1> QED
    BY <1>1, Invariance, PTL

\* No step loses a row or its identity, and a cleared secret never comes back.
THEOREM RowsAreKept == Spec => RowsStay
  <1>1. Inv /\ [Next]_vars => [RowsKept]_vars
    BY NextKeepsRows
  <1> QED
    BY <1>1, Invariance, PTL DEF Spec, RowsStay
=============================================================================
