--------------------------- MODULE ControlPlaneTypes ---------------------------
(***************************************************************************)
(* Every step of the control plane keeps the tables and the requests in    *)
(* their types.  The invariant is assumed before the step: a request that  *)
(* is about to write to an agent's row has such a row.                     *)
(***************************************************************************)
EXTENDS ControlPlaneInvariant, TLAPS

\* An idle worker is a well-typed request.
LEMMA NoRequestTyped == NoRequest \in Request
  BY DEF NoRequest, Request, AllOps, Calls, PeerStatus, AllowedIPs

\* A request that has just been taken up is well typed ...
LEMMA OpenTyped ==
    ASSUME NEW op \in AllOps, NEW pc \in Calls
    PROVE  Open(op, pc) \in Request
  BY NoRequestTyped DEF Open, Request

\* ... also with the agent it names.
LEMMA OpenForTyped ==
    ASSUME NEW op \in AllOps, NEW pc \in Calls, NEW a \in Agents
    PROVE  OpenFor(op, pc, a) \in Request
  BY OpenTyped DEF OpenFor, Request

\* Moving one worker to a well-typed request keeps all of them well typed,
LEMMA StepTyped ==
    ASSUME TypeOK, NEW w \in Workers, NEW r \in Request, Step(w, r)
    PROVE  req' \in [Workers -> Request]
  BY DEF TypeOK, Step

\* also when only the call that comes next changes,
LEMMA ContinueTyped ==
    ASSUME TypeOK, NEW w \in Workers, NEW pc \in Calls, Continue(w, pc)
    PROVE  req' \in [Workers -> Request]
  BY DEF TypeOK, Continue, Step, Request

\* and when the request is answered.
LEMMA AnswerTyped ==
    ASSUME TypeOK, NEW w \in Workers, Answer(w)
    PROVE  req' \in [Workers -> Request]
  BY NoRequestTyped, StepTyped DEF Answer

\* A step that only moves a request keeps all types.
LEMMA OnlyRequestTyped ==
    ASSUME TypeOK, req' \in [Workers -> Request], UNCHANGED <<tables, history>>
    PROVE  TypeOK'
  BY DEF TypeOK, tables, history

\* The status columns are the only part of a row that several requests write.
LEMMA AgentStatusTyped ==
    ASSUME TypeOK, NEW a, NEW s \in AgentStatus,
           agent' = [agent EXCEPT ![a].status = s]
    PROVE  agent' \in [Agents -> AgentRow]
  BY DEF TypeOK, AgentRow

\* Columns of a peer row are written with values of their types.
LEMMA PeerRowKept ==
    ASSUME NEW r \in PeerRow, NEW s \in PeerStatus,
           NEW k \in Keys \union {None}, NEW i \in AllowedIPs
    PROVE  /\ [r EXCEPT !.status = s] \in PeerRow
           /\ [r EXCEPT !.key = k, !.status = s] \in PeerRow
           /\ [r EXCEPT !.ips = i, !.status = s] \in PeerRow
           /\ [r EXCEPT !.addr = NoAddress] \in PeerRow
  <1>1. [r EXCEPT !.status = s] \in PeerRow
    BY DEF PeerRow
  <1>2. [r EXCEPT !.key = k, !.status = s] \in PeerRow
    BY DEF PeerRow
  <1>3. [r EXCEPT !.ips = i, !.status = s] \in PeerRow
    BY DEF PeerRow
  <1>4. [r EXCEPT !.addr = NoAddress] \in PeerRow
    BY DEF PeerRow
  <1> QED
    BY <1>1, <1>2, <1>3, <1>4

\* The same for peers (UpdateStatus of both repositories).
LEMMA PeerStatusTyped ==
    ASSUME TypeOK, NEW a, NEW s \in PeerStatus,
           peer' = [peer EXCEPT ![a].status = s]
    PROVE  peer' \in [Agents -> PeerRow]
  <1> DEFINE r == [peer[a] EXCEPT !.status = s]
  <1>1. a \in Agents => r \in PeerRow
    <2>1. None \in Keys \union {None} /\ {} \in AllowedIPs
      BY DEF AllowedIPs
    <2> QED
      BY <2>1, PeerRowKept DEF TypeOK
  <1>2. peer' = [peer EXCEPT ![a] = r]
    OBVIOUS
  <1> HIDE DEF r
  <1> QED
    BY <1>1, <1>2 DEF TypeOK

\* Renewing the key and the status of a peer, or giving its address back.
LEMMA PeerWrittenTyped ==
    ASSUME TypeOK, NEW a, NEW s \in PeerStatus, NEW k \in Keys \union {None},
           NEW i \in AllowedIPs,
           \/ peer' = [peer EXCEPT ![a].key = k, ![a].status = s]
           \/ peer' = [peer EXCEPT ![a].ips = i, ![a].status = s]
           \/ peer' = [peer EXCEPT ![a].addr = NoAddress]
    PROVE  peer' \in [Agents -> PeerRow]
  <1>1. CASE peer' = [peer EXCEPT ![a].key = k, ![a].status = s]
    <2> DEFINE r == [peer[a] EXCEPT !.key = k, !.status = s]
    <2>1. a \in Agents => r \in PeerRow
      BY PeerRowKept DEF TypeOK
    <2>2. peer' = [peer EXCEPT ![a] = r]
      BY <1>1
    <2> HIDE DEF r
    <2> QED
      BY <2>1, <2>2 DEF TypeOK
  <1>2. CASE peer' = [peer EXCEPT ![a].ips = i, ![a].status = s]
    <2> DEFINE r == [peer[a] EXCEPT !.ips = i, !.status = s]
    <2>1. a \in Agents => r \in PeerRow
      BY PeerRowKept DEF TypeOK
    <2>2. peer' = [peer EXCEPT ![a] = r]
      BY <1>2
    <2> HIDE DEF r
    <2> QED
      BY <2>1, <2>2 DEF TypeOK
  <1>3. CASE peer' = [peer EXCEPT ![a].addr = NoAddress]
    <2> DEFINE r == [peer[a] EXCEPT !.addr = NoAddress]
    <2>1. a \in Agents => r \in PeerRow
      BY PeerRowKept DEF TypeOK
    <2>2. peer' = [peer EXCEPT ![a] = r]
      BY <1>3
    <2> HIDE DEF r
    <2> QED
      BY <2>1, <2>2 DEF TypeOK
  <1> QED
    BY <1>1, <1>2, <1>3

-----------------------------------------------------------------------------
\* ReconcilePeer configures a key read from a peer that exists.
LEMMA ReconcileTyped ==
    ASSUME Inv, NEW w \in Workers, ReconcileNext(w)
    PROVE  TypeOK'
  <1> USE DEF Inv, RequestOK
  <1>1. CASE ReconcilePeer_FindByID(w)
    <2>1. PICK a \in Agents :
            Step(w, [OpenFor("reconcile", "ApplyPeer", a) EXCEPT !.key = peer[a].key])
      BY <1>1 DEF ReconcilePeer_FindByID, Begin
    <2>2. OpenFor("reconcile", "ApplyPeer", a) \in Request
      BY OpenForTyped DEF AllOps, Calls
    <2>3. peer[a].key \in Keys \union {None}
      BY DEF TypeOK, PeerRow
    <2>4. [OpenFor("reconcile", "ApplyPeer", a) EXCEPT !.key = peer[a].key] \in Request
      BY <2>2, <2>3 DEF Request
    <2> QED
      BY <1>1, <2>1, <2>4, StepTyped, OnlyRequestTyped DEF ReconcilePeer_FindByID
  <1>2. CASE ReconcilePeer_ApplyPeer(w)
    <2>1. req' \in [Workers -> Request]
      BY <1>2, ContinueTyped DEF ReconcilePeer_ApplyPeer, Calls
    <2>2. runtime' \subseteq Keys
      BY <1>2 DEF ReconcilePeer_ApplyPeer, At, TypeOK, KeyLocal
    <2> QED
      BY <1>2, <2>1, <2>2 DEF ReconcilePeer_ApplyPeer, TypeOK, history
  <1>3. CASE ReconcilePeer_UpdateStatus(w)
    <2>1. req' \in [Workers -> Request]
      BY <1>3, AnswerTyped DEF ReconcilePeer_UpdateStatus
    <2>2. peer' \in [Agents -> PeerRow]
      BY <1>3, PeerStatusTyped DEF ReconcilePeer_UpdateStatus, PeerStatus
    <2> QED
      BY <1>3, <2>1, <2>2 DEF ReconcilePeer_UpdateStatus, TypeOK, history
  <1> QED
    BY <1>1, <1>2, <1>3 DEF ReconcileNext

-----------------------------------------------------------------------------
\* A change of state goes on or is answered.
LEMMA AfterChangeTyped ==
    ASSUME TypeOK, NEW w \in Workers, req[w].agent \in Agents, AfterChange(w)
    PROVE  /\ req' \in [Workers -> Request]
           /\ cut' \subseteq Agents
           /\ kept' \subseteq Agents
  <1>1. CASE Continue(w, "RemovePeer") /\ UNCHANGED <<cut, kept>>
    BY <1>1, ContinueTyped DEF Calls, TypeOK
  <1>2. CASE AnswerChange(w) /\ kept' = kept \union {req[w].agent}
    BY <1>2, AnswerTyped DEF AnswerChange, TypeOK
  <1> QED
    BY <1>1, <1>2 DEF AfterChange

\* ChangeAgentState, check-ins and rotations keep the tables in their types.
LEMMA LifecycleTyped ==
    ASSUME Inv, NEW w \in Workers, LifecycleNext(w)
    PROVE  TypeOK'
  <1> USE DEF Inv, RequestOK
  <1>0. req[w] \in Request
    BY DEF TypeOK
  <1>1. CASE ChangeAgentState_FindAgent(w)
    <2>1. PICK a \in Agents, action \in StateActions :
            Step(w, OpenFor(action, "FindPeer", a))
      BY <1>1 DEF ChangeAgentState_FindAgent, Begin
    <2>2. OpenFor(action, "FindPeer", a) \in Request
      BY OpenForTyped DEF StateActions, AllOps, Calls
    <2> QED
      BY <1>1, <2>1, <2>2, StepTyped, OnlyRequestTyped
      DEF ChangeAgentState_FindAgent
  <1>2. CASE ChangeAgentState_FindPeer(w)
    <2> DEFINE row == peer[req[w].agent]
    <2>1. row \in PeerRow
      BY <1>2 DEF ChangeAgentState_FindPeer, AgentLocal, AgentOps, TypeOK
    <2>2. /\ row.status \in PeerStatus
          /\ row.key \in Keys \union {None}
          /\ row.addr \in {NoAddress} \union Addresses
      BY <2>1 DEF PeerRow
    <2>3. [req[w] EXCEPT !.pc = "UpdateAgentStatus", !.status = row.status,
                         !.key = row.key, !.addr = row.addr] \in Request
      <3> HIDE DEF row
      <3> QED BY <1>0, <2>2 DEF Request, Calls
    <2> QED
      BY <1>2, <2>3, StepTyped, OnlyRequestTyped DEF ChangeAgentState_FindPeer
  <1>3. CASE ChangeAgentState_UpdateAgent(w)
    <2>1. req' \in [Workers -> Request]
      BY <1>3, AnswerTyped, ContinueTyped DEF ChangeAgentState_UpdateAgent, Calls
    <2>2. AgentStatusAfter(req[w].op) \in AgentStatus
      BY <1>3 DEF ChangeAgentState_UpdateAgent, AgentStatusAfter, StateActions,
                  AgentStatus
    <2>3. agent' \in [Agents -> AgentRow]
      BY <1>3, <2>2, AgentStatusTyped DEF ChangeAgentState_UpdateAgent
    <2> QED
      BY <1>3, <2>1, <2>3 DEF ChangeAgentState_UpdateAgent, TypeOK, history
  <1>4. CASE Revoke_ClearAuthToken(w)
    <2>1. req' \in [Workers -> Request]
      BY <1>4, AnswerTyped, ContinueTyped
      DEF Revoke_ClearAuthToken, AnswerChange, Calls
    <2>2. agent' \in [Agents -> AgentRow]
      BY <1>4 DEF Revoke_ClearAuthToken, TypeOK, AgentRow
    <2>3. req[w].agent \in Agents
      BY <1>4 DEF Revoke_ClearAuthToken, At, AgentLocal, AgentOps, StateActions
    <2>4. cut' \subseteq Agents
      BY <1>4, <2>3 DEF Revoke_ClearAuthToken, AnswerChange, TypeOK
    <2> QED
      BY <1>4, <2>1, <2>2, <2>4 DEF Revoke_ClearAuthToken, TypeOK
  <1>5. CASE ChangeAgentState_UpdatePeer(w)
    <2>0. req[w].agent \in Agents
      BY <1>5 DEF ChangeAgentState_UpdatePeer, AgentLocal, AgentOps, StateActions
    <2>1. /\ req' \in [Workers -> Request]
          /\ cut' \subseteq Agents
          /\ kept' \subseteq Agents
      <3>1. CASE AfterChange(w)
        BY <2>0, <3>1, AfterChangeTyped
      <3>2. CASE Answer(w) /\ UNCHANGED <<cut, kept>>
        BY <3>2, AnswerTyped DEF TypeOK
      <3>3. CASE Continue(w, "ClearAssignedAddress") /\ UNCHANGED <<cut, kept>>
        BY <3>3, ContinueTyped DEF Calls, TypeOK
      <3> QED
        BY <1>5, <3>1, <3>2, <3>3 DEF ChangeAgentState_UpdatePeer
    <2>2. PeerStatusAfter(req[w].op) \in PeerStatus
      BY <1>5 DEF ChangeAgentState_UpdatePeer, PeerStatusAfter, StateActions,
                  PeerStatus
    <2>3. peer' \in [Agents -> PeerRow]
      BY <1>5, <2>2, PeerStatusTyped DEF ChangeAgentState_UpdatePeer
    <2> QED
      BY <1>5, <2>1, <2>3 DEF ChangeAgentState_UpdatePeer, TypeOK
  <1>6. CASE Revoke_ClearAssignedAddress(w)
    <2>0. req[w].agent \in Agents
      BY <1>6 DEF Revoke_ClearAssignedAddress, At, AgentLocal, AgentOps, StateActions
    <2>1. /\ req' \in [Workers -> Request]
          /\ cut' \subseteq Agents
          /\ kept' \subseteq Agents
      BY <1>6, <2>0, AfterChangeTyped DEF Revoke_ClearAssignedAddress
    <2>2. peer' \in [Agents -> PeerRow]
      <3>1. peer' = [peer EXCEPT ![req[w].agent].addr = NoAddress]
        BY <1>6 DEF Revoke_ClearAssignedAddress
      <3>2. "absent" \in PeerStatus /\ {} \in AllowedIPs
        BY DEF PeerStatus, AllowedIPs
      <3> QED
        BY <3>1, <3>2, PeerWrittenTyped
    <2> QED
      BY <1>6, <2>1, <2>2 DEF Revoke_ClearAssignedAddress, TypeOK
  <1>7. CASE ChangeAgentState_RemovePeer(w)
    <2>1. req' \in [Workers -> Request]
      BY <1>7, AnswerTyped DEF ChangeAgentState_RemovePeer, AnswerChange
    <2>2. req[w].agent \in Agents
      BY <1>7 DEF ChangeAgentState_RemovePeer, AgentLocal, AgentOps, StateActions
    <2>3. cut' \subseteq Agents
      BY <1>7, <2>2 DEF ChangeAgentState_RemovePeer, AnswerChange, TypeOK
    <2>4. runtime' \subseteq Keys /\ kept' \subseteq Agents
      BY <1>7 DEF ChangeAgentState_RemovePeer, TypeOK
    <2> QED
      BY <1>7, <2>1, <2>3, <2>4 DEF ChangeAgentState_RemovePeer, TypeOK
  <1>8. CASE CheckIn_FindAgent(w)
    <2>1. PICK a \in Agents, k \in Keys \union {None} :
            Step(w, [OpenFor("checkIn", "FindPeer", a)
                       EXCEPT !.key = k, !.late = a \in cut])
      BY <1>8 DEF CheckIn_FindAgent, Begin
    <2>2. OpenFor("checkIn", "FindPeer", a) \in Request
      BY OpenForTyped DEF AllOps, Calls
    <2>3. (a \in cut) \in BOOLEAN
      OBVIOUS
    <2>4. [OpenFor("checkIn", "FindPeer", a)
             EXCEPT !.key = k, !.late = a \in cut] \in Request
      BY <2>2, <2>3 DEF Request
    <2> QED
      BY <1>8, <2>1, <2>4, StepTyped, OnlyRequestTyped DEF CheckIn_FindAgent
  <1>9. CASE CheckIn_FindPeer(w)
    BY <1>9, AnswerTyped, ContinueTyped, OnlyRequestTyped
    DEF CheckIn_FindPeer, Calls
  <1>10. CASE CheckIn_FindByPublicKey(w)
    BY <1>10, AnswerTyped, ContinueTyped, OnlyRequestTyped
    DEF CheckIn_FindByPublicKey, Calls
  <1>11. CASE CheckIn_UpdatePublicKey(w)
    <2>1. req' \in [Workers -> Request]
      BY <1>11, AnswerTyped DEF CheckIn_UpdatePublicKey
    <2>2. req[w].key \in Keys \union {None}
      BY <1>0 DEF Request
    <2>3. peer' \in [Agents -> PeerRow]
      <3>1. peer' = [peer EXCEPT ![req[w].agent].key = req[w].key,
                                 ![req[w].agent].status = "planned"]
        BY <1>11 DEF CheckIn_UpdatePublicKey
      <3>2. "planned" \in PeerStatus /\ {} \in AllowedIPs
        BY DEF PeerStatus, AllowedIPs
      <3> QED
        BY <2>2, <3>1, <3>2, PeerWrittenTyped
    <2> QED
      BY <1>11, <2>1, <2>3 DEF CheckIn_UpdatePublicKey, TypeOK, history
  <1>12. CASE Rotate_FindAgent(w)
    <2>1. PICK a \in Agents : Step(w, OpenFor("rotate", "FindPeer", a))
      BY <1>12 DEF Rotate_FindAgent, Begin
    <2>2. OpenFor("rotate", "FindPeer", a) \in Request
      BY OpenForTyped DEF AllOps, Calls
    <2> QED
      BY <1>12, <2>1, <2>2, StepTyped, OnlyRequestTyped DEF Rotate_FindAgent
  <1>13. CASE Rotate_FindPeer(w)
    BY <1>13, AnswerTyped, ContinueTyped, OnlyRequestTyped
    DEF Rotate_FindPeer, Calls
  <1>14. CASE Rotate_UpdateStatus(w)
    <2>1. req' \in [Workers -> Request]
      BY <1>14, AnswerTyped DEF Rotate_UpdateStatus
    <2>2. peer' \in [Agents -> PeerRow]
      BY <1>14, PeerStatusTyped DEF Rotate_UpdateStatus, PeerStatus
    <2> QED
      BY <1>14, <2>1, <2>2 DEF Rotate_UpdateStatus, TypeOK, history
  <1> QED
    BY <1>1, <1>2, <1>3, <1>4, <1>5, <1>6, <1>7, <1>8, <1>9, <1>10, <1>11,
       <1>12, <1>13, <1>14 DEF LifecycleNext

-----------------------------------------------------------------------------
\* The agents a refresh takes up are agent ids.
LEMMA RefreshTargetsTyped ==
    ASSUME Inv, NEW w \in Workers, req[w].pc = "refresh.FindPeer"
    PROVE  RefreshTargets(w) \subseteq Agents
  <1> USE DEF Inv, RequestOK
  <1>1. req[w].op \in RefreshOps
    BY DEF RefreshLocal, RefreshCalls
  <1>2. CASE req[w].op = "updatePolicy"
    BY <1>2 DEF TypeOK, Request, RefreshTargets
  <1>3. CASE req[w].op = "enroll"
    BY <1>3 DEF RefreshTargets, EnrollLocal, LookupCalls
  <1>4. CASE req[w].op \in {"assign", "unassign", "trafficMode"}
    BY <1>4 DEF RefreshTargets, AgentLocal, AgentOps
  <1> QED
    BY <1>1, <1>2, <1>3, <1>4 DEF RefreshOps

\* What renderAllowedIPsForPolicies returns is a set of networks.
LEMMA RenderTyped ==
    ASSUME TypeOK, NEW a
    PROVE  RenderAllowedIPs(a) \in AllowedIPs
  <1>1. \A p \in Policies : policy[p].dests \subseteq Nets
    BY DEF TypeOK, PolicyRow
  <1> DEFINE ps == {q \in Policies : <<a, q>> \in assigned}
  <1>2. UNION {policy[p].dests : p \in ps} \subseteq Nets
    BY <1>1
  <1> QED
    BY <1>2 DEF RenderAllowedIPs, AllowedIPs

\* Assignments, mode changes, policy updates and refreshes keep the types.
LEMMA PolicyTyped ==
    ASSUME Inv, NEW w \in Workers, PolicyNext(w)
    PROVE  TypeOK'
  <1> USE DEF Inv, RequestOK
  <1>0. req[w] \in Request
    BY DEF TypeOK
  <1>1. CASE Refresh_FindPeer(w)
    <2>1. PICK a \in RefreshTargets(w) :
            \/ Step(w, [req[w] EXCEPT !.pc = "refresh.Render", !.agent = a,
                                      !.status = peer[a].status,
                                      !.todoAgents = @ \ {a}])
            \/ Continue(w, "MarkUsed")
            \/ Step(w, [req[w] EXCEPT !.todoAgents = @ \ {a}])
            \/ Answer(w)
      BY <1>1 DEF Refresh_FindPeer
    <2>2. a \in Agents
      BY <1>1, RefreshTargetsTyped DEF Refresh_FindPeer
    <2>3. peer[a].status \in PeerStatus
      BY <2>2 DEF TypeOK, PeerRow
    <2>4. req[w].todoAgents \ {a} \in SUBSET Agents
      BY <1>0 DEF Request
    <2>5. [req[w] EXCEPT !.pc = "refresh.Render", !.agent = a,
                         !.status = peer[a].status,
                         !.todoAgents = @ \ {a}] \in Request
      BY <1>0, <2>2, <2>3, <2>4 DEF Request, Calls
    <2>6. [req[w] EXCEPT !.todoAgents = @ \ {a}] \in Request
      BY <1>0, <2>4 DEF Request
    <2>7. "MarkUsed" \in Calls
      BY DEF Calls
    <2> QED
      BY <1>1, <2>1, <2>5, <2>6, <2>7, StepTyped, ContinueTyped, AnswerTyped,
         OnlyRequestTyped DEF Refresh_FindPeer
  <1>2. CASE Refresh_Render(w)
    <2> DEFINE ips == RenderAllowedIPs(req[w].agent)
    <2>1. ips \in AllowedIPs
      BY RenderTyped
    <2>2. [req[w] EXCEPT !.pc = "refresh.UpdateIntent", !.ips = ips] \in Request
      <3> HIDE DEF ips
      <3> QED BY <1>0, <2>1 DEF Request, Calls
    <2> QED
      BY <1>2, <2>2, StepTyped, OnlyRequestTyped DEF Refresh_Render
  <1>3. CASE Refresh_UpdateIntent(w)
    <2>1. [req[w] EXCEPT !.pc = "refresh.FindPeer", !.status = "absent",
                         !.ips = {}] \in Request
      <3>1. "absent" \in PeerStatus /\ {} \in AllowedIPs
        BY DEF PeerStatus, AllowedIPs
      <3> QED BY <1>0, <3>1 DEF Request, Calls
    <2>2. "MarkUsed" \in Calls
      BY DEF Calls
    <2>3. req' \in [Workers -> Request]
      BY <1>3, <2>1, <2>2, StepTyped, ContinueTyped, AnswerTyped
      DEF Refresh_UpdateIntent, AfterRefresh
    <2>4. IntentStatus(req[w].status) \in PeerStatus /\ req[w].ips \in AllowedIPs
      BY <1>0 DEF IntentStatus, Request, PeerStatus
    <2>5. peer' \in [Agents -> PeerRow]
      <3> DEFINE s == IntentStatus(req[w].status)
      <3>1. peer' = [peer EXCEPT ![req[w].agent].ips = req[w].ips,
                                 ![req[w].agent].status = s]
        BY <1>3 DEF Refresh_UpdateIntent
      <3>2. None \in Keys \union {None}
        OBVIOUS
      <3> HIDE DEF s
      <3> QED
        BY <2>4, <3>1, <3>2, PeerWrittenTyped DEF s
    <2> QED
      BY <1>3, <2>3, <2>5 DEF Refresh_UpdateIntent, TypeOK, history
  <1>4. CASE AssignPolicy_Find(w)
    <2>1. PICK a \in Agents, p \in Policies :
            Step(w, [OpenFor("assign", "InsertAssignment", a) EXCEPT !.policy = p])
      BY <1>4 DEF AssignPolicy_Find, Begin
    <2>2. OpenFor("assign", "InsertAssignment", a) \in Request
      BY OpenForTyped DEF AllOps, Calls
    <2>3. [OpenFor("assign", "InsertAssignment", a) EXCEPT !.policy = p] \in Request
      BY <2>2 DEF Request
    <2> QED
      BY <1>4, <2>1, <2>3, StepTyped, OnlyRequestTyped DEF AssignPolicy_Find
  <1>5. CASE AssignPolicy_Insert(w)
    <2>1. req' \in [Workers -> Request]
      BY <1>5, ContinueTyped DEF AssignPolicy_Insert, Calls
    <2>2. req[w].agent \in Agents /\ req[w].policy \in Policies
      BY <1>5 DEF AssignPolicy_Insert, At, AgentLocal, AgentOps
    <2>3. assigned' \subseteq Agents \X Policies
      BY <1>5, <2>2 DEF AssignPolicy_Insert, TypeOK
    <2> QED
      BY <1>5, <2>1, <2>3 DEF AssignPolicy_Insert, TypeOK, history
  <1>6. CASE UnassignPolicy(w)
    <2>1. PICK a \in Agents, p \in Policies :
            Step(w, [OpenFor("unassign", "refresh.FindPeer", a) EXCEPT !.policy = p])
      BY <1>6 DEF UnassignPolicy, Begin
    <2>2. OpenFor("unassign", "refresh.FindPeer", a) \in Request
      BY OpenForTyped DEF AllOps, Calls
    <2>3. [OpenFor("unassign", "refresh.FindPeer", a) EXCEPT !.policy = p] \in Request
      BY <2>2 DEF Request
    <2>4. req' \in [Workers -> Request]
      BY <2>1, <2>3, StepTyped
    <2> QED
      BY <1>6, <2>4 DEF UnassignPolicy, TypeOK, history
  <1>7. CASE SetTrafficMode(w)
    <2>1. PICK a \in Agents, mode \in Modes \union {"inherit"} :
            /\ Step(w, OpenFor("trafficMode", "refresh.FindPeer", a))
            /\ agent' = [agent EXCEPT ![a].override = mode]
      BY <1>7 DEF SetTrafficMode, Begin
    <2>2. OpenFor("trafficMode", "refresh.FindPeer", a) \in Request
      BY OpenForTyped DEF AllOps, Calls
    <2>3. agent' \in [Agents -> AgentRow]
      BY <2>1 DEF TypeOK, AgentRow
    <2> QED
      BY <1>7, <2>1, <2>2, <2>3, StepTyped DEF SetTrafficMode, TypeOK, history
  <1>8. CASE UpdatePolicy(w)
    <2>1. PICK p \in Policies, dests \in SUBSET Nets, mode \in Modes :
            /\ Step(w, [Open("updatePolicy", "ListByPolicyID") EXCEPT !.policy = p])
            /\ policy' = [policy EXCEPT ![p] = [dests |-> dests, mode |-> mode]]
      BY <1>8 DEF UpdatePolicy, Begin
    <2>2. Open("updatePolicy", "ListByPolicyID") \in Request
      BY OpenTyped DEF AllOps, Calls
    <2>3. [Open("updatePolicy", "ListByPolicyID") EXCEPT !.policy = p] \in Request
      BY <2>2 DEF Request
    <2>4. req' \in [Workers -> Request]
      BY <2>1, <2>3, StepTyped
    <2>5. policy' \in [Policies -> PolicyRow]
      BY <2>1 DEF TypeOK, PolicyRow
    <2> QED
      BY <1>8, <2>4, <2>5 DEF UpdatePolicy, TypeOK, history
  <1>9. CASE UpdatePolicy_ListAssignments(w)
    <2> DEFINE todo == {a \in Agents : <<a, req[w].policy>> \in assigned}
    <2>1. todo \in SUBSET Agents
      OBVIOUS
    <2>2. [req[w] EXCEPT !.pc = "refresh.FindPeer", !.todoAgents = todo] \in Request
      <3> HIDE DEF todo
      <3> QED BY <1>0, <2>1 DEF Request, Calls
    <2> QED
      BY <1>9, <2>2, StepTyped, AnswerTyped, OnlyRequestTyped
      DEF UpdatePolicy_ListAssignments
  <1> QED
    BY <1>1, <1>2, <1>3, <1>4, <1>5, <1>6, <1>7, <1>8, <1>9 DEF PolicyNext

-----------------------------------------------------------------------------
\* The row that CreateToken inserts is a token row.
LEMMA IssuedTokenTyped ==
    ASSUME NEW model \in {"A", "B"}, NEW bound \in Hosts \union {None}
    PROVE  IssuedToken(model, bound) \in TokenRow
  BY DEF IssuedToken, NoToken, TokenRow, TokenStatus

\* Token requests and every call of PerformEnrollment keep the types.
LEMMA EnrollmentTyped ==
    ASSUME Inv, NEW w \in Workers, EnrollmentNext(w)
    PROVE  TypeOK'
  <1> USE DEF Inv, RequestOK
  <1>0. req[w] \in Request
    BY DEF TypeOK
  <1>1. CASE CreateToken_Insert(w)
    <2>1. PICK t \in Tokens, h \in Hosts \union {None}, policies \in SUBSET Policies :
            /\ Step(w, [Open("createToken", "BindPolicies")
                          EXCEPT !.token = t, !.todoPolicies = policies])
            /\ token' = [token EXCEPT ![t] =
                            IssuedToken(IF h = None THEN "A" ELSE "B", h)]
      BY <1>1 DEF CreateToken_Insert, Begin
    <2>2. Open("createToken", "BindPolicies") \in Request
      BY OpenTyped DEF AllOps, Calls
    <2>3. [Open("createToken", "BindPolicies")
             EXCEPT !.token = t, !.todoPolicies = policies] \in Request
      BY <2>2 DEF Request
    <2>4. req' \in [Workers -> Request]
      BY <2>1, <2>3, StepTyped
    <2>5. token' \in [Tokens -> TokenRow]
      BY <2>1, IssuedTokenTyped DEF TypeOK
    <2> QED
      BY <1>1, <2>4, <2>5 DEF CreateToken_Insert, TypeOK, history
  <1>2. CASE Reissue_FindAgent(w)
    <2>1. PICK a \in Agents :
            Step(w, [OpenFor("reissue", "ListPolicies", a) EXCEPT !.host = agent[a].host])
      BY <1>2 DEF Reissue_FindAgent, Begin
    <2>2. OpenFor("reissue", "ListPolicies", a) \in Request
      BY OpenForTyped DEF AllOps, Calls
    <2>3. agent[a].host \in Hosts \union {None}
      BY DEF TypeOK, AgentRow
    <2>4. [OpenFor("reissue", "ListPolicies", a) EXCEPT !.host = agent[a].host] \in Request
      BY <2>2, <2>3 DEF Request
    <2> QED
      BY <1>2, <2>1, <2>4, StepTyped, OnlyRequestTyped DEF Reissue_FindAgent
  <1>3. CASE Reissue_ListPolicies(w)
    <2> DEFINE todo == {p \in Policies : <<req[w].agent, p>> \in assigned}
    <2>1. todo \in SUBSET Policies
      OBVIOUS
    <2>2. [req[w] EXCEPT !.pc = "InsertToken", !.todoPolicies = todo] \in Request
      <3> HIDE DEF todo
      <3> QED BY <1>0, <2>1 DEF Request, Calls
    <2> QED
      BY <1>3, <2>2, StepTyped, OnlyRequestTyped DEF Reissue_ListPolicies
  <1>4. CASE Reissue_Insert(w)
    <2>1. PICK t \in Tokens :
            /\ Step(w, [req[w] EXCEPT !.pc = "BindPolicies", !.token = t])
            /\ token' = [token EXCEPT ![t] = IssuedToken("B", req[w].host)]
      BY <1>4 DEF Reissue_Insert
    <2>2. [req[w] EXCEPT !.pc = "BindPolicies", !.token = t] \in Request
      BY <1>0 DEF Request, Calls
    <2>3. req[w].host \in Hosts \union {None}
      BY <1>0 DEF Request
    <2>4. token' \in [Tokens -> TokenRow]
      BY <2>1, <2>3, IssuedTokenTyped DEF TypeOK
    <2> QED
      BY <1>4, <2>1, <2>2, <2>4, StepTyped DEF Reissue_Insert, TypeOK, history
  <1>5. CASE CreateToken_BindPolicies(w)
    <2>1. req[w].token \in Tokens /\ req[w].todoPolicies \in SUBSET Policies
      BY <1>0, <1>5 DEF CreateToken_BindPolicies, TokenLocal, Request
    <2>2. token' \in [Tokens -> TokenRow]
      BY <1>5, <2>1 DEF CreateToken_BindPolicies, TypeOK, TokenRow
    <2>3. req' \in [Workers -> Request]
      BY <1>5, AnswerTyped DEF CreateToken_BindPolicies
    <2>4. handed' \subseteq Agents \union Tokens
      BY <1>5, <2>1 DEF CreateToken_BindPolicies, TypeOK
    <2> QED
      BY <1>5, <2>2, <2>3, <2>4 DEF CreateToken_BindPolicies, TypeOK
  <1>6. CASE RevokeToken_Find(w)
    <2>1. PICK t \in Tokens : Step(w, [Open("revokeToken", "Revoke") EXCEPT !.token = t])
      BY <1>6 DEF RevokeToken_Find, Begin
    <2>2. Open("revokeToken", "Revoke") \in Request
      BY OpenTyped DEF AllOps, Calls
    <2>3. [Open("revokeToken", "Revoke") EXCEPT !.token = t] \in Request
      BY <2>2 DEF Request
    <2> QED
      BY <1>6, <2>1, <2>3, StepTyped, OnlyRequestTyped DEF RevokeToken_Find
  <1>7. CASE RevokeToken_Revoke(w)
    <2>1. req[w].token \in Tokens
      BY <1>7 DEF RevokeToken_Revoke, At, TokenLocal
    <2>2. token' \in [Tokens -> TokenRow]
      <3> DEFINE t == req[w].token
                 row == [token[t] EXCEPT !.status = "revoked", !.revokedAt = TRUE]
      <3>1. token[t] \in TokenRow
        BY <2>1 DEF TypeOK
      <3>2. row \in TokenRow
        BY <3>1 DEF TokenRow, TokenStatus
      <3>3. token' = [token EXCEPT ![t] = row]
        BY <1>7, <2>1 DEF RevokeToken_Revoke, TypeOK
      <3> HIDE DEF t, row
      <3> QED BY <3>2, <3>3 DEF TypeOK
    <2>3. req' \in [Workers -> Request]
      BY <1>7, AnswerTyped DEF RevokeToken_Revoke
    <2>4. withdrawn' \subseteq Tokens
      BY <1>7, <2>1 DEF RevokeToken_Revoke, TypeOK
    <2> QED
      BY <1>7, <2>2, <2>3, <2>4 DEF RevokeToken_Revoke, TypeOK
  <1>8. CASE Enroll_FindByHash(w)
    <2>1. PICK t \in Tokens, h \in Hosts, k \in Keys :
            Step(w, [Open("enroll", "FindByHostname")
                       EXCEPT !.token = t, !.host = h, !.key = k,
                              !.late = t \in withdrawn])
      BY <1>8 DEF Enroll_FindByHash, Begin
    <2>2. Open("enroll", "FindByHostname") \in Request
      BY OpenTyped DEF AllOps, Calls
    <2>3. (t \in withdrawn) \in BOOLEAN
      OBVIOUS
    <2>4. [Open("enroll", "FindByHostname")
             EXCEPT !.token = t, !.host = h, !.key = k,
                    !.late = t \in withdrawn] \in Request
      BY <2>2, <2>3 DEF Request
    <2> QED
      BY <1>8, <2>1, <2>4, StepTyped, OnlyRequestTyped DEF Enroll_FindByHash
  <1>9. CASE Enroll_FindByHostname(w)
    BY <1>9, AnswerTyped, ContinueTyped, OnlyRequestTyped
    DEF Enroll_FindByHostname, Calls
  <1>10. CASE Enroll_FindByPublicKey(w)
    BY <1>10, AnswerTyped, ContinueTyped, OnlyRequestTyped
    DEF Enroll_FindByPublicKey, Calls
  <1>11. CASE Enroll_AllocateAddress(w)
    <2>1. \A x \in Addresses :
            [req[w] EXCEPT !.pc = "InsertAgent", !.addr = x] \in Request
      BY <1>0 DEF Request, Calls
    <2> QED
      BY <1>11, <2>1, StepTyped, AnswerTyped, OnlyRequestTyped
      DEF Enroll_AllocateAddress, FreeAddresses
  <1>12. CASE Enroll_InsertAgent(w)
    <2>1. PICK a \in Agents :
            /\ agent' = [agent EXCEPT ![a] =
                  [host |-> req[w].host, status |-> "enrolled", auth |-> TRUE,
                   override |-> "inherit"]]
            /\ enrolledBy' = [enrolledBy EXCEPT ![a] = req[w].token]
            /\ Step(w, [req[w] EXCEPT !.pc = "InsertPeer", !.agent = a])
      BY <1>12 DEF Enroll_InsertAgent
    <2>2. [req[w] EXCEPT !.pc = "InsertPeer", !.agent = a] \in Request
      BY <1>0 DEF Request, Calls
    <2>3. agent' \in [Agents -> AgentRow]
      BY <1>0, <2>1 DEF TypeOK, AgentRow, AgentStatus, Request
    <2>4. enrolledBy' \in [Agents -> Tokens \union {None}]
      BY <1>0, <2>1 DEF TypeOK, Request
    <2> QED
      BY <1>12, <2>1, <2>2, <2>3, <2>4, StepTyped DEF Enroll_InsertAgent, TypeOK
  <1>13. CASE Enroll_InsertPeer(w)
    <2> DEFINE policies == token[req[w].token].policies
               pc == IF policies = {} THEN "MarkUsed" ELSE "AssignPolicies"
    <2>1. policies \in SUBSET Policies
      BY <1>13 DEF Enroll_InsertPeer, At, EnrollLocal, TypeOK, TokenRow
    <2>2. pc \in Calls
      BY DEF Calls
    <2>3. [req[w] EXCEPT !.todoPolicies = policies, !.pc = pc] \in Request
      <3> HIDE DEF policies, pc
      <3> QED BY <1>0, <2>1, <2>2 DEF Request
    <2>4. req' \in [Workers -> Request]
      BY <1>13, <2>3, StepTyped DEF Enroll_InsertPeer
    <2>5. peer' \in [Agents -> PeerRow]
      BY <1>0, <1>13 DEF Enroll_InsertPeer, TypeOK, PeerRow, PeerStatus, Request,
                         AllowedIPs
    <2> QED
      BY <1>13, <2>4, <2>5 DEF Enroll_InsertPeer, TypeOK, history
  <1>14. CASE Enroll_AssignPolicies(w)
    <2>1. PICK p \in req[w].todoPolicies :
            /\ assigned' = assigned \union {<<req[w].agent, p>>}
            /\ Step(w, [req[w] EXCEPT !.todoPolicies = @ \ {p},
                          !.pc = IF req[w].todoPolicies = {p}
                                 THEN "refresh.FindPeer" ELSE @])
      BY <1>14 DEF Enroll_AssignPolicies
    <2> DEFINE rest == req[w].todoPolicies \ {p}
               pc == IF req[w].todoPolicies = {p} THEN "refresh.FindPeer"
                     ELSE req[w].pc
    <2>2. rest \in SUBSET Policies /\ p \in Policies
      BY <1>0 DEF Request
    <2>3. pc \in Calls
      BY <1>0 DEF Request, Calls
    <2>4. [req[w] EXCEPT !.todoPolicies = rest, !.pc = pc] \in Request
      <3> HIDE DEF rest, pc
      <3> QED BY <1>0, <2>2, <2>3 DEF Request
    <2>5. req[w].agent \in Agents
      BY <1>14 DEF Enroll_AssignPolicies, At, EnrollLocal, LookupCalls
    <2>6. assigned' \subseteq Agents \X Policies
      BY <2>1, <2>2, <2>5 DEF TypeOK
    <2>7. req' \in [Workers -> Request]
      BY <2>1, <2>4, StepTyped
    <2> QED
      BY <1>14, <2>6, <2>7 DEF Enroll_AssignPolicies, TypeOK, history
  <1>15. CASE Enroll_MarkUsed(w)
    <2>1. req' \in [Workers -> Request]
      BY <1>15, ContinueTyped DEF Enroll_MarkUsed, Calls
    <2>2. token' \in [Tokens -> TokenRow]
      <3> DEFINE t == req[w].token
                 row == [token[t] EXCEPT !.status = "used", !.usedAt = TRUE]
      <3>1. t \in Tokens /\ token[t] \in TokenRow
        BY <1>15 DEF Enroll_MarkUsed, At, EnrollLocal, TypeOK
      <3>2. row \in TokenRow
        BY <3>1 DEF TokenRow, TokenStatus
      <3>3. token' = [token EXCEPT ![t] = row]
        BY <1>15, <3>1 DEF Enroll_MarkUsed, TypeOK
      <3> HIDE DEF t, row
      <3> QED BY <3>2, <3>3 DEF TypeOK
    <2> QED
      BY <1>15, <2>1, <2>2 DEF Enroll_MarkUsed, TypeOK, history
  <1>16. CASE Enroll_BuildConfig(w)
    <2>1. req' \in [Workers -> Request]
      BY <1>16, AnswerTyped DEF Enroll_BuildConfig
    <2>2. handed' \subseteq Agents \union Tokens
      BY <1>16 DEF Enroll_BuildConfig, At, TypeOK, EnrollLocal, LookupCalls
    <2> QED
      BY <1>16, <2>1, <2>2 DEF Enroll_BuildConfig, TypeOK, tables
  <1> QED
    BY <1>1, <1>2, <1>3, <1>4, <1>5, <1>6, <1>7, <1>8, <1>9, <1>10, <1>11,
       <1>12, <1>13, <1>14, <1>15, <1>16 DEF EnrollmentNext

-----------------------------------------------------------------------------
\* The empty database is well typed.
LEMMA InitTyped == Init => TypeOK
  <1> SUFFICES ASSUME Init PROVE TypeOK
    OBVIOUS
  <1>1. NoAgent \in AgentRow
    BY DEF NoAgent, AgentRow, AgentStatus
  <1>2. NoPeer \in PeerRow
    BY DEF NoPeer, PeerRow, PeerStatus, AllowedIPs
  <1>3. NoToken \in TokenRow
    BY DEF NoToken, TokenRow, TokenStatus
  <1>4. policy \in [Policies -> PolicyRow]
    BY DEF Init, PolicyRow
  <1> QED
    BY <1>1, <1>2, <1>3, <1>4, NoRequestTyped DEF Init, TypeOK

\* So is every state that any step leads to.
LEMMA NextTyped ==
    ASSUME Inv, [Next]_vars
    PROVE  TypeOK'
  <1>1. CASE UNCHANGED vars
    BY <1>1 DEF Inv, vars, tables, history, TypeOK
  <1>2. ASSUME NEW w \in Workers, Abort(w)
        PROVE  TypeOK'
    BY <1>2, AnswerTyped, OnlyRequestTyped DEF Abort, Inv
  <1>3. ASSUME NEW t \in Tokens, Expire(t)
        PROVE  TypeOK'
    BY <1>3 DEF Expire, Inv, TypeOK, TokenRow, history
  <1> QED
    BY <1>1, <1>2, <1>3, EnrollmentTyped, PolicyTyped, LifecycleTyped,
       ReconcileTyped DEF Next
=============================================================================
