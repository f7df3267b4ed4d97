-------------------- MODULE ControlPlaneSequential_proofs --------------------
(***************************************************************************)
(* What the control plane keeps when requests come one at a time, proved   *)
(* for any agents, keys, tokens, policies and addresses.                   *)
(*                                                                         *)
(* With one worker every table is as its request has left it, so each step *)
(* has to carry over what the request has read and nothing else.           *)
(***************************************************************************)
EXTENDS ControlPlaneSequential, ControlPlane_proofs, FiniteSetTheorems

-----------------------------------------------------------------------------
(* What each step makes of the request.                                    *)

TokenStep(w) ==
    \/ CreateToken_Insert(w)
    \/ Reissue_FindAgent(w)
    \/ Reissue_ListPolicies(w)
    \/ Reissue_Insert(w)
    \/ CreateToken_BindPolicies(w)
    \/ RevokeToken_Find(w)
    \/ RevokeToken_Revoke(w)

LEMMA NoRequestIdle == NoRequest.op = "idle" /\ NoRequest.pc = "idle"
  BY DEF NoRequest

\* The tables of agents, their peers and policies are as they were.
Untouched == UNCHANGED <<agent, peer, policy, assigned, runtime, enrolledBy, kept>>

TokenRequests == {"idle", "createToken", "reissue", "revokeToken"}

\* Requests about tokens stay among themselves.
LEMMA TokenStepDoes ==
    ASSUME Inv, NEW w \in Workers, TokenStep(w)
    PROVE  /\ req'[w].op \in TokenRequests
           /\ req'[w].pc \in {"idle", "ListPolicies", "InsertToken", "BindPolicies", "Revoke"}
           /\ req[w].op \in TokenRequests \/ req[w].pc = "BindPolicies"
           /\ Untouched
  <1>0. req[w] \in Request /\ TypeOK
    BY DEF Inv, TypeOK
  <1>1. CASE CreateToken_Insert(w)
    <2>1. PICK t \in Tokens, policies \in SUBSET Policies :
            Begin(w, [Open("createToken", "BindPolicies")
                         EXCEPT !.token = t, !.todoPolicies = policies])
      BY <1>1 DEF CreateToken_Insert
    <2>2. /\ req[w] = NoRequest
          /\ req'[w] = [Open("createToken", "BindPolicies")
                           EXCEPT !.token = t, !.todoPolicies = policies]
      BY <1>0, <2>1, BeginOthers DEF Begin
    <2>3. req[w].op = "idle" /\ req'[w].op = "createToken" /\ req'[w].pc = "BindPolicies"
      BY <2>2 DEF Open, NoRequest
    <2> QED
      BY <1>1, <2>3 DEF CreateToken_Insert, Untouched, TokenRequests, history
  <1>2. CASE Reissue_FindAgent(w)
    <2>1. PICK a \in Agents :
            Begin(w, [OpenFor("reissue", "ListPolicies", a)
                         EXCEPT !.host = agent[a].host])
      BY <1>2 DEF Reissue_FindAgent
    <2>2. /\ req[w] = NoRequest
          /\ req'[w] = [OpenFor("reissue", "ListPolicies", a) EXCEPT !.host = agent[a].host]
      BY <1>0, <2>1, BeginOthers DEF Begin
    <2>3. req[w].op = "idle" /\ req'[w].op = "reissue" /\ req'[w].pc = "ListPolicies"
      BY <2>2 DEF OpenFor, Open, NoRequest
    <2> QED
      BY <1>2, <2>3 DEF Reissue_FindAgent, Untouched, TokenRequests, tables, history
  <1>3. CASE RevokeToken_Find(w)
    <2>1. PICK t \in Tokens : Begin(w, [Open("revokeToken", "Revoke") EXCEPT !.token = t])
      BY <1>3 DEF RevokeToken_Find
    <2>2. /\ req[w] = NoRequest
          /\ req'[w] = [Open("revokeToken", "Revoke") EXCEPT !.token = t]
      BY <1>0, <2>1, BeginOthers DEF Begin
    <2>3. req[w].op = "idle" /\ req'[w].op = "revokeToken" /\ req'[w].pc = "Revoke"
      BY <2>2 DEF Open, NoRequest
    <2> QED
      BY <1>3, <2>3 DEF RevokeToken_Find, Untouched, TokenRequests, tables, history
  <1>4. CASE Reissue_ListPolicies(w) \/ Reissue_Insert(w)
    <2>1. req[w].op = "reissue"
      BY <1>4 DEF Reissue_ListPolicies, Reissue_Insert, At
    <2>2. /\ req'[w].op = req[w].op
          /\ req'[w].pc \in {"InsertToken", "BindPolicies"}
      <3>1. CASE Reissue_ListPolicies(w)
        <4>1. PICK todo : req'[w] = [req[w] EXCEPT !.pc = "InsertToken",
                                                   !.todoPolicies = todo]
          BY <1>0, <3>1, StepOthers DEF Reissue_ListPolicies
        <4> QED
          BY <1>0, <4>1 DEF Request
      <3>2. CASE Reissue_Insert(w)
        <4>1. PICK t : req'[w] = [req[w] EXCEPT !.pc = "BindPolicies", !.token = t]
          BY <1>0, <3>2, StepOthers DEF Reissue_Insert
        <4> QED
          BY <1>0, <4>1 DEF Request
      <3> QED
        BY <1>4, <3>1, <3>2
    <2> QED
      BY <1>4, <2>1, <2>2
      DEF Reissue_ListPolicies, Reissue_Insert, Untouched, TokenRequests, tables, history
  <1>5. CASE CreateToken_BindPolicies(w) \/ RevokeToken_Revoke(w)
    BY <1>0, <1>5, AnswerOthers
    DEF CreateToken_BindPolicies, RevokeToken_Revoke, At, NoRequest, Untouched, TokenRequests
  <1> QED
    BY <1>1, <1>2, <1>3, <1>4, <1>5 DEF TokenStep

\* An enrollment starts with a token that admits it.
LEMMA FindByHashDoes ==
    ASSUME Inv, NEW w \in Workers, Enroll_FindByHash(w)
    PROVE  /\ req[w].op = "idle"
           /\ req'[w].op = "enroll" /\ req'[w].pc = "FindByHostname"
           /\ req'[w].token \in Tokens /\ EffectiveStatus(req'[w].token) = "issued"
           /\ Untouched /\ token' = token
  <1>1. PICK t \in Tokens, h \in Hosts, k \in Keys :
          /\ TokenAdmits(t, h)
          /\ Begin(w, [Open("enroll", "FindByHostname")
                         EXCEPT !.token = t, !.host = h, !.key = k,
                                !.late = t \in withdrawn])
    BY DEF Enroll_FindByHash
  <1>2. /\ req[w] = NoRequest
        /\ req'[w] = [Open("enroll", "FindByHostname")
                        EXCEPT !.token = t, !.host = h, !.key = k,
                               !.late = t \in withdrawn]
    BY <1>1, BeginOthers DEF Begin, Inv
  <1>3. req'[w].op = "enroll" /\ req'[w].pc = "FindByHostname" /\ req'[w].token = t
    BY <1>2 DEF Open, NoRequest
  <1>4. EffectiveStatus(t) = "issued"
    BY <1>1 DEF TokenAdmits
  <1> QED
    BY <1>2, <1>3, <1>4 DEF Enroll_FindByHash, NoRequest, Untouched, tables, history

\* Lookups answer, or go on with the same token and key.
LEMMA LookupDoes ==
    ASSUME Inv, NEW w \in Workers,
           \/ Enroll_FindByHostname(w)
           \/ Enroll_FindByPublicKey(w)
           \/ Enroll_AllocateAddress(w)
    PROVE  /\ req[w].op = "enroll" /\ req[w].pc \in LookupCalls
           /\ \/ req'[w] = NoRequest
              \/ /\ req'[w].op = "enroll"
                 /\ req'[w].token = req[w].token
                 /\ req'[w].key = req[w].key
                 /\ \/ Enroll_FindByHostname(w) /\ req'[w].pc = "FindByPublicKey"
                    \/ /\ Enroll_FindByPublicKey(w) /\ req'[w].pc = "AllocateAddress"
                       /\ \A b \in Agents : HasPeer(b) => peer[b].key # req[w].key
                    \/ /\ Enroll_AllocateAddress(w) /\ req'[w].pc = "InsertAgent"
                       /\ req'[w].addr \in FreeAddresses
           /\ Untouched /\ token' = token
  <1>0. req[w] \in Request /\ TypeOK
    BY DEF Inv, TypeOK
  <1>1. CASE Enroll_FindByHostname(w)
    BY <1>0, <1>1, ContinueKeeps, AnswerOthers
    DEF Enroll_FindByHostname, At, LookupCalls, Untouched, tables, history
  <1>2. CASE Enroll_FindByPublicKey(w)
    BY <1>0, <1>2, ContinueKeeps, AnswerOthers
    DEF Enroll_FindByPublicKey, At, LookupCalls, Untouched, tables, history
  <1>3. CASE Enroll_AllocateAddress(w)
    <2>1. At(w, "enroll", "AllocateAddress") /\ UNCHANGED <<tables, history>>
      BY <1>3 DEF Enroll_AllocateAddress
    <2>2. CASE Answer(w)
      BY <1>0, <2>1, <2>2, AnswerOthers DEF At, LookupCalls, Untouched, tables, history
    <2>3. CASE ~Answer(w)
      <3>1. PICK x \in FreeAddresses :
              Step(w, [req[w] EXCEPT !.pc = "InsertAgent", !.addr = x])
        BY <1>3, <2>3 DEF Enroll_AllocateAddress
      <3>2. req'[w] = [req[w] EXCEPT !.pc = "InsertAgent", !.addr = x]
        BY <1>0, <3>1, StepOthers
      <3> QED
        BY <1>0, <1>3, <2>1, <3>1, <3>2 DEF At, LookupCalls, Request, Untouched, tables, history
    <2> QED
      BY <2>2, <2>3
  <1> QED
    BY <1>1, <1>2, <1>3

\* The agent is new, and is enrolled by the token of the request.
LEMMA InsertAgentDoes ==
    ASSUME Inv, NEW w \in Workers, Enroll_InsertAgent(w)
    PROVE  /\ req[w].op = "enroll" /\ req[w].pc = "InsertAgent"
           /\ req'[w].op = "enroll" /\ req'[w].pc = "InsertPeer"
           /\ req'[w].token = req[w].token
           /\ req'[w].key = req[w].key /\ req'[w].addr = req[w].addr
           /\ LET a == req'[w].agent IN
              /\ a \in Agents /\ ~HasAgent(a)
              /\ agent' = [agent EXCEPT ![a] =
                     [host |-> req[w].host, status |-> "enrolled", auth |-> TRUE,
                      override |-> "inherit"]]
              /\ enrolledBy' = [enrolledBy EXCEPT ![a] = req[w].token]
           /\ UNCHANGED <<peer, token, policy, assigned, runtime, kept>>
  <1>0. req[w] \in Request /\ TypeOK
    BY DEF Inv, TypeOK
  <1>1. PICK a \in Agents :
          /\ ~HasAgent(a)
          /\ agent' = [agent EXCEPT ![a] =
                 [host |-> req[w].host, status |-> "enrolled", auth |-> TRUE,
                  override |-> "inherit"]]
          /\ enrolledBy' = [enrolledBy EXCEPT ![a] = req[w].token]
          /\ Step(w, [req[w] EXCEPT !.pc = "InsertPeer", !.agent = a])
    BY DEF Enroll_InsertAgent
  <1>2. req'[w] = [req[w] EXCEPT !.pc = "InsertPeer", !.agent = a]
    BY <1>0, <1>1, StepOthers
  <1>3. /\ req'[w].op = req[w].op /\ req'[w].pc = "InsertPeer" /\ req'[w].agent = a
        /\ req'[w].token = req[w].token
        /\ req'[w].key = req[w].key /\ req'[w].addr = req[w].addr
    BY <1>0, <1>2 DEF Request
  <1>4. /\ At(w, "enroll", "InsertAgent")
        /\ UNCHANGED <<peer, token, policy, assigned, runtime, kept>>
    BY DEF Enroll_InsertAgent
  <1> QED
    BY <1>1, <1>3, <1>4 DEF At

\* Everything about the request but its next call is as before.
Kept(w) ==
    /\ req'[w].op = req[w].op
    /\ req'[w].agent = req[w].agent
    /\ req'[w].token = req[w].token
    /\ req'[w].key = req[w].key
    /\ req'[w].addr = req[w].addr
    /\ req'[w].policy = req[w].policy
    /\ req'[w].status = req[w].status
    /\ req'[w].ips = req[w].ips
    /\ req'[w].todoAgents = req[w].todoAgents

\* What Continue does.
LEMMA ContinueDoes ==
    ASSUME Inv, NEW w \in Workers, NEW pc, Continue(w, pc)
    PROVE  Kept(w) /\ req'[w].pc = pc
  <1>1. req[w] \in Request /\ req'[w] = [req[w] EXCEPT !.pc = pc]
    BY ContinueOthers DEF Inv, TypeOK
  <1> QED
    BY <1>1 DEF Request, Kept

\* Once the agent has its peer the enrollment assigns policies or is marked,
LEMMA InsertPeerDoes ==
    ASSUME Inv, NEW w \in Workers, Enroll_InsertPeer(w)
    PROVE  /\ req[w].op = "enroll" /\ req[w].pc = "InsertPeer"
           /\ Kept(w) /\ req'[w].pc \in {"MarkUsed", "AssignPolicies"}
           /\ peer' = [peer EXCEPT ![req[w].agent] =
                  [key |-> req[w].key, addr |-> req[w].addr, ips |-> {},
                   status |-> "planned", older |-> {b \in Agents : HasPeer(b)}]]
           /\ UNCHANGED <<agent, token, policy, assigned, runtime, enrolledBy, kept>>
  <1>1. PICK policies, pc :
          /\ req'[w] = [req[w] EXCEPT !.todoPolicies = policies, !.pc = pc]
          /\ pc \in {"MarkUsed", "AssignPolicies"}
    BY StepOthers DEF Enroll_InsertPeer, Inv
  <1>2. Kept(w) /\ req'[w].pc = pc
    BY <1>1 DEF Inv, TypeOK, Request, Kept
  <1> QED
    BY <1>1, <1>2 DEF Enroll_InsertPeer, At, history

\* gets its policies one by one,
LEMMA AssignPoliciesDoes ==
    ASSUME Inv, NEW w \in Workers, Enroll_AssignPolicies(w)
    PROVE  /\ req[w].op = "enroll" /\ req[w].pc = "AssignPolicies"
           /\ Kept(w) /\ req'[w].pc \in {"AssignPolicies", "refresh.FindPeer"}
           /\ \E p : assigned' = assigned \union {<<req[w].agent, p>>}
           /\ UNCHANGED <<agent, peer, token, policy, runtime, enrolledBy, kept>>
  <1>0. At(w, "enroll", "AssignPolicies") /\ req[w] \in Request /\ TypeOK
    BY DEF Enroll_AssignPolicies, Inv, TypeOK
  <1>1. PICK p \in req[w].todoPolicies :
          /\ assigned' = assigned \union {<<req[w].agent, p>>}
          /\ Step(w, [req[w] EXCEPT !.todoPolicies = @ \ {p},
                                    !.pc = IF req[w].todoPolicies = {p}
                                           THEN "refresh.FindPeer" ELSE @])
    BY DEF Enroll_AssignPolicies
  <1>2. PICK policies, pc :
          /\ req'[w] = [req[w] EXCEPT !.todoPolicies = policies, !.pc = pc]
          /\ pc \in {"AssignPolicies", "refresh.FindPeer"}
    BY <1>0, <1>1, StepOthers DEF At
  <1>3. Kept(w) /\ req'[w].pc = pc
    BY <1>0, <1>2 DEF Request, Kept
  <1> QED
    BY <1>0, <1>1, <1>2, <1>3 DEF Enroll_AssignPolicies, At, history

\* and at last the token is marked and the answer built.
LEMMA MarkUsedDoes ==
    ASSUME Inv, NEW w \in Workers, Enroll_MarkUsed(w) \/ Enroll_BuildConfig(w)
    PROVE  /\ req[w].op = "enroll"
           /\ \/ /\ Enroll_MarkUsed(w)
                 /\ req[w].pc = "MarkUsed" /\ Kept(w) /\ req'[w].pc = "BuildConfig"
              \/ req[w].pc = "BuildConfig" /\ req'[w] = NoRequest /\ token' = token
           /\ Untouched
  BY ContinueDoes, AnswerOthers
  DEF Enroll_MarkUsed, Enroll_BuildConfig, At, Inv, Untouched, tables, history

-----------------------------------------------------------------------------
(* Policies.                                                               *)

\* A refresh reads the peer of an agent it is about, or has nothing to do
\* for an agent without one.
LEMMA RefreshFindDoes ==
    ASSUME Inv, NEW w \in Workers, Refresh_FindPeer(w)
    PROVE  /\ req[w].op \in RefreshOps /\ req[w].pc = "refresh.FindPeer"
           /\ \E a \in RefreshTargets(w) :
              \/ /\ HasPeer(a)
                 /\ req'[w].op = req[w].op /\ req'[w].pc = "refresh.Render"
                 /\ req'[w].token = req[w].token
                 /\ req'[w].agent = a /\ req'[w].status = peer[a].status
                 /\ req'[w].todoAgents = req[w].todoAgents \ {a}
              \/ /\ ~HasPeer(a) /\ req[w].op # "enroll"
                 /\ \/ /\ req'[w].op = req[w].op /\ req'[w].pc = req[w].pc
                       /\ req'[w].agent = req[w].agent
                       /\ req'[w].token = req[w].token
                       /\ req'[w].todoAgents = req[w].todoAgents \ {a}
                    \/ req'[w] = NoRequest /\ req[w].todoAgents \ {a} = {}
           /\ Untouched /\ token' = token
  <1>0. req[w] \in Request /\ TypeOK /\ RequestOK(w)
    BY DEF Inv, TypeOK
  <1>1. req[w].op \in RefreshOps /\ req[w].pc = "refresh.FindPeer"
    BY <1>0 DEF Refresh_FindPeer, RequestOK, RefreshLocal, RefreshCalls
  <1>2. Untouched /\ token' = token
    BY DEF Refresh_FindPeer, Untouched, tables, history
  <1>3. PICK a \in RefreshTargets(w) :
          IF HasPeer(a)
          THEN Step(w, [req[w] EXCEPT !.pc = "refresh.Render", !.agent = a,
                                      !.status = peer[a].status,
                                      !.todoAgents = @ \ {a}])
          ELSE IF req[w].op = "enroll" THEN Continue(w, "MarkUsed")
               ELSE IF req[w].todoAgents \ {a} # {}
                    THEN Step(w, [req[w] EXCEPT !.todoAgents = @ \ {a}])
                    ELSE Answer(w)
    BY DEF Refresh_FindPeer
  <1>4. CASE HasPeer(a)
    <2>1. req'[w] = [req[w] EXCEPT !.pc = "refresh.Render", !.agent = a,
                                   !.status = peer[a].status,
                                   !.todoAgents = @ \ {a}]
      BY <1>0, <1>3, <1>4, StepOthers
    <2> QED
      BY <1>0, <1>1, <1>2, <1>4, <2>1 DEF Request
  <1>5. CASE ~HasPeer(a)
    <2>1. req[w].op # "enroll"
      BY <1>0, <1>1, <1>5
      DEF RequestOK, EnrollLocal, PeerCalls, RefreshCalls, RefreshTargets
    <2>2. CASE req[w].todoAgents \ {a} # {}
      <3>1. req'[w] = [req[w] EXCEPT !.todoAgents = @ \ {a}]
        BY <1>0, <1>3, <1>5, <2>1, <2>2, StepOthers
      <3> QED
        BY <1>0, <1>1, <1>2, <1>5, <2>1, <3>1 DEF Request
    <2>3. CASE req[w].todoAgents \ {a} = {}
      BY <1>0, <1>1, <1>2, <1>3, <1>5, <2>1, <2>3, AnswerOthers
    <2> QED
      BY <2>2, <2>3
  <1> QED
    BY <1>4, <1>5

\* It renders,
LEMMA RenderDoes ==
    ASSUME Inv, NEW w \in Workers, Refresh_Render(w)
    PROVE  /\ req[w].op \in RefreshOps /\ req[w].pc = "refresh.Render"
           /\ req'[w].op = req[w].op /\ req'[w].pc = "refresh.UpdateIntent"
           /\ req'[w].agent = req[w].agent /\ req'[w].token = req[w].token
           /\ req'[w].status = req[w].status
           /\ req'[w].todoAgents = req[w].todoAgents
           /\ req'[w].ips = RenderAllowedIPs(req[w].agent)
           /\ Untouched /\ token' = token
  <1>0. req[w] \in Request /\ TypeOK /\ RequestOK(w)
    BY DEF Inv, TypeOK
  <1>1. req[w].op \in RefreshOps /\ req[w].pc = "refresh.Render"
    BY <1>0 DEF Refresh_Render, RequestOK, RefreshLocal, RefreshCalls
  <1> DEFINE ips == RenderAllowedIPs(req[w].agent)
  <1>2. Step(w, [req[w] EXCEPT !.pc = "refresh.UpdateIntent", !.ips = ips])
    BY DEF Refresh_Render
  <1> HIDE DEF ips
  <1>3. req'[w] = [req[w] EXCEPT !.pc = "refresh.UpdateIntent", !.ips = ips]
    BY <1>0, <1>2, StepOthers
  <1>4. /\ req'[w].op = req[w].op /\ req'[w].pc = "refresh.UpdateIntent"
        /\ req'[w].agent = req[w].agent /\ req'[w].token = req[w].token
        /\ req'[w].status = req[w].status
        /\ req'[w].todoAgents = req[w].todoAgents
        /\ req'[w].ips = ips
    BY <1>0, <1>3 DEF Request
  <1>5. Untouched /\ token' = token
    BY DEF Refresh_Render, Untouched, tables, history
  <1> QED
    BY <1>1, <1>4, <1>5 DEF ips

\* writes what it rendered, and goes on to the next agent or back.
LEMMA UpdateIntentDoes ==
    ASSUME Inv, NEW w \in Workers, Refresh_UpdateIntent(w)
    PROVE  /\ req[w].op \in RefreshOps /\ req[w].pc = "refresh.UpdateIntent"
           /\ \/ /\ req'[w].op = req[w].op /\ req'[w].agent = req[w].agent
                 /\ req'[w].token = req[w].token
                 /\ \/ req[w].op = "enroll" /\ req'[w].pc = "MarkUsed"
                    \/ /\ req[w].op # "enroll" /\ req'[w].pc = "refresh.FindPeer"
                       /\ req'[w].todoAgents = req[w].todoAgents
              \/ req'[w] = NoRequest /\ req[w].todoAgents = {} /\ req[w].op # "enroll"
           /\ peer' = [peer EXCEPT ![req[w].agent].ips = req[w].ips,
                                   ![req[w].agent].status = IntentStatus(req[w].status)]
           /\ UNCHANGED <<agent, token, policy, assigned, runtime, enrolledBy, kept>>
  <1>0. req[w] \in Request /\ TypeOK /\ RequestOK(w)
    BY DEF Inv, TypeOK
  <1>1. req[w].op \in RefreshOps /\ req[w].pc = "refresh.UpdateIntent"
    BY <1>0 DEF Refresh_UpdateIntent, RequestOK, RefreshLocal, RefreshCalls
  <1>2. /\ peer' = [peer EXCEPT ![req[w].agent].ips = req[w].ips,
                                ![req[w].agent].status = IntentStatus(req[w].status)]
        /\ UNCHANGED <<agent, token, policy, assigned, runtime, enrolledBy, kept>>
    BY DEF Refresh_UpdateIntent, history
  <1>3. CASE req[w].op = "enroll"
    <2>1. Kept(w) /\ req'[w].pc = "MarkUsed"
      BY <1>3, ContinueDoes DEF Refresh_UpdateIntent, AfterRefresh
    <2> QED
      BY <1>1, <1>2, <1>3, <2>1 DEF Kept
  <1>4. CASE req[w].op # "enroll" /\ req[w].todoAgents # {}
    <2>1. req'[w] = [req[w] EXCEPT !.pc = "refresh.FindPeer",
                                   !.status = "absent", !.ips = {}]
      BY <1>0, <1>4, StepOthers DEF Refresh_UpdateIntent, AfterRefresh
    <2>2. /\ req'[w].op = req[w].op /\ req'[w].agent = req[w].agent
          /\ req'[w].token = req[w].token /\ req'[w].pc = "refresh.FindPeer"
          /\ req'[w].todoAgents = req[w].todoAgents
      BY <1>0, <2>1 DEF Request
    <2> QED
      BY <1>1, <1>2, <1>4, <2>2
  <1>5. CASE req[w].op # "enroll" /\ req[w].todoAgents = {}
    BY <1>0, <1>1, <1>2, <1>5, AnswerOthers DEF Refresh_UpdateIntent, AfterRefresh
  <1> QED
    BY <1>3, <1>4, <1>5

\* Requests that change what is rendered, for one agent,
LEMMA AssignDoes ==
    ASSUME Inv, NEW w \in Workers,
           AssignPolicy_Find(w) \/ AssignPolicy_Insert(w)
    PROVE  /\ req'[w].op = "assign"
           /\ req'[w].agent \in Agents
           /\ \/ /\ req[w].op = "idle" /\ req'[w].pc = "InsertAssignment"
                 /\ HasAgent(req'[w].agent)
                 /\ assigned' = assigned
              \/ /\ req[w].op = "assign" /\ req[w].pc = "InsertAssignment"
                 /\ req'[w].pc = "refresh.FindPeer" /\ req'[w].agent = req[w].agent
                 /\ assigned' = assigned \union {<<req[w].agent, req[w].policy>>}
           /\ UNCHANGED <<agent, peer, token, policy, runtime, enrolledBy, kept>>
  <1>0. req[w] \in Request /\ TypeOK /\ RequestOK(w)
    BY DEF Inv, TypeOK
  <1>1. CASE AssignPolicy_Find(w)
    <2>1. PICK a \in Agents, p \in Policies :
            /\ HasAgent(a)
            /\ Begin(w, [OpenFor("assign", "InsertAssignment", a) EXCEPT !.policy = p])
      BY <1>1 DEF AssignPolicy_Find
    <2>2. /\ req[w] = NoRequest
          /\ req'[w] = [OpenFor("assign", "InsertAssignment", a) EXCEPT !.policy = p]
      BY <1>0, <2>1, BeginOthers DEF Begin
    <2>3. /\ req[w].op = "idle" /\ req'[w].op = "assign"
          /\ req'[w].pc = "InsertAssignment" /\ req'[w].agent = a
      BY <2>2 DEF OpenFor, Open, NoRequest
    <2> QED
      BY <1>1, <2>1, <2>3 DEF AssignPolicy_Find, tables, history
  <1>2. CASE AssignPolicy_Insert(w)
    <2>1. At(w, "assign", "InsertAssignment") /\ Kept(w) /\ req'[w].pc = "refresh.FindPeer"
      BY <1>2, ContinueDoes DEF AssignPolicy_Insert
    <2>2. req[w].agent \in Agents
      BY <1>0, <2>1 DEF At, RequestOK, AgentLocal, AgentOps
    <2> QED
      BY <1>2, <2>1, <2>2 DEF AssignPolicy_Insert, At, Kept, history
  <1> QED
    BY <1>1, <1>2

LEMMA UnassignDoes ==
    ASSUME Inv, NEW w \in Workers, UnassignPolicy(w)
    PROVE  /\ req[w].op = "idle"
           /\ req'[w].op = "unassign" /\ req'[w].pc = "refresh.FindPeer"
           /\ req'[w].agent \in Agents
           /\ \E p : assigned' = assigned \ {<<req'[w].agent, p>>}
           /\ UNCHANGED <<agent, peer, token, policy, runtime, enrolledBy, kept>>
  <1>1. PICK a \in Agents, p \in Policies :
          /\ Begin(w, [OpenFor("unassign", "refresh.FindPeer", a) EXCEPT !.policy = p])
          /\ assigned' = assigned \ {<<a, p>>}
          /\ UNCHANGED <<agent, peer, token, policy, runtime, history>>
    BY DEF UnassignPolicy
  <1>2. /\ req[w] = NoRequest
        /\ req'[w] = [OpenFor("unassign", "refresh.FindPeer", a) EXCEPT !.policy = p]
    BY <1>1, BeginOthers DEF Begin, Inv
  <1>3. /\ req[w].op = "idle" /\ req'[w].op = "unassign"
        /\ req'[w].pc = "refresh.FindPeer" /\ req'[w].agent = a
    BY <1>2 DEF OpenFor, Open, NoRequest
  <1> QED
    BY <1>1, <1>3 DEF history

LEMMA SetTrafficModeDoes ==
    ASSUME Inv, NEW w \in Workers, SetTrafficMode(w)
    PROVE  /\ req[w].op = "idle"
           /\ req'[w].op = "trafficMode" /\ req'[w].pc = "refresh.FindPeer"
           /\ req'[w].agent \in Agents
           /\ \E mode : agent' = [agent EXCEPT ![req'[w].agent].override = mode]
           /\ UNCHANGED <<peer, token, policy, assigned, runtime, enrolledBy, kept>>
  <1>1. PICK a \in Agents, mode \in Modes \union {"inherit"} :
          /\ Begin(w, OpenFor("trafficMode", "refresh.FindPeer", a))
          /\ agent' = [agent EXCEPT ![a].override = mode]
          /\ UNCHANGED <<peer, token, policy, assigned, runtime, history>>
    BY DEF SetTrafficMode
  <1>2. /\ req[w] = NoRequest
        /\ req'[w] = OpenFor("trafficMode", "refresh.FindPeer", a)
    BY <1>1, BeginOthers DEF Begin, Inv
  <1>3. /\ req[w].op = "idle" /\ req'[w].op = "trafficMode"
        /\ req'[w].pc = "refresh.FindPeer" /\ req'[w].agent = a
    BY <1>2 DEF OpenFor, Open, NoRequest
  <1> QED
    BY <1>1, <1>3 DEF history

\* or for every agent a policy is assigned to.
LEMMA UpdatePolicyDoes ==
    ASSUME Inv, NEW w \in Workers, UpdatePolicy(w)
    PROVE  /\ req[w].op = "idle"
           /\ req'[w].op = "updatePolicy" /\ req'[w].pc = "ListByPolicyID"
           /\ \A p \in Policies \ {req'[w].policy} : policy'[p] = policy[p]
           /\ UNCHANGED <<agent, peer, token, assigned, runtime, enrolledBy, kept>>
  <1>1. PICK p \in Policies, dests \in SUBSET Nets \ {{}}, mode \in Modes :
          /\ Begin(w, [Open("updatePolicy", "ListByPolicyID") EXCEPT !.policy = p])
          /\ policy' = [policy EXCEPT ![p] = [dests |-> dests, mode |-> mode]]
          /\ UNCHANGED <<agent, peer, token, assigned, runtime, history>>
    BY DEF UpdatePolicy
  <1>2. /\ req[w] = NoRequest
        /\ req'[w] = [Open("updatePolicy", "ListByPolicyID") EXCEPT !.policy = p]
    BY <1>1, BeginOthers DEF Begin, Inv
  <1>3. /\ req[w].op = "idle" /\ req'[w].op = "updatePolicy"
        /\ req'[w].pc = "ListByPolicyID" /\ req'[w].policy = p
    BY <1>2 DEF Open, NoRequest
  <1>4. \A q \in Policies \ {p} : policy'[q] = policy[q]
    BY <1>1 DEF Inv, TypeOK
  <1> QED
    BY <1>1, <1>3, <1>4 DEF history

LEMMA ListAssignmentsDoes ==
    ASSUME Inv, NEW w \in Workers, UpdatePolicy_ListAssignments(w)
    PROVE  LET todo == {a \in Agents : <<a, req[w].policy>> \in assigned} IN
           /\ req[w].op = "updatePolicy" /\ req[w].pc = "ListByPolicyID"
           /\ \/ todo = {} /\ req'[w] = NoRequest
              \/ /\ req'[w].op = "updatePolicy" /\ req'[w].pc = "refresh.FindPeer"
                 /\ req'[w].todoAgents = todo
           /\ Untouched /\ token' = token
  <1> DEFINE todo == {a \in Agents : <<a, req[w].policy>> \in assigned}
  <1>0. req[w] \in Request /\ TypeOK
    BY DEF Inv, TypeOK
  <1>1. /\ At(w, "updatePolicy", "ListByPolicyID")
        /\ IF todo = {} THEN Answer(w)
           ELSE Step(w, [req[w] EXCEPT !.pc = "refresh.FindPeer", !.todoAgents = todo])
        /\ Untouched /\ token' = token
    BY DEF UpdatePolicy_ListAssignments, Untouched, tables, history
  <1> HIDE DEF todo
  <1>2. CASE todo = {}
    BY <1>0, <1>1, <1>2, AnswerOthers DEF At, todo
  <1>3. CASE todo # {}
    <2>1. req'[w] = [req[w] EXCEPT !.pc = "refresh.FindPeer", !.todoAgents = todo]
      BY <1>0, <1>1, <1>3, StepOthers
    <2>2. /\ req'[w].op = req[w].op /\ req'[w].pc = "refresh.FindPeer"
          /\ req'[w].todoAgents = todo
      BY <1>0, <2>1 DEF Request
    <2> QED
      BY <1>1, <2>2 DEF At, todo
  <1> QED
    BY <1>2, <1>3

-----------------------------------------------------------------------------
(* The lifecycle of agents, and reconcile.                                 *)

ChangeCalls == {"FindPeer", "UpdateAgentStatus", "ClearAuthToken",
                "UpdatePeerStatus", "ClearAssignedAddress", "RemovePeer"}

\* A state change checks the status of the agent,
LEMMA ChangeFindDoes ==
    ASSUME Inv, NEW w \in Workers, ChangeAgentState_FindAgent(w)
    PROVE  /\ req[w].op = "idle"
           /\ req'[w].op \in StateActions /\ req'[w].pc = "FindPeer"
           /\ req'[w].agent \in Agents
           /\ Allowed(req'[w].op, agent[req'[w].agent].status)
           /\ Untouched /\ token' = token
  <1>1. PICK a \in Agents, action \in StateActions :
          Allowed(action, agent[a].status) /\ Begin(w, OpenFor(action, "FindPeer", a))
    BY DEF ChangeAgentState_FindAgent
  <1>2. req[w] = NoRequest /\ req'[w] = OpenFor(action, "FindPeer", a)
    BY <1>1, BeginOthers DEF Begin, Inv
  <1>3. /\ req[w].op = "idle" /\ req'[w].op = action
        /\ req'[w].pc = "FindPeer" /\ req'[w].agent = a
    BY <1>2 DEF OpenFor, Open, NoRequest
  <1> QED
    BY <1>1, <1>3 DEF ChangeAgentState_FindAgent, Untouched, tables, history

\* reads its peer,
LEMMA ChangeReadDoes ==
    ASSUME Inv, NEW w \in Workers, ChangeAgentState_FindPeer(w)
    PROVE  LET a == req[w].agent IN
           /\ req[w].op \in StateActions /\ req[w].pc = "FindPeer"
           /\ req'[w].op = req[w].op /\ req'[w].pc = "UpdateAgentStatus"
           /\ req'[w].agent = a
           /\ req'[w].key = peer[a].key /\ req'[w].addr = peer[a].addr
           /\ req'[w].status = peer[a].status
           /\ Untouched /\ token' = token
  <1> DEFINE row == peer[req[w].agent]
  <1>1. /\ req[w].op \in StateActions /\ req[w].pc = "FindPeer"
        /\ Step(w, [req[w] EXCEPT !.pc = "UpdateAgentStatus", !.status = row.status,
                                  !.key = row.key, !.addr = row.addr])
        /\ Untouched /\ token' = token
    BY DEF ChangeAgentState_FindPeer, Untouched, tables, history
  <1>2. req'[w] = [req[w] EXCEPT !.pc = "UpdateAgentStatus", !.status = row.status,
                                 !.key = row.key, !.addr = row.addr]
    BY <1>1, StepOthers DEF Inv
  <1>3. /\ req'[w].op = req[w].op /\ req'[w].pc = "UpdateAgentStatus"
        /\ req'[w].agent = req[w].agent
        /\ req'[w].key = row.key /\ req'[w].addr = row.addr
        /\ req'[w].status = row.status
    BY <1>2 DEF Inv, TypeOK, Request
  <1> QED
    BY <1>1, <1>3

\* and writes the agent, the peer and the interface in turn.
LEMMA ChangeWriteDoes ==
    ASSUME Inv, NEW w \in Workers,
           \/ ChangeAgentState_UpdateAgent(w)
           \/ Revoke_ClearAuthToken(w)
           \/ ChangeAgentState_UpdatePeer(w)
           \/ Revoke_ClearAssignedAddress(w)
           \/ ChangeAgentState_RemovePeer(w)
    PROVE  /\ req[w].op \in StateActions
           /\ \/ req'[w] = NoRequest
              \/ Kept(w) /\ req'[w].pc \in ChangeCalls \ {"FindPeer", "UpdateAgentStatus"}
           /\ UNCHANGED <<token, policy, assigned, enrolledBy>>
  BY ContinueDoes, AnswerOthers
  DEF ChangeAgentState_UpdateAgent, Revoke_ClearAuthToken, ChangeAgentState_UpdatePeer,
      Revoke_ClearAssignedAddress, ChangeAgentState_RemovePeer, AfterChange, AnswerChange,
      At, StateActions, ChangeCalls, Inv, history

\* The removal of the peer comes next, or is left out for good.
ThenRemoved(w) ==
    \/ /\ req'[w].pc = "RemovePeer"
       /\ kept' = kept
    \/ /\ req'[w] = NoRequest
       /\ kept' = kept \union {req[w].agent}

LEMMA AfterChangeDoes ==
    ASSUME Inv, NEW w \in Workers, AfterChange(w)
    PROVE  ThenRemoved(w)
  BY ContinueDoes, AnswerOthers DEF AfterChange, AnswerChange, ThenRemoved, Inv

\* The row of the agent is written first,
LEMMA UpdateAgentDoes ==
    ASSUME Inv, NEW w \in Workers, ChangeAgentState_UpdateAgent(w)
    PROVE  /\ req[w].pc = "UpdateAgentStatus"
           /\ agent' = [agent EXCEPT ![req[w].agent].status = AgentStatusAfter(req[w].op)]
           /\ UNCHANGED <<peer, runtime, kept>>
           /\ \/ req[w].op = "revoke" /\ req'[w].pc = "ClearAuthToken"
              \/ /\ req[w].op # "revoke"
                 /\ req'[w] = NoRequest \/ req'[w].pc = "UpdatePeerStatus"
  BY ContinueDoes, AnswerOthers DEF ChangeAgentState_UpdateAgent, Inv, history

\* and its secret cleared,
LEMMA ClearAuthDoes ==
    ASSUME Inv, NEW w \in Workers, Revoke_ClearAuthToken(w)
    PROVE  /\ req[w].op = "revoke" /\ req[w].pc = "ClearAuthToken"
           /\ agent' = [agent EXCEPT ![req[w].agent].auth = FALSE]
           /\ UNCHANGED <<peer, runtime, kept>>
           /\ \/ req'[w] = NoRequest /\ req[w].status = "absent"
              \/ req'[w].pc = "UpdatePeerStatus"
  BY ContinueDoes, AnswerOthers DEF Revoke_ClearAuthToken, AnswerChange, At, Inv

\* then that of the peer,
LEMMA UpdatePeerDoes ==
    ASSUME Inv, NEW w \in Workers, ChangeAgentState_UpdatePeer(w)
    PROVE  /\ req[w].pc = "UpdatePeerStatus"
           /\ peer' = [peer EXCEPT ![req[w].agent].status = PeerStatusAfter(req[w].op)]
           /\ agent' = agent /\ runtime' = runtime
           /\ \/ req[w].op = "enable" /\ req'[w] = NoRequest /\ kept' = kept
              \/ /\ req[w].op = "revoke" /\ req[w].addr # NoAddress
                 /\ req'[w].pc = "ClearAssignedAddress" /\ kept' = kept
              \/ /\ req[w].op # "enable"
                 /\ req[w].op = "revoke" => req[w].addr = NoAddress
                 /\ ThenRemoved(w)
  <1>0. TypeOK
    BY DEF Inv
  <1>1. /\ req[w].op \in StateActions /\ req[w].pc = "UpdatePeerStatus"
        /\ peer' = [peer EXCEPT ![req[w].agent].status = PeerStatusAfter(req[w].op)]
        /\ agent' = agent /\ runtime' = runtime
    BY DEF ChangeAgentState_UpdatePeer
  <1>2. CASE req[w].op = "enable"
    BY <1>0, <1>1, <1>2, AnswerOthers DEF ChangeAgentState_UpdatePeer
  <1>3. CASE req[w].op = "revoke" /\ req[w].addr # NoAddress
    BY <1>1, <1>3, ContinueDoes DEF ChangeAgentState_UpdatePeer
  <1>4. CASE /\ req[w].op # "enable"
             /\ req[w].op = "revoke" => req[w].addr = NoAddress
    BY <1>1, <1>4, AfterChangeDoes DEF ChangeAgentState_UpdatePeer
  <1> QED
    BY <1>1, <1>2, <1>3, <1>4

\* its address, and the interface.
LEMMA ClearAddressDoes ==
    ASSUME Inv, NEW w \in Workers, Revoke_ClearAssignedAddress(w)
    PROVE  /\ req[w].op = "revoke" /\ req[w].pc = "ClearAssignedAddress"
           /\ peer' = [peer EXCEPT ![req[w].agent].addr = NoAddress]
           /\ agent' = agent /\ runtime' = runtime
           /\ ThenRemoved(w)
  BY AfterChangeDoes DEF Revoke_ClearAssignedAddress, At

LEMMA RemovePeerDoes ==
    ASSUME Inv, NEW w \in Workers, ChangeAgentState_RemovePeer(w)
    PROVE  /\ req[w].pc = "RemovePeer" /\ req'[w] = NoRequest
           /\ runtime' = runtime \ {req[w].key}
           /\ kept' = kept \ {req[w].agent}
           /\ agent' = agent /\ peer' = peer
  BY AnswerOthers DEF ChangeAgentState_RemovePeer, AnswerChange, Inv

\* A check-in or a rotation begins with an agent that is not revoked,
LEMMA VisitBeginDoes ==
    ASSUME Inv, NEW w \in Workers, CheckIn_FindAgent(w) \/ Rotate_FindAgent(w)
    PROVE  /\ req[w].op = "idle"
           /\ req'[w].op \in {"checkIn", "rotate"} /\ req'[w].pc = "FindPeer"
           /\ req'[w].agent \in Agents /\ agent[req'[w].agent].status # "revoked"
           /\ Untouched /\ token' = token
  <1>1. CASE CheckIn_FindAgent(w)
    <2>1. PICK a \in Agents, k \in Keys \union {None} :
            /\ Authenticates(a)
            /\ Begin(w, [OpenFor("checkIn", "FindPeer", a)
                             EXCEPT !.key = k, !.late = a \in cut])
      BY <1>1 DEF CheckIn_FindAgent
    <2>2. /\ req[w] = NoRequest
          /\ req'[w] = [OpenFor("checkIn", "FindPeer", a)
                            EXCEPT !.key = k, !.late = a \in cut]
      BY <2>1, BeginOthers DEF Begin, Inv
    <2>3. /\ req[w].op = "idle" /\ req'[w].op = "checkIn"
          /\ req'[w].pc = "FindPeer" /\ req'[w].agent = a
      BY <2>2 DEF OpenFor, Open, NoRequest
    <2> QED
      BY <1>1, <2>1, <2>3 DEF CheckIn_FindAgent, Authenticates, Untouched, tables, history
  <1>2. CASE Rotate_FindAgent(w)
    <2>1. PICK a \in Agents :
            agent[a].status # "revoked" /\ Begin(w, OpenFor("rotate", "FindPeer", a))
      BY <1>2 DEF Rotate_FindAgent
    <2>2. req[w] = NoRequest /\ req'[w] = OpenFor("rotate", "FindPeer", a)
      BY <2>1, BeginOthers DEF Begin, Inv
    <2>3. /\ req[w].op = "idle" /\ req'[w].op = "rotate"
          /\ req'[w].pc = "FindPeer" /\ req'[w].agent = a
      BY <2>2 DEF OpenFor, Open, NoRequest
    <2> QED
      BY <1>2, <2>1, <2>3 DEF Rotate_FindAgent, Untouched, tables, history
  <1> QED
    BY <1>1, <1>2

\* and goes on if its peer is to be rotated.
LEMMA CheckInDoes ==
    ASSUME Inv, NEW w \in Workers,
           CheckIn_FindPeer(w) \/ CheckIn_FindByPublicKey(w)
    PROVE  /\ req[w].op = "checkIn" /\ req[w].pc # "BindPolicies"
           /\ \/ req'[w] = NoRequest
              \/ /\ Kept(w)
                 /\ \/ /\ req[w].pc = "FindPeer" /\ req'[w].pc = "FindByPublicKey"
                       /\ peer[req[w].agent].status = "rotation_pending"
                    \/ /\ req[w].pc = "FindByPublicKey"
                       /\ req'[w].pc = "UpdatePublicKeyAndStatus"
                       /\ LET rows == {a \in Agents : HasPeer(a) /\ peer[a].key = req[w].key}
                          IN  rows = {} \/ req[w].agent \in rows
           /\ Untouched /\ token' = token
  <1>1. CASE CheckIn_FindPeer(w)
    BY <1>1, ContinueDoes, AnswerOthers
    DEF CheckIn_FindPeer, At, Inv, Untouched, tables, history
  <1>2. CASE CheckIn_FindByPublicKey(w)
    BY <1>2, ContinueDoes, AnswerOthers
    DEF CheckIn_FindByPublicKey, At, Inv, Untouched, tables, history
  <1> QED
    BY <1>1, <1>2

LEMMA UpdateKeyDoes ==
    ASSUME Inv, NEW w \in Workers, CheckIn_UpdatePublicKey(w)
    PROVE  /\ req[w].op = "checkIn" /\ req[w].pc = "UpdatePublicKeyAndStatus"
           /\ req'[w] = NoRequest
           /\ peer' = [peer EXCEPT ![req[w].agent].key = req[w].key,
                                   ![req[w].agent].status = "planned"]
           /\ UNCHANGED <<agent, token, policy, assigned, runtime, enrolledBy, kept>>
  BY AnswerOthers DEF CheckIn_UpdatePublicKey, At, Inv, history

LEMMA RotateDoes ==
    ASSUME Inv, NEW w \in Workers, Rotate_FindPeer(w) \/ Rotate_UpdateStatus(w)
    PROVE  /\ req[w].op = "rotate"
           /\ \/ /\ req[w].pc = "FindPeer" /\ peer' = peer
                 /\ \/ req'[w] = NoRequest
                    \/ Kept(w) /\ req'[w].pc = "UpdatePeerStatus" /\ HasPeer(req[w].agent)
              \/ /\ req[w].pc = "UpdatePeerStatus" /\ req'[w] = NoRequest
                 /\ peer' = [peer EXCEPT ![req[w].agent].status = "rotation_pending"]
           /\ UNCHANGED <<agent, token, policy, assigned, runtime, enrolledBy, kept>>
  BY ContinueDoes, AnswerOthers
  DEF Rotate_FindPeer, Rotate_UpdateStatus, At, Inv, tables, history

\* A reconcile configures the key it has read.
LEMMA ReconcileDoes ==
    ASSUME Inv, NEW w \in Workers, ReconcileNext(w)
    PROVE  /\ \/ /\ req[w].op = "idle"
                 /\ req'[w].op = "reconcile" /\ req'[w].pc = "ApplyPeer"
                 /\ req'[w].agent \in Agents
                 /\ req'[w].key = peer[req'[w].agent].key
                 /\ peer[req'[w].agent].status # "revoked"
                 /\ peer' = peer /\ runtime' = runtime
              \/ /\ req[w].op = "reconcile" /\ req[w].pc = "ApplyPeer"
                 /\ Kept(w) /\ req'[w].pc = "UpdatePeerStatus"
                 /\ peer' = peer /\ runtime' = runtime \union {req[w].key}
              \/ /\ req[w].op = "reconcile" /\ req[w].pc = "UpdatePeerStatus"
                 /\ req'[w] = NoRequest
                 /\ peer' = [peer EXCEPT ![req[w].agent].status = "active"]
                 /\ runtime' = runtime
           /\ UNCHANGED <<agent, token, policy, assigned, enrolledBy, kept>>
  <1>1. CASE ReconcilePeer_FindByID(w)
    <2>1. PICK a \in Agents :
            /\ Reconcilable(peer[a].status)
            /\ Begin(w, [OpenFor("reconcile", "ApplyPeer", a) EXCEPT !.key = peer[a].key])
      BY <1>1 DEF ReconcilePeer_FindByID
    <2>2. /\ req[w] = NoRequest
          /\ req'[w] = [OpenFor("reconcile", "ApplyPeer", a) EXCEPT !.key = peer[a].key]
      BY <2>1, BeginOthers DEF Begin, Inv
    <2>3. /\ req[w].op = "idle" /\ req'[w].op = "reconcile" /\ req'[w].pc = "ApplyPeer"
          /\ req'[w].agent = a /\ req'[w].key = peer[a].key
      BY <2>2 DEF OpenFor, Open, NoRequest
    <2> QED
      BY <1>1, <2>1, <2>3 DEF ReconcilePeer_FindByID, Reconcilable, tables, history
  <1>2. CASE ReconcilePeer_ApplyPeer(w) \/ ReconcilePeer_UpdateStatus(w)
    BY <1>2, ContinueDoes, AnswerOthers
    DEF ReconcilePeer_ApplyPeer, ReconcilePeer_UpdateStatus, At, Inv, history
  <1> QED
    BY <1>1, <1>2 DEF ReconcileNext

\* A request that is cut off leaves the tables to the next.
LEMMA AbortDoes ==
    ASSUME Inv, NEW w \in Workers, Abort(w)
    PROVE  Faults /\ req'[w] = NoRequest /\ Untouched /\ token' = token
  BY AnswerOthers DEF Abort, Inv, Untouched, tables, history

-----------------------------------------------------------------------------
(* Keys and addresses.                                                     *)

Reads(w) == ChangeReads(w) /\ PeerReads(w) /\ EnrollReads(w) /\ RotationReads(w)

\* What a step has to establish.
UniqueAfter(w) == UniquePeers' /\ RevokedPeers' /\ Reads(w)'

\* Requests of these operations rely on nothing they have read of a peer.
LEMMA PlainReads ==
    ASSUME NEW w \in Workers,
           req'[w].op \notin StateActions \union {"checkIn", "rotate", "reconcile"},
           req'[w].op = "enroll" =>
               req'[w].pc \notin {"AllocateAddress", "InsertAgent", "InsertPeer"},
           req'[w].pc \notin {"refresh.Render", "refresh.UpdateIntent"}
    PROVE  Reads(w)'
  BY DEF Reads, ChangeReads, PeerReads, EnrollReads, RotationReads, At, StateActions

\* Neither does an idle worker.
LEMMA IdleReads ==
    ASSUME NEW w \in Workers, req'[w] = NoRequest
    PROVE  Reads(w)'
  BY PlainReads DEF NoRequest, StateActions

\* Which peers a listing leaves out depends on the order of creation only.
LEMMA NewerKept ==
    ASSUME peer' = peer, NEW b
    PROVE  Newer(b)' = Newer(b)
  BY DEF Newer, HasPeer

LEMMA NewerSize ==
    ASSUME NEW b
    PROVE  Cardinality(Newer(b)) \in Nat
  <1>1. IsFiniteSet(Agents) /\ Newer(b) \in SUBSET Agents
    BY StoreAssumption DEF Newer
  <1>2. IsFiniteSet(Newer(b))
    BY <1>1, FS_Subset
  <1> QED
    BY <1>2, FS_CardinalityType

LEMMA LeftOutKept ==
    ASSUME OlderPeers, NEW a \in Agents, NEW b \in Agents, LeftOut(a, b),
           \A c \in Agents : HasPeer(c) => peer'[c].older = peer[c].older,
           HasPeer(b)
    PROVE  LeftOut(a, b)'
  <1> DEFINE between == {c \in peer[b].older : a \in peer[c].older}
  <1>1. peer'[b].older = peer[b].older
    OBVIOUS
  <1>2. \A c \in peer[b].older : peer'[c].older = peer[c].older
    BY DEF OlderPeers
  <1>3. {c \in peer'[b].older : a \in peer'[c].older} = between
    BY <1>1, <1>2
  <1>4. a \in peer[b].older /\ Cardinality(between) >= ListLimit
    BY DEF LeftOut
  <1> HIDE DEF between
  <1> QED
    BY <1>1, <1>3, <1>4 DEF LeftOut

\* Keys and addresses stay apart when none is given to anybody, and no peer
\* is revoked before its agent or comes back.
LEMMA NoneGiven ==
    ASSUME UniqueInv,
           \A a \in Agents :
               /\ peer'[a].key = peer[a].key
               /\ peer'[a].addr \in {peer[a].addr, NoAddress}
               /\ peer'[a].older = peer[a].older
               /\ peer'[a].status = "absent" <=> peer[a].status = "absent"
               /\ peer[a].status = "revoked" => peer'[a].status = "revoked"
               /\ peer'[a].status = "revoked" => agent'[a].status = "revoked"
    PROVE  UniquePeers' /\ RevokedPeers'
  <1>1. RevokedPeers'
    BY DEF RevokedPeers
  <1>2. \A a \in Agents : (HasPeer(a)' <=> HasPeer(a)) /\ (Live(a)' => Live(a))
    BY DEF Live, HasPeer
  <1>3. \A a, b \in Agents : LeftOut(a, b) /\ HasPeer(b) => LeftOut(a, b)'
    BY LeftOutKept DEF UniqueInv
  <1>4. UniquePeers'
    <2> SUFFICES ASSUME NEW a \in Agents, NEW b \in Agents
                 PROVE  /\ HasPeer(a)' /\ HasPeer(b)' /\ peer'[a].key = peer'[b].key
                           => a = b
                        /\ /\ Live(a)' /\ Live(b)' /\ peer'[a].addr = peer'[b].addr
                           /\ peer'[a].addr # NoAddress
                           => a = b \/ LeftOut(a, b)' \/ LeftOut(b, a)'
      BY DEF UniquePeers
    <2>1. HasPeer(a)' /\ HasPeer(b)' /\ peer'[a].key = peer'[b].key => a = b
      BY <1>2 DEF UniqueInv, UniquePeers
    <2>2. ASSUME Live(a)', Live(b)', peer'[a].addr = peer'[b].addr, peer'[a].addr # NoAddress
          PROVE  a = b \/ LeftOut(a, b)' \/ LeftOut(b, a)'
      <3>1. Live(a) /\ Live(b) /\ HasPeer(a) /\ HasPeer(b)
        BY <1>2, <2>2 DEF Live
      <3>2. peer[a].addr = peer[b].addr /\ peer[a].addr # NoAddress
        BY <2>2
      <3>3. a = b \/ LeftOut(a, b) \/ LeftOut(b, a)
        BY <3>1, <3>2 DEF UniqueInv, UniquePeers
      <3> QED
        BY <1>3, <3>1, <3>3
    <2> QED
      BY <2>1, <2>2
  <1> QED
    BY <1>1, <1>4

\* In particular when neither table is written.
LEMMA NoneWritten ==
    ASSUME UniqueInv, UNCHANGED <<agent, peer>>
    PROVE  UniquePeers' /\ RevokedPeers'
  BY NoneGiven DEF UniqueInv, RevokedPeers

\* A new peer has a key of its own.  The address it was given is one that no
\* peer of the listing holds: whoever holds it too was left out.
LEMMA InsertPeerKeepsUnique ==
    ASSUME UniqueInv, NEW n \in Agents, ~HasPeer(n),
           HasPeer(n)', peer'[n].older = {b \in Agents : HasPeer(b)},
           \A b \in Agents \ {n} : peer'[b] = peer[b],
           \A b \in Agents : HasPeer(b) => peer[b].key # peer'[n].key,
           \A b \in Agents : Live(b) /\ peer[b].addr = peer'[n].addr
                               /\ peer[b].addr # NoAddress =>
               Cardinality(Newer(b)) >= ListLimit
    PROVE  UniquePeers'
  <1>1. \A b \in Agents \ {n} : /\ HasPeer(b)' <=> HasPeer(b)
                                /\ Live(b)' <=> Live(b)
    BY DEF HasPeer, Live
  <1>2. \A a, b \in Agents : LeftOut(a, b) /\ HasPeer(b) => LeftOut(a, b)'
    BY LeftOutKept DEF UniqueInv
  <1>3. ASSUME NEW b \in Agents \ {n}, Live(b), peer[b].addr = peer'[n].addr,
               peer[b].addr # NoAddress
        PROVE  LeftOut(b, n)'
    <2>1. HasPeer(b) /\ Cardinality(Newer(b)) >= ListLimit
      BY <1>3 DEF Live
    <2>2. \A c \in Agents : HasPeer(c) => peer'[c] = peer[c]
      OBVIOUS
    <2>3. {c \in peer'[n].older : b \in peer'[c].older} = Newer(b)
      BY <2>2 DEF Newer
    <2> QED
      BY <2>1, <2>3 DEF LeftOut
  <1> SUFFICES ASSUME NEW a \in Agents, NEW b \in Agents
               PROVE  /\ HasPeer(a)' /\ HasPeer(b)' /\ peer'[a].key = peer'[b].key
                         => a = b
                      /\ /\ Live(a)' /\ Live(b)' /\ peer'[a].addr = peer'[b].addr
                         /\ peer'[a].addr # NoAddress
                         => a = b \/ LeftOut(a, b)' \/ LeftOut(b, a)'
    BY DEF UniquePeers
  <1>4. HasPeer(a)' /\ HasPeer(b)' /\ peer'[a].key = peer'[b].key => a = b
    BY <1>1 DEF UniqueInv, UniquePeers
  <1>5. ASSUME a # b, Live(a)', Live(b)', peer'[a].addr = peer'[b].addr,
               peer'[a].addr # NoAddress
        PROVE  LeftOut(a, b)' \/ LeftOut(b, a)'
    <2>1. CASE a # n /\ b # n
      <3>1. Live(a) /\ Live(b) /\ HasPeer(a) /\ HasPeer(b)
        BY <1>1, <1>5, <2>1 DEF Live
      <3>2. peer[a].addr = peer[b].addr /\ peer[a].addr # NoAddress
        BY <1>5, <2>1
      <3>3. LeftOut(a, b) \/ LeftOut(b, a)
        BY <1>5, <3>1, <3>2 DEF UniqueInv, UniquePeers
      <3> QED
        BY <1>2, <3>1, <3>3
    <2>2. CASE a = n
      BY <1>1, <1>3, <1>5, <2>2
    <2>3. CASE b = n
      BY <1>1, <1>3, <1>5, <2>3
    <2> QED
      BY <2>1, <2>2, <2>3
  <1> QED
    BY <1>4, <1>5

LEMMA EnrollKeepsUnique ==
    ASSUME Inv, UniqueInv, NEW w \in Workers,
           \/ Enroll_FindByHash(w)
           \/ Enroll_FindByHostname(w)
           \/ Enroll_FindByPublicKey(w)
           \/ Enroll_AllocateAddress(w)
           \/ Enroll_InsertAgent(w)
           \/ Enroll_InsertPeer(w)
           \/ Enroll_AssignPolicies(w)
           \/ Enroll_MarkUsed(w)
           \/ Enroll_BuildConfig(w)
    PROVE  UniqueAfter(w)
  <1> USE DEF UniqueAfter
  <1>0. TypeOK /\ RequestOK(w) /\ EnrollReads(w)
    BY DEF Inv, UniqueInv
  <1>1. CASE Enroll_FindByHash(w)
    BY <1>1, FindByHashDoes, NoneWritten, PlainReads DEF Untouched, StateActions
  <1>2. CASE \/ Enroll_FindByHostname(w)
             \/ Enroll_FindByPublicKey(w)
             \/ Enroll_AllocateAddress(w)
    <2>1. UniquePeers' /\ RevokedPeers'
      BY <1>2, LookupDoes, NoneWritten DEF Untouched
    <2>2. CASE req'[w] = NoRequest
      BY <2>1, <2>2, IdleReads
    <2>3. CASE req'[w].op = "enroll" /\ req'[w].pc = "FindByPublicKey"
      BY <2>1, <2>3, PlainReads DEF StateActions
    <2>4. CASE /\ req'[w].op = "enroll" /\ req'[w].pc = "AllocateAddress"
               /\ req'[w].key = req[w].key
               /\ \A b \in Agents : HasPeer(b) => peer[b].key # req[w].key
      <3>1. peer' = peer
        BY <1>2, LookupDoes DEF Untouched
      <3> QED
        BY <2>1, <2>4, <3>1
        DEF Reads, ChangeReads, PeerReads, EnrollReads, RotationReads, At, StateActions, HasPeer
    <2>5. CASE /\ Enroll_AllocateAddress(w)
               /\ req'[w].op = "enroll" /\ req'[w].pc = "InsertAgent"
               /\ req'[w].key = req[w].key /\ req'[w].addr \in FreeAddresses
      <3>1. peer' = peer /\ req[w].op = "enroll" /\ req[w].pc = "AllocateAddress"
        BY <2>5, LookupDoes DEF Untouched, Enroll_AllocateAddress, At
      <3>2. \A b \in Agents : HasPeer(b) => peer[b].key # req[w].key
        BY <1>0, <3>1 DEF EnrollReads
      <3>3. ASSUME NEW b \in Agents, Live(b), peer[b].addr = req'[w].addr,
                   peer[b].addr # NoAddress
            PROVE  Cardinality(Newer(b)) >= ListLimit
        <4>1. b \notin Listed
          BY <2>5, <3>3 DEF FreeAddresses, UsedAddresses, Live, Listed
        <4>2. ~(Cardinality(Newer(b)) < ListLimit)
          BY <3>3, <4>1 DEF Listed, Live
        <4> QED
          BY <4>2, NewerSize, StoreAssumption
      <3>4. /\ \A b \in Agents : Newer(b)' = Newer(b)
            /\ \A b \in Agents : (HasPeer(b)' <=> HasPeer(b)) /\ (Live(b)' <=> Live(b))
        BY <3>1, NewerKept DEF HasPeer, Live
      <3>5. EnrollReads(w)'
        BY <2>5, <3>1, <3>2, <3>3, <3>4 DEF EnrollReads
      <3> QED
        BY <2>1, <2>5, <3>5
        DEF Reads, ChangeReads, PeerReads, RotationReads, At, StateActions
    <2> QED
      BY <1>2, <2>2, <2>3, <2>4, <2>5, LookupDoes
  <1>3. CASE Enroll_InsertAgent(w)
    <2> DEFINE a == req'[w].agent
    <2>1. /\ a \in Agents /\ ~HasAgent(a) /\ peer' = peer
          /\ agent' = [agent EXCEPT ![a] =
                 [host |-> req[w].host, status |-> "enrolled", auth |-> TRUE,
                  override |-> "inherit"]]
      BY <1>3, InsertAgentDoes
    <2>2. agent'[a].status = "enrolled" /\ \A b \in Agents \ {a} : agent'[b] = agent[b]
      BY <1>0, <2>1 DEF TypeOK
    <2>3. peer[a].status = "absent"
      BY <2>1 DEF Inv, Rows, HasPeer
    <2>4. UniquePeers' /\ RevokedPeers'
      BY <2>1, <2>2, <2>3, NoneGiven DEF UniqueInv, RevokedPeers
    <2>5. /\ req[w].op = "enroll" /\ req[w].pc = "InsertAgent"
          /\ req'[w].op = "enroll" /\ req'[w].pc = "InsertPeer"
          /\ req'[w].key = req[w].key /\ req'[w].addr = req[w].addr
      BY <1>3, InsertAgentDoes
    <2>6. EnrollReads(w)'
      <3>1. /\ \A b \in Agents : Newer(b)' = Newer(b)
            /\ \A b \in Agents : (HasPeer(b)' <=> HasPeer(b)) /\ (Live(b)' <=> Live(b))
        BY <2>1, NewerKept DEF HasPeer, Live
      <3>2. peer'[a].status = "absent"
        BY <2>1, <2>3
      <3>3. \A b \in Agents : HasPeer(b)' => peer'[b].key # req'[w].key
        BY <1>0, <2>1, <2>5, <3>1 DEF EnrollReads
      <3>4. \A b \in Agents : Live(b)' /\ peer'[b].addr = req'[w].addr
                              /\ peer'[b].addr # NoAddress =>
                Cardinality(Newer(b)') >= ListLimit
        BY <1>0, <2>1, <2>5, <3>1 DEF EnrollReads
      <3>5. HasPeer(req[w].agent)' <=> peer'[a].status # "absent"
        BY DEF HasPeer
      <3> QED
        BY <2>2, <2>5, <3>2, <3>3, <3>4, <3>5 DEF EnrollReads
    <2> QED
      BY <2>4, <2>5, <2>6 DEF Reads, ChangeReads, PeerReads, RotationReads, At, StateActions
  <1>4. CASE Enroll_InsertPeer(w)
    <2> DEFINE a == req[w].agent
    <2>1. /\ req[w].op = "enroll" /\ req[w].pc = "InsertPeer"
          /\ Kept(w) /\ req'[w].pc \in {"MarkUsed", "AssignPolicies"}
          /\ peer' = [peer EXCEPT ![a] =
                 [key |-> req[w].key, addr |-> req[w].addr, ips |-> {},
                  status |-> "planned", older |-> {b \in Agents : HasPeer(b)}]]
          /\ agent' = agent
      BY <1>4, InsertPeerDoes
    <2>2. a \in Agents
      BY <1>0, <2>1 DEF RequestOK, EnrollLocal, LookupCalls
    <2>3. /\ peer'[a].key = req[w].key /\ peer'[a].addr = req[w].addr
          /\ peer'[a].status = "planned"
          /\ peer'[a].older = {b \in Agents : HasPeer(b)}
          /\ \A b \in Agents \ {a} : peer'[b] = peer[b]
      BY <1>0, <2>1, <2>2 DEF TypeOK
    <2>4. UniquePeers'
      <3>1. PICK n \in Agents : n = a
        BY <2>2
      <3>2. ~HasPeer(n)
        BY <1>0, <2>1, <3>1 DEF EnrollReads
      <3>3. HasPeer(n)'
        BY <2>3, <3>1 DEF HasPeer
      <3>4. /\ peer'[n].key = req[w].key /\ peer'[n].addr = req[w].addr
            /\ peer'[n].older = {b \in Agents : HasPeer(b)}
            /\ \A b \in Agents \ {n} : peer'[b] = peer[b]
        BY <2>3, <3>1
      <3>5. /\ \A b \in Agents : HasPeer(b) => peer[b].key # peer'[n].key
            /\ \A b \in Agents : Live(b) /\ peer[b].addr = peer'[n].addr
                                 /\ peer[b].addr # NoAddress =>
                   Cardinality(Newer(b)) >= ListLimit
        BY <1>0, <2>1, <3>4 DEF EnrollReads
      <3> QED
        BY <3>2, <3>3, <3>4, <3>5, InsertPeerKeepsUnique
    <2>5. RevokedPeers'
      BY <2>1, <2>2, <2>3 DEF UniqueInv, RevokedPeers
    <2> QED
      BY <2>1, <2>4, <2>5, PlainReads DEF Kept, StateActions
  <1>5. CASE Enroll_AssignPolicies(w)
    BY <1>5, AssignPoliciesDoes, NoneWritten, PlainReads DEF Kept, StateActions
  <1>6. CASE Enroll_MarkUsed(w) \/ Enroll_BuildConfig(w)
    BY <1>6, MarkUsedDoes, NoneWritten, PlainReads, IdleReads DEF Untouched, Kept, StateActions
  <1> QED
    BY <1>1, <1>2, <1>3, <1>4, <1>5, <1>6

LEMMA PolicyKeepsUnique ==
    ASSUME Inv, UniqueInv, NEW w \in Workers, PolicyNext(w)
    PROVE  UniqueAfter(w)
  <1> USE DEF UniqueAfter
  <1>0. TypeOK /\ RequestOK(w) /\ PeerReads(w)
    BY DEF Inv, UniqueInv
  <1>1. CASE Refresh_FindPeer(w)
    <2>1. UniquePeers' /\ RevokedPeers' /\ peer' = peer
      BY <1>1, RefreshFindDoes, NoneWritten DEF Untouched
    <2>2. CASE req'[w] = NoRequest
      BY <2>1, <2>2, IdleReads
    <2>3. CASE req'[w].op = req[w].op /\ req'[w].pc = "refresh.FindPeer"
      BY <1>1, <2>1, <2>3, RefreshFindDoes, PlainReads DEF RefreshOps, StateActions
    <2>4. CASE /\ req'[w].op = req[w].op /\ req'[w].pc = "refresh.Render"
               /\ req'[w].status = peer[req'[w].agent].status
      <3>1. req[w].op \in RefreshOps
        BY <1>1, RefreshFindDoes
      <3> QED
        BY <2>1, <2>4, <3>1
        DEF Reads, ChangeReads, PeerReads, EnrollReads, RotationReads, At, StateActions, RefreshOps
    <2> QED
      BY <1>1, <2>2, <2>3, <2>4, RefreshFindDoes
  <1>2. CASE Refresh_Render(w)
    <2>1. UniquePeers' /\ RevokedPeers' /\ peer' = peer
      BY <1>2, RenderDoes, NoneWritten DEF Untouched
    <2>2. /\ req[w].op \in RefreshOps /\ req[w].pc = "refresh.Render"
          /\ req'[w].op = req[w].op /\ req'[w].pc = "refresh.UpdateIntent"
          /\ req'[w].agent = req[w].agent /\ req'[w].status = req[w].status
      BY <1>2, RenderDoes
    <2>3. PeerReads(w)'
      BY <1>0, <2>1, <2>2 DEF PeerReads, RefreshOps
    <2> QED
      BY <2>1, <2>2, <2>3
      DEF Reads, ChangeReads, EnrollReads, RotationReads, At, StateActions, RefreshOps
  <1>3. CASE Refresh_UpdateIntent(w)
    <2> DEFINE a == req[w].agent
               s == IntentStatus(req[w].status)
    <2>1. /\ req[w].pc = "refresh.UpdateIntent" /\ agent' = agent
          /\ peer' = [peer EXCEPT ![a].ips = req[w].ips, ![a].status = s]
      BY <1>3, UpdateIntentDoes
    <2>2. a \in Agents /\ req[w].status = peer[a].status
      BY <1>0, <2>1 DEF RequestOK, RefreshLocal, PeerReads
    <2>3. /\ s = "absent" <=> peer[a].status = "absent"
          /\ s = "revoked" <=> peer[a].status = "revoked"
      BY <2>2 DEF IntentStatus
    <2> HIDE DEF s
    <2>4. /\ peer'[a].key = peer[a].key /\ peer'[a].addr = peer[a].addr
          /\ peer'[a].status = s /\ peer'[a].older = peer[a].older
          /\ \A b \in Agents \ {a} : peer'[b] = peer[b]
      BY <1>0, <2>1, <2>2 DEF TypeOK, PeerRow
    <2>5. UniquePeers' /\ RevokedPeers'
      BY <2>1, <2>3, <2>4, NoneGiven DEF UniqueInv, RevokedPeers
    <2> QED
      BY <1>3, <2>5, UpdateIntentDoes, IdleReads, PlainReads DEF RefreshOps, StateActions
  <1>4. CASE AssignPolicy_Find(w) \/ AssignPolicy_Insert(w)
    BY <1>4, AssignDoes, NoneWritten, PlainReads DEF StateActions
  <1>5. CASE UnassignPolicy(w)
    BY <1>5, UnassignDoes, NoneWritten, PlainReads DEF StateActions
  <1>6. CASE SetTrafficMode(w)
    <2>1. PICK mode : agent' = [agent EXCEPT ![req'[w].agent].override = mode]
      BY <1>6, SetTrafficModeDoes
    <2>2. \A a \in Agents : agent'[a].status = agent[a].status
      BY <1>0, <2>1 DEF TypeOK, AgentRow
    <2>3. UniquePeers' /\ RevokedPeers'
      BY <1>6, <2>2, SetTrafficModeDoes, NoneGiven DEF UniqueInv, RevokedPeers
    <2> QED
      BY <1>6, <2>3, SetTrafficModeDoes, PlainReads DEF StateActions
  <1>7. CASE UpdatePolicy(w) \/ UpdatePolicy_ListAssignments(w)
    BY <1>7, UpdatePolicyDoes, ListAssignmentsDoes, NoneWritten, PlainReads, IdleReads
    DEF Untouched, StateActions
  <1> QED
    BY <1>1, <1>2, <1>3, <1>4, <1>5, <1>6, <1>7 DEF PolicyNext

\* The statuses a state change writes.
LEMMA StatusesAfter ==
    /\ AgentStatusAfter("disable") = "disabled" /\ PeerStatusAfter("disable") = "disabled"
    /\ AgentStatusAfter("enable") = "enrolled" /\ PeerStatusAfter("enable") = "planned"
    /\ AgentStatusAfter("revoke") = "revoked" /\ PeerStatusAfter("revoke") = "revoked"
  BY DEF AgentStatusAfter, PeerStatusAfter

\* A state change relies on what it has read only.
LEMMA OnlyChangeReads ==
    ASSUME NEW w \in Workers, req'[w].op \in StateActions, req'[w].pc \in ChangeCalls,
           ChangeReads(w)'
    PROVE  Reads(w)'
  BY DEF Reads, PeerReads, EnrollReads, RotationReads, At, StateActions, ChangeCalls

LEMMA ChangeKeepsUnique ==
    ASSUME Inv, UniqueInv, NEW w \in Workers,
           \/ ChangeAgentState_FindAgent(w)
           \/ ChangeAgentState_FindPeer(w)
           \/ ChangeAgentState_UpdateAgent(w)
           \/ Revoke_ClearAuthToken(w)
           \/ ChangeAgentState_UpdatePeer(w)
           \/ Revoke_ClearAssignedAddress(w)
           \/ ChangeAgentState_RemovePeer(w)
    PROVE  UniqueAfter(w)
  <1> USE DEF UniqueAfter
  <1>0. TypeOK /\ RequestOK(w) /\ ChangeReads(w)
    BY DEF Inv, UniqueInv
  <1> DEFINE a == req[w].agent
  <1>1. CASE ChangeAgentState_FindAgent(w)
    <2>1. UniquePeers' /\ RevokedPeers' /\ agent' = agent
      BY <1>1, ChangeFindDoes, NoneWritten DEF Untouched
    <2>2. /\ req'[w].op \in StateActions /\ req'[w].pc = "FindPeer"
          /\ Allowed(req'[w].op, agent[req'[w].agent].status)
      BY <1>1, ChangeFindDoes
    <2>3. ChangeReads(w)'
      BY <2>1, <2>2 DEF ChangeReads, Allowed
    <2> QED
      BY <2>1, <2>2, <2>3, OnlyChangeReads DEF ChangeCalls
  <1>2. CASE ChangeAgentState_FindPeer(w)
    <2>1. UniquePeers' /\ RevokedPeers' /\ agent' = agent /\ peer' = peer
      BY <1>2, ChangeReadDoes, NoneWritten DEF Untouched
    <2>2. /\ req[w].op \in StateActions /\ req[w].pc = "FindPeer"
          /\ req'[w].op = req[w].op /\ req'[w].pc = "UpdateAgentStatus"
          /\ req'[w].agent = a
          /\ req'[w].key = peer[a].key /\ req'[w].addr = peer[a].addr
          /\ req'[w].status = peer[a].status
      BY <1>2, ChangeReadDoes
    <2>3. ChangeReads(w)'
      BY <1>0, <2>1, <2>2 DEF ChangeReads, Allowed
    <2> QED
      BY <2>1, <2>2, <2>3, OnlyChangeReads DEF ChangeCalls
  <1>3. ASSUME \/ ChangeAgentState_UpdateAgent(w) \/ Revoke_ClearAuthToken(w)
               \/ ChangeAgentState_UpdatePeer(w) \/ Revoke_ClearAssignedAddress(w)
               \/ ChangeAgentState_RemovePeer(w)
        PROVE  /\ req[w].op \in StateActions /\ a \in Agents
               /\ \/ req'[w] = NoRequest
                  \/ /\ Kept(w)
                     /\ req'[w].pc \in ChangeCalls \ {"FindPeer", "UpdateAgentStatus"}
               /\ UniquePeers' /\ RevokedPeers' /\ ChangeReads(w)' => UniqueAfter(w)
               /\ req'[w] = NoRequest => ChangeReads(w)'
    <2>1. req[w].op \in StateActions /\ a \in Agents
      BY <1>0, <1>3, ChangeWriteDoes DEF RequestOK, AgentLocal, AgentOps
    <2> QED
      BY <1>3, <2>1, ChangeWriteDoes, OnlyChangeReads, IdleReads DEF Kept, Reads
  <1>4. CASE ChangeAgentState_UpdateAgent(w)
    <2> DEFINE s == AgentStatusAfter(req[w].op)
    <2>1. /\ req[w].pc = "UpdateAgentStatus" /\ peer' = peer
          /\ agent' = [agent EXCEPT ![a].status = s]
      BY <1>4, UpdateAgentDoes
    <2>2. agent'[a].status = s /\ \A b \in Agents \ {a} : agent'[b] = agent[b]
      BY <1>0, <1>3, <1>4, <2>1 DEF TypeOK, AgentRow
    <2>3. peer[a].status = "revoked" => s = "revoked"
      BY <1>0, <1>3, <1>4, <2>1, StatusesAfter
      DEF ChangeReads, Allowed, UniqueInv, RevokedPeers, StateActions
    <2>4. UniquePeers' /\ RevokedPeers'
      BY <2>1, <2>2, <2>3, NoneGiven DEF UniqueInv, RevokedPeers
    <2>5. ChangeReads(w)'
      BY <1>0, <1>3, <1>4, <2>1, <2>2, UpdateAgentDoes DEF ChangeReads, Kept, ChangeCalls
    <2> QED
      BY <1>3, <1>4, <2>4, <2>5
  <1>5. CASE Revoke_ClearAuthToken(w)
    <2>1. /\ req[w].op = "revoke" /\ req[w].pc = "ClearAuthToken" /\ peer' = peer
          /\ agent' = [agent EXCEPT ![a].auth = FALSE]
      BY <1>5, ClearAuthDoes
    <2>2. \A b \in Agents : agent'[b].status = agent[b].status
      BY <1>0, <1>3, <1>5, <2>1 DEF TypeOK, AgentRow
    <2>3. UniquePeers' /\ RevokedPeers'
      BY <2>1, <2>2, NoneGiven DEF UniqueInv, RevokedPeers
    <2>4. ChangeReads(w)'
      BY <1>0, <1>3, <1>5, <2>1, <2>2, ClearAuthDoes DEF ChangeReads, Kept, ChangeCalls
    <2> QED
      BY <1>3, <1>5, <2>3, <2>4
  <1>6. CASE ChangeAgentState_UpdatePeer(w)
    <2> DEFINE s == PeerStatusAfter(req[w].op)
    <2>1. /\ req[w].pc = "UpdatePeerStatus" /\ agent' = agent
          /\ peer' = [peer EXCEPT ![a].status = s]
      BY <1>6, UpdatePeerDoes
    <2>2. /\ peer'[a].key = peer[a].key /\ peer'[a].addr = peer[a].addr
          /\ peer'[a].status = s /\ peer'[a].older = peer[a].older
          /\ \A b \in Agents \ {a} : peer'[b] = peer[b]
      BY <1>0, <1>3, <1>6, <2>1 DEF TypeOK, PeerRow
    <2>3. peer[a].status # "absent" /\ s # "absent"
      BY <1>0, <1>3, <1>6, <2>1, StatusesAfter DEF RequestOK, PeerLocal, HasPeer, StateActions
    <2>4. agent[a].status = AgentStatusAfter(req[w].op)
      BY <1>0, <1>3, <1>6, <2>1 DEF ChangeReads
    <2>5. (peer[a].status = "revoked" => s = "revoked")
          /\ (s = "revoked" => agent[a].status = "revoked")
      BY <1>3, <1>6, <2>4, StatusesAfter DEF UniqueInv, RevokedPeers, StateActions
    <2>6. UniquePeers' /\ RevokedPeers'
      BY <2>1, <2>2, <2>3, <2>5, NoneGiven DEF UniqueInv, RevokedPeers
    <2>7. ChangeReads(w)'
      <3>1. CASE req'[w] = NoRequest
        BY <1>3, <1>6, <3>1
      <3>2. CASE /\ req[w].op = "revoke" /\ req[w].addr # NoAddress
                 /\ Kept(w) /\ req'[w].pc = "ClearAssignedAddress"
        BY <1>0, <1>3, <1>6, <2>1, <2>2, <2>4, <3>2, StatusesAfter DEF ChangeReads, Kept
      <3>3. CASE /\ req[w].op = "revoke" => req[w].addr = NoAddress
                 /\ Kept(w) /\ req'[w].pc = "RemovePeer"
        BY <1>0, <1>3, <1>6, <2>1, <2>2, <2>4, <3>3, StatusesAfter DEF ChangeReads, Kept
      <3> QED
        BY <1>3, <1>6, <3>1, <3>2, <3>3, UpdatePeerDoes DEF ThenRemoved
    <2> QED
      BY <1>3, <1>6, <2>6, <2>7
  <1>7. CASE Revoke_ClearAssignedAddress(w)
    <2>1. /\ req[w].op = "revoke" /\ req[w].pc = "ClearAssignedAddress" /\ agent' = agent
          /\ req'[w].pc = "RemovePeer" \/ req'[w] = NoRequest
          /\ peer' = [peer EXCEPT ![a].addr = NoAddress]
      BY <1>7, ClearAddressDoes DEF ThenRemoved
    <2>2. /\ peer'[a].key = peer[a].key /\ peer'[a].addr = NoAddress
          /\ peer'[a].status = peer[a].status /\ peer'[a].older = peer[a].older
          /\ \A b \in Agents \ {a} : peer'[b] = peer[b]
      BY <1>0, <1>3, <1>7, <2>1 DEF TypeOK, PeerRow
    <2>3. UniquePeers' /\ RevokedPeers'
      BY <2>1, <2>2, NoneGiven DEF UniqueInv, RevokedPeers
    <2>4. CASE req'[w] = NoRequest
      BY <1>3, <1>7, <2>3, <2>4
    <2>5. CASE Kept(w) /\ req'[w].pc = "RemovePeer"
      <3>1. ChangeReads(w)'
        BY <1>0, <1>3, <1>7, <2>1, <2>2, <2>5 DEF ChangeReads, Kept
      <3> QED
        BY <1>3, <1>7, <2>3, <3>1
    <2> QED
      BY <1>3, <1>7, <2>1, <2>4, <2>5
  <1>8. CASE ChangeAgentState_RemovePeer(w)
    BY <1>3, <1>8, RemovePeerDoes, NoneWritten
  <1> QED
    BY <1>1, <1>2, <1>4, <1>5, <1>6, <1>7, <1>8

\* Check-ins and rotations.
LEMMA VisitKeepsUnique ==
    ASSUME Inv, UniqueInv, NEW w \in Workers,
           \/ CheckIn_FindAgent(w) \/ Rotate_FindAgent(w)
           \/ CheckIn_FindPeer(w) \/ CheckIn_FindByPublicKey(w)
           \/ CheckIn_UpdatePublicKey(w)
           \/ Rotate_FindPeer(w) \/ Rotate_UpdateStatus(w)
    PROVE  UniqueAfter(w)
  <1> USE DEF UniqueAfter
  <1>0. TypeOK /\ RequestOK(w) /\ PeerReads(w) /\ RotationReads(w) /\ RevokedPeers
    BY DEF Inv, UniqueInv
  <1> DEFINE a == req[w].agent
  <1>1. CASE CheckIn_FindAgent(w) \/ Rotate_FindAgent(w)
    <2>1. UniquePeers' /\ RevokedPeers' /\ agent' = agent /\ peer' = peer
      BY <1>1, VisitBeginDoes, NoneWritten DEF Untouched
    <2>2. /\ req'[w].op \in {"checkIn", "rotate"} /\ req'[w].pc = "FindPeer"
          /\ agent[req'[w].agent].status # "revoked"
      BY <1>1, VisitBeginDoes
    <2>3. PeerReads(w)'
      BY <2>1, <2>2 DEF PeerReads
    <2> QED
      BY <2>1, <2>2, <2>3 DEF Reads, ChangeReads, EnrollReads, RotationReads, At, StateActions
  <1>2. CASE CheckIn_FindPeer(w) \/ CheckIn_FindByPublicKey(w)
    <2>1. UniquePeers' /\ RevokedPeers' /\ agent' = agent /\ peer' = peer
      BY <1>2, CheckInDoes, NoneWritten DEF Untouched
    <2>2. CASE req'[w] = NoRequest
      BY <2>1, <2>2, IdleReads
    <2>3. CASE /\ Kept(w) /\ req'[w].pc = "FindByPublicKey"
               /\ peer[a].status = "rotation_pending"
      <3>1. req'[w].op = "checkIn" /\ req'[w].agent = a
        BY <1>2, <2>3, CheckInDoes DEF Kept
      <3> QED
        BY <2>1, <2>3, <3>1
        DEF Reads, ChangeReads, PeerReads, EnrollReads, RotationReads, At, StateActions
    <2>4. CASE /\ Kept(w) /\ req[w].pc = "FindByPublicKey"
               /\ req'[w].pc = "UpdatePublicKeyAndStatus"
               /\ LET rows == {b \in Agents : HasPeer(b) /\ peer[b].key = req[w].key}
                  IN  rows = {} \/ a \in rows
      <3>1. req[w].op = "checkIn" /\ req'[w].op = "checkIn" /\ req'[w].agent = a
            /\ req'[w].key = req[w].key
        BY <1>2, <2>4, CheckInDoes DEF Kept
      <3>2. \A b \in Agents : HasPeer(b) /\ peer[b].key = req[w].key => b = a
        BY <2>4 DEF UniqueInv, UniquePeers
      <3>3. RotationReads(w)'
        BY <2>1, <3>1, <3>2 DEF RotationReads, HasPeer
      <3>4. PeerReads(w)'
        BY <1>0, <2>1, <2>4, <3>1 DEF PeerReads
      <3> QED
        BY <2>1, <3>1, <3>3, <3>4 DEF Reads, ChangeReads, EnrollReads, StateActions
    <2> QED
      BY <1>2, <2>2, <2>3, <2>4, CheckInDoes
  <1>3. CASE CheckIn_UpdatePublicKey(w)
    <2>1. /\ req[w].op = "checkIn" /\ req[w].pc = "UpdatePublicKeyAndStatus"
          /\ req'[w] = NoRequest /\ agent' = agent
          /\ peer' = [peer EXCEPT ![a].key = req[w].key, ![a].status = "planned"]
      BY <1>3, UpdateKeyDoes
    <2>2. a \in Agents /\ HasPeer(a) /\ peer[a].status # "revoked"
      BY <1>0, <2>1 DEF RequestOK, AgentLocal, AgentOps, CheckInLocal, PeerReads
    <2>3. /\ peer'[a].key = req[w].key /\ peer'[a].addr = peer[a].addr
          /\ peer'[a].status = "planned" /\ peer'[a].older = peer[a].older
          /\ \A b \in Agents \ {a} : peer'[b] = peer[b]
      BY <1>0, <2>1, <2>2 DEF TypeOK, PeerRow
    <2>4. \A b \in Agents : HasPeer(b) /\ peer[b].key = req[w].key => b = a
      BY <1>0, <2>1 DEF RotationReads, At
    <2>5. UniquePeers'
      <3>1. \A b, c \in Agents : LeftOut(b, c) /\ HasPeer(c) => LeftOut(b, c)'
        BY <2>3, LeftOutKept DEF UniqueInv
      <3>2. \A b \in Agents : (HasPeer(b)' <=> HasPeer(b)) /\ (Live(b)' <=> Live(b))
                            /\ peer'[b].addr = peer[b].addr
        BY <2>2, <2>3 DEF Live, HasPeer
      <3>3. \A b, c \in Agents :
              HasPeer(b)' /\ HasPeer(c)' /\ peer'[b].key = peer'[c].key => b = c
        BY <2>3, <2>4, <3>2 DEF UniqueInv, UniquePeers
      <3>4. \A b, c \in Agents :
              Live(b)' /\ Live(c)' /\ peer'[b].addr = peer'[c].addr
              /\ peer'[b].addr # NoAddress => b = c \/ LeftOut(b, c) \/ LeftOut(c, b)
        BY <3>2 DEF UniqueInv, UniquePeers
      <3>5. \A b \in Agents : Live(b)' => HasPeer(b)
        BY <3>2 DEF Live
      <3> QED
        BY <3>1, <3>3, <3>4, <3>5 DEF UniquePeers
    <2>6. RevokedPeers'
      BY <1>0, <2>1, <2>2, <2>3 DEF RevokedPeers
    <2> QED
      BY <2>1, <2>5, <2>6, IdleReads
  <1>4. CASE Rotate_FindPeer(w) \/ Rotate_UpdateStatus(w)
    <2>1. req[w].op = "rotate" /\ agent' = agent /\ a \in Agents
      BY <1>0, <1>4, RotateDoes DEF RequestOK, AgentLocal, AgentOps
    <2>2. agent[a].status # "revoked" /\ peer[a].status # "revoked"
      BY <1>0, <2>1 DEF PeerReads, RevokedPeers
    <2>3. CASE peer' = peer
      <3>1. UniquePeers' /\ RevokedPeers'
        BY <2>1, <2>3, NoneWritten
      <3>2. CASE req'[w] = NoRequest
        BY <3>1, <3>2, IdleReads
      <3>3. CASE Kept(w) /\ req'[w].pc = "UpdatePeerStatus"
        <4>1. PeerReads(w)'
          BY <2>1, <2>2, <2>3, <3>3 DEF PeerReads, Kept
        <4> QED
          BY <2>1, <3>1, <3>3, <4>1
          DEF Kept, Reads, ChangeReads, EnrollReads, RotationReads, At, StateActions
      <3> QED
        BY <1>4, <3>2, <3>3, RotateDoes
    <2>4. CASE /\ req[w].pc = "UpdatePeerStatus" /\ req'[w] = NoRequest
               /\ peer' = [peer EXCEPT ![a].status = "rotation_pending"]
      <3>1. HasPeer(a)
        BY <1>0, <2>4 DEF RequestOK, PeerLocal
      <3>2. /\ peer'[a].key = peer[a].key /\ peer'[a].addr = peer[a].addr
            /\ peer'[a].status = "rotation_pending" /\ peer'[a].older = peer[a].older
            /\ \A b \in Agents \ {a} : peer'[b] = peer[b]
        BY <1>0, <2>1, <2>4 DEF TypeOK, PeerRow
      <3>3. UniquePeers' /\ RevokedPeers'
        BY <1>0, <2>1, <2>2, <3>1, <3>2, NoneGiven DEF RevokedPeers, HasPeer
      <3> QED
        BY <2>4, <3>3, IdleReads
    <2> QED
      BY <1>4, <2>3, <2>4, RotateDoes
  <1> QED
    BY <1>1, <1>2, <1>3, <1>4

LEMMA ReconcileKeepsUnique ==
    ASSUME Inv, UniqueInv, NEW w \in Workers, ReconcileNext(w)
    PROVE  UniqueAfter(w)
  <1> USE DEF UniqueAfter
  <1>0. TypeOK /\ RequestOK(w) /\ PeerReads(w) /\ RevokedPeers
    BY DEF Inv, UniqueInv
  <1> DEFINE a == req[w].agent
  <1>1. agent' = agent
    BY ReconcileDoes
  <1>2. CASE /\ req'[w].op = "reconcile" /\ req'[w].pc = "ApplyPeer"
             /\ req'[w].key = peer[req'[w].agent].key
             /\ peer[req'[w].agent].status # "revoked"
             /\ peer' = peer
    <2>1. UniquePeers' /\ RevokedPeers'
      BY <1>1, <1>2, NoneWritten
    <2>2. PeerReads(w)'
      BY <1>2 DEF PeerReads
    <2> QED
      BY <1>2, <2>1, <2>2 DEF Reads, ChangeReads, EnrollReads, RotationReads, At, StateActions
  <1>3. CASE /\ req[w].op = "reconcile" /\ req[w].pc = "ApplyPeer"
             /\ Kept(w) /\ req'[w].pc = "UpdatePeerStatus" /\ peer' = peer
    <2>1. UniquePeers' /\ RevokedPeers'
      BY <1>1, <1>3, NoneWritten
    <2>2. req'[w].op = "reconcile" /\ req'[w].agent = a /\ req'[w].key = req[w].key
      BY <1>3 DEF Kept
    <2>3. PeerReads(w)'
      BY <1>0, <1>3, <2>2 DEF PeerReads
    <2> QED
      BY <1>3, <2>1, <2>2, <2>3
      DEF Reads, ChangeReads, EnrollReads, RotationReads, At, StateActions
  <1>4. CASE /\ req[w].op = "reconcile" /\ req[w].pc = "UpdatePeerStatus"
             /\ req'[w] = NoRequest
             /\ peer' = [peer EXCEPT ![a].status = "active"]
    <2>1. a \in Agents /\ HasPeer(a) /\ peer[a].status # "revoked"
      BY <1>0, <1>4 DEF RequestOK, AgentLocal, AgentOps, PeerLocal, PeerReads
    <2>2. /\ peer'[a].key = peer[a].key /\ peer'[a].addr = peer[a].addr
          /\ peer'[a].status = "active" /\ peer'[a].older = peer[a].older
          /\ \A b \in Agents \ {a} : peer'[b] = peer[b]
      BY <1>0, <1>4, <2>1 DEF TypeOK, PeerRow
    <2>3. UniquePeers' /\ RevokedPeers'
      BY <1>0, <1>1, <2>1, <2>2, NoneGiven DEF RevokedPeers, HasPeer
    <2> QED
      BY <1>4, <2>3, IdleReads
  <1> QED
    BY <1>2, <1>3, <1>4, ReconcileDoes

LEMMA TokenKeepsUnique ==
    ASSUME Inv, UniqueInv, NEW w \in Workers, TokenStep(w)
    PROVE  UniqueAfter(w)
  BY TokenStepDoes, NoneWritten, PlainReads
  DEF UniqueAfter, Untouched, TokenRequests, StateActions

\* Every step of a request leaves what the others may rely on.
LEMMA StepKeepsUnique ==
    ASSUME Inv, UniqueInv, NEW w \in Workers, WorkerNext(w)
    PROVE  UniqueAfter(w)
  <1>1. CASE EnrollmentNext(w)
    BY <1>1, EnrollKeepsUnique, TokenKeepsUnique DEF EnrollmentNext, TokenStep
  <1>2. CASE PolicyNext(w)
    BY <1>2, PolicyKeepsUnique
  <1>3. CASE LifecycleNext(w)
    BY <1>3, ChangeKeepsUnique, VisitKeepsUnique DEF LifecycleNext
  <1>4. CASE ReconcileNext(w)
    BY <1>4, ReconcileKeepsUnique
  <1>5. CASE Abort(w)
    BY <1>5, AbortDoes, NoneWritten, IdleReads DEF UniqueAfter, Untouched
  <1> QED
    BY <1>1, <1>2, <1>3, <1>4, <1>5 DEF WorkerNext

\* The order of creation is never rewritten.
LEMMA OlderKept ==
    ASSUME Inv, OlderPeers, RowsKept,
           \A a \in Agents : peer'[a].older \subseteq peer[a].older
                                \/ peer'[a].older \subseteq {b \in Agents : HasPeer(b)}
    PROVE  OlderPeers'
  <1>1. \A b \in Agents : HasPeer(b) => HasPeer(b)'
    BY DEF RowsKept
  <1> QED
    BY <1>1 DEF OlderPeers

LEMMA StepKeepsOlder ==
    ASSUME Inv, OlderPeers, RowsKept, NEW w \in Workers, WorkerNext(w)
    PROVE  OlderPeers'
  <1>0. Writers(w) /\ TypeOK /\ RequestOK(w)
    BY EveryWriter DEF Inv
  <1> DEFINE n == req[w].agent
             Same == \A a \in Agents : peer'[a].older = peer[a].older
  <1>1. CASE peer' = peer
    BY <1>1, OlderKept
  <1>2. CASE Enroll_InsertPeer(w)
    <2>1. /\ n \in Agents
          /\ peer' = [peer EXCEPT ![n] =
                 [key |-> req[w].key, addr |-> req[w].addr, ips |-> {},
                  status |-> "planned", older |-> {b \in Agents : HasPeer(b)}]]
      BY <1>0, <1>2, InsertPeerDoes DEF RequestOK, EnrollLocal, LookupCalls
    <2>2. /\ peer'[n].older = {b \in Agents : HasPeer(b)}
          /\ \A a \in Agents \ {n} : peer'[a] = peer[a]
      BY <1>0, <2>1 DEF TypeOK
    <2> QED
      BY <2>2, OlderKept
  <1>3. CASE CheckIn_UpdatePublicKey(w)
    <2>1. peer' = [peer EXCEPT ![n].key = req[w].key, ![n].status = "planned"]
      BY <1>3, UpdateKeyDoes
    <2>2. Same
      BY <1>0, <2>1 DEF TypeOK, PeerRow
    <2> QED
      BY <2>2, OlderKept
  <1>4. CASE Refresh_UpdateIntent(w)
    <2> DEFINE s == IntentStatus(req[w].status)
    <2>1. peer' = [peer EXCEPT ![n].ips = req[w].ips, ![n].status = s]
      BY <1>4, UpdateIntentDoes
    <2> HIDE DEF s
    <2>2. Same
      BY <1>0, <2>1 DEF TypeOK, PeerRow
    <2> QED
      BY <2>2, OlderKept
  <1>5. CASE Revoke_ClearAssignedAddress(w)
    <2>1. peer' = [peer EXCEPT ![n].addr = NoAddress]
      BY <1>5, ClearAddressDoes
    <2>2. Same
      BY <1>0, <2>1 DEF TypeOK, PeerRow
    <2> QED
      BY <2>2, OlderKept
  <1>6. ASSUME NEW s, peer' = [peer EXCEPT ![n].status = s]
        PROVE  OlderPeers'
    <2>1. Same
      BY <1>0, <1>6 DEF TypeOK, PeerRow
    <2> QED
      BY <2>1, OlderKept
  <1>7. CASE ChangeAgentState_UpdatePeer(w) \/ Rotate_UpdateStatus(w)
             \/ ReconcilePeer_UpdateStatus(w)
    BY <1>6, <1>7 DEF ChangeAgentState_UpdatePeer, Rotate_UpdateStatus,
                      ReconcilePeer_UpdateStatus
  <1> QED
    BY <1>0, <1>1, <1>2, <1>3, <1>4, <1>5, <1>7 DEF Writers, PeerWriter

\* In the beginning there are no peers and no requests.
LEMMA InitUnique == Init => UniqueInv
  BY DEF Init, UniqueInv, UniquePeers, RevokedPeers, OlderPeers, ChangeReads, PeerReads, EnrollReads,
         RotationReads, At, HasPeer, Live, NoPeer, NoAgent, NoRequest, StateActions

LEMMA NextUnique ==
    ASSUME OneAtATime, Inv, UniqueInv, [Next]_vars
    PROVE  UniqueInv'
  <1>1. CASE \E w \in Workers : WorkerNext(w)
    <2>1. PICK w \in Workers : WorkerNext(w)
      BY <1>1
    <2>2. UniqueAfter(w) /\ \A v \in Workers : v = w
      BY <2>1, StepKeepsUnique DEF OneAtATime
    <2>3. OlderPeers'
      BY <2>1, NextKeepsRows, StepKeepsOlder DEF UniqueInv
    <2> QED
      BY <2>2, <2>3 DEF UniqueAfter, Reads, UniqueInv
  <1>2. CASE UNCHANGED <<agent, peer, req>>
    <2>1. agent' = agent /\ peer' = peer /\ req' = req
      BY <1>2
    <2>2. UniquePeers' /\ RevokedPeers'
      BY <1>2, NoneWritten
    <2>3. OlderPeers'
      BY <2>1 DEF UniqueInv, OlderPeers, HasPeer
    <2>4. \A w \in Workers : EnrollReads(w)'
      <3> SUFFICES ASSUME NEW w \in Workers
                   PROVE  EnrollReads(w)'
        OBVIOUS
      <3>1. EnrollReads(w)
        BY DEF UniqueInv
      <3>2. HasPeer(req[w].agent)' <=> HasPeer(req[w].agent)
        BY <1>2 DEF HasPeer
      <3>3. /\ \A b \in Agents : HasPeer(b)' => HasPeer(b)
            /\ \A b \in Agents : Live(b)' => Live(b)
        BY <2>1 DEF HasPeer, Live
      <3>4. \A b \in Agents : Newer(b)' = Newer(b)
        BY <2>1, NewerKept
      <3> QED
        BY <2>1, <3>1, <3>2, <3>3, <3>4 DEF EnrollReads
    <2>5. \A w \in Workers : ChangeReads(w)' /\ PeerReads(w)' /\ RotationReads(w)'
      BY <1>2 DEF UniqueInv, ChangeReads, PeerReads, RotationReads, At, HasPeer
    <2> QED
      BY <2>2, <2>3, <2>4, <2>5 DEF UniqueInv
  <1> QED
    BY <1>1, <1>2 DEF Next, WorkerNext, Expire, vars, tables

\* What a request has read of its agent and of the free keys and addresses is
\* still true at its next call, so that keys and addresses stay apart
\* (PerformEnrollment, ChangeAgentState, completeRotation).
THEOREM UniqueInvariance ==
    ASSUME OneAtATime
    PROVE  Spec => []UniqueInv
  <1>1. Init => UniqueInv
    BY InitUnique
  <1>2. Inv /\ UniqueInv /\ [Next]_vars => UniqueInv'
    BY NextUnique
  <1> QED
    BY <1>1, <1>2, Invariance, PTL DEF Spec

\* While requests come one at a time no two peers share a key, and no two
\* unrevoked peers an address unless a whole listing of peers was created
\* between them, wherever requests fail: the lookups of PerformEnrollment and
\* completeRotation keep them apart.
THEOREM KeysAndAddressesAreUnique ==
    ASSUME OneAtATime
    PROVE  Spec => []UniquePeers
  BY UniqueInvariance, PTL DEF UniqueInv

-----------------------------------------------------------------------------
(* Revoked agents.                                                         *)

RevokedNow(w) == \A a \in Agents :
    agent[a].status = "revoked" => Gone(a) \/ Revoking(w, a)

\* Whoever had nothing left has nothing left.
LEMMA GoneStays ==
    ASSUME NEW w \in Workers, RevokedNow(w),
           \A a \in Agents : ~Revoking(w, a),
           \A a \in Agents : agent'[a].status = "revoked" =>
               agent[a].status = "revoked" /\ (Gone(a) => Gone(a)')
    PROVE  RevokedNow(w)'
  BY DEF RevokedNow

\* In particular when nothing but the request moves.
LEMMA UntouchedGone ==
    ASSUME NEW w \in Workers, RevokedNow(w),
           req[w].op # "revoke" \/ req[w].pc \in {"FindPeer", "UpdateAgentStatus", "BindPolicies"},
           UNCHANGED <<agent, peer, runtime, kept>>
    PROVE  RevokedNow(w)'
  BY GoneStays DEF Gone, Revoking, HasPeer

LEMMA EnrollKeepsRevoked ==
    ASSUME Inv, UniqueInv, NEW w \in Workers, RevokedNow(w), EnrollmentNext(w)
    PROVE  RevokedNow(w)'
  <1>0. TypeOK /\ RequestOK(w) /\ EnrollReads(w)
    BY DEF Inv, UniqueInv
  <1>1. CASE TokenStep(w)
    <2>1. req[w].op # "revoke" \/ req[w].pc = "BindPolicies"
      BY <1>1, TokenStepDoes DEF TokenRequests
    <2> QED
      BY <1>1, <2>1, TokenStepDoes, UntouchedGone DEF Untouched
  <1>2. CASE \/ Enroll_FindByHash(w) \/ Enroll_FindByHostname(w)
             \/ Enroll_FindByPublicKey(w) \/ Enroll_AllocateAddress(w)
             \/ Enroll_AssignPolicies(w) \/ Enroll_MarkUsed(w) \/ Enroll_BuildConfig(w)
    <2>1. req[w].op # "revoke" /\ UNCHANGED <<agent, peer, runtime, kept>>
      BY <1>2, FindByHashDoes, LookupDoes, AssignPoliciesDoes, MarkUsedDoes DEF Untouched
    <2> QED
      BY <2>1, UntouchedGone
  <1>3. CASE Enroll_InsertAgent(w)
    <2> DEFINE a == req'[w].agent
    <2>1. /\ req[w].op = "enroll" /\ a \in Agents
          /\ agent' = [agent EXCEPT ![a] =
                 [host |-> req[w].host, status |-> "enrolled", auth |-> TRUE,
                  override |-> "inherit"]]
          /\ UNCHANGED <<peer, runtime, kept>>
      BY <1>3, InsertAgentDoes
    <2>2. agent'[a].status = "enrolled" /\ \A b \in Agents \ {a} : agent'[b] = agent[b]
      BY <1>0, <2>1 DEF TypeOK
    <2> QED
      BY <2>1, <2>2, GoneStays DEF Gone, Revoking, HasPeer
  <1>4. CASE Enroll_InsertPeer(w)
    <2> DEFINE a == req[w].agent
    <2>1. /\ req[w].op = "enroll" /\ req[w].pc = "InsertPeer"
          /\ peer' = [peer EXCEPT ![a] =
                 [key |-> req[w].key, addr |-> req[w].addr, ips |-> {},
                  status |-> "planned", older |-> {b \in Agents : HasPeer(b)}]]
          /\ UNCHANGED <<agent, runtime, kept>>
      BY <1>4, InsertPeerDoes
    <2>2. agent[a].status = "enrolled" /\ \A b \in Agents \ {a} : peer'[b] = peer[b]
      BY <1>0, <2>1 DEF EnrollReads, TypeOK
    <2> QED
      BY <2>1, <2>2, GoneStays DEF Gone, Revoking, HasPeer
  <1> QED
    BY <1>1, <1>2, <1>3, <1>4 DEF EnrollmentNext, TokenStep

LEMMA PolicyKeepsRevoked ==
    ASSUME Inv, UniqueInv, NEW w \in Workers, RevokedNow(w), PolicyNext(w)
    PROVE  RevokedNow(w)'
  <1>0. TypeOK /\ RequestOK(w) /\ PeerReads(w)
    BY DEF Inv, UniqueInv
  <1>1. CASE Refresh_FindPeer(w) \/ Refresh_Render(w)
    BY <1>1, RefreshFindDoes, RenderDoes, UntouchedGone DEF Untouched, RefreshOps
  <1>2. CASE AssignPolicy_Find(w) \/ AssignPolicy_Insert(w) \/ UnassignPolicy(w)
    BY <1>2, AssignDoes, UnassignDoes, UntouchedGone
  <1>3. CASE UpdatePolicy(w) \/ UpdatePolicy_ListAssignments(w)
    BY <1>3, UpdatePolicyDoes, ListAssignmentsDoes, UntouchedGone DEF Untouched
  <1>4. CASE SetTrafficMode(w)
    <2>1. PICK mode : agent' = [agent EXCEPT ![req'[w].agent].override = mode]
      BY <1>4, SetTrafficModeDoes
    <2>2. \A a \in Agents :
            agent'[a].status = agent[a].status /\ agent'[a].auth = agent[a].auth
      BY <1>0, <2>1 DEF TypeOK, AgentRow
    <2> QED
      BY <1>4, <2>2, SetTrafficModeDoes, GoneStays DEF Gone, Revoking, HasPeer
  <1>5. CASE Refresh_UpdateIntent(w)
    <2> DEFINE a == req[w].agent
               s == IntentStatus(req[w].status)
    <2>1. /\ req[w].op \in RefreshOps /\ req[w].pc = "refresh.UpdateIntent"
          /\ peer' = [peer EXCEPT ![a].ips = req[w].ips, ![a].status = s]
          /\ UNCHANGED <<agent, runtime, kept>>
      BY <1>5, UpdateIntentDoes
    <2>2. a \in Agents /\ HasPeer(a) /\ req[w].status = peer[a].status
      BY <1>0, <2>1 DEF RequestOK, RefreshLocal, PeerReads
    <2>3. peer[a].status = "revoked" => s = "revoked"
      BY <2>2 DEF IntentStatus
    <2> HIDE DEF s
    <2>4. /\ peer'[a].key = peer[a].key /\ peer'[a].addr = peer[a].addr
          /\ peer'[a].status = s
          /\ \A b \in Agents \ {a} : peer'[b] = peer[b]
      BY <1>0, <2>1, <2>2 DEF TypeOK, PeerRow
    <2>5. \A b \in Agents : Gone(b) => Gone(b)'
      <3>1. agent' = agent /\ runtime' = runtime /\ kept' = kept
        BY <2>1
      <3> QED
        BY <2>2, <2>3, <2>4, <3>1 DEF Gone, HasPeer
    <2>6. \A b \in Agents : ~Revoking(w, b)
      BY <2>1 DEF Revoking, RefreshOps
    <2> QED
      BY <2>1, <2>5, <2>6, GoneStays
  <1> QED
    BY <1>1, <1>2, <1>3, <1>4, <1>5 DEF PolicyNext

LEMMA ChangeKeepsRevoked ==
    ASSUME Inv, UniqueInv, NEW w \in Workers, RevokedNow(w),
           \/ ChangeAgentState_FindAgent(w)
           \/ ChangeAgentState_FindPeer(w)
           \/ ChangeAgentState_UpdateAgent(w)
           \/ Revoke_ClearAuthToken(w)
           \/ ChangeAgentState_UpdatePeer(w)
           \/ Revoke_ClearAssignedAddress(w)
           \/ ChangeAgentState_RemovePeer(w)
    PROVE  RevokedNow(w)'
  <1>0. TypeOK /\ RequestOK(w) /\ ChangeReads(w)
    BY DEF Inv, UniqueInv
  <1> DEFINE a == req[w].agent
  <1>1. CASE ChangeAgentState_FindAgent(w) \/ ChangeAgentState_FindPeer(w)
    BY <1>1, ChangeFindDoes, ChangeReadDoes, UntouchedGone DEF Untouched
  <1>2. ASSUME \/ ChangeAgentState_UpdateAgent(w) \/ Revoke_ClearAuthToken(w)
               \/ ChangeAgentState_UpdatePeer(w) \/ Revoke_ClearAssignedAddress(w)
               \/ ChangeAgentState_RemovePeer(w)
        PROVE  /\ req[w].op \in StateActions /\ a \in Agents
               /\ req'[w] = NoRequest \/ Kept(w)
    <2>1. req[w].op \in StateActions /\ a \in Agents
      BY <1>0, <1>2, ChangeWriteDoes DEF RequestOK, AgentLocal, AgentOps
    <2> QED
      BY <1>2, <2>1, ChangeWriteDoes
  <1>3. CASE ChangeAgentState_UpdateAgent(w)
    <2>1. /\ req[w].pc = "UpdateAgentStatus"
          /\ agent' = [agent EXCEPT ![a].status = AgentStatusAfter(req[w].op)]
          /\ UNCHANGED <<peer, runtime, kept>>
          /\ req[w].op = "revoke" => req'[w].pc = "ClearAuthToken"
      BY <1>3, UpdateAgentDoes
    <2>2. /\ agent'[a].status = AgentStatusAfter(req[w].op)
          /\ \A b \in Agents \ {a} : agent'[b] = agent[b]
      BY <1>0, <1>2, <1>3, <2>1 DEF TypeOK, AgentRow
    <2>3. CASE req[w].op = "revoke"
      <3>1. Kept(w)
        BY <1>2, <1>3, <2>1, <2>3 DEF NoRequest
      <3> QED
        BY <2>1, <2>2, <2>3, <3>1 DEF RevokedNow, Gone, Revoking, HasPeer, Kept
    <2>4. CASE req[w].op # "revoke"
      BY <1>2, <1>3, <2>1, <2>2, <2>4, StatusesAfter, GoneStays
      DEF Gone, Revoking, HasPeer, StateActions
    <2> QED
      BY <2>3, <2>4
  <1>4. CASE Revoke_ClearAuthToken(w)
    <2>1. /\ req[w].op = "revoke" /\ req[w].pc = "ClearAuthToken"
          /\ agent' = [agent EXCEPT ![a].auth = FALSE]
          /\ UNCHANGED <<peer, runtime, kept>>
          /\ \/ req'[w] = NoRequest /\ req[w].status = "absent"
             \/ req'[w].pc = "UpdatePeerStatus"
      BY <1>4, ClearAuthDoes
    <2>2. /\ agent'[a].status = agent[a].status /\ ~agent'[a].auth
          /\ \A b \in Agents \ {a} : agent'[b] = agent[b]
      BY <1>0, <1>2, <1>4, <2>1 DEF TypeOK, AgentRow
    <2>3. req[w].status = peer[a].status
      BY <1>0, <2>1 DEF ChangeReads, StateActions
    <2>4. \A b \in Agents : b = a => Gone(b)' \/ Revoking(w, b)'
      BY <1>2, <1>4, <2>1, <2>2, <2>3 DEF Gone, Revoking, HasPeer, Kept, NoRequest
    <2> QED
      BY <2>1, <2>2, <2>4 DEF RevokedNow, Gone, Revoking, HasPeer
  <1>5. CASE ChangeAgentState_UpdatePeer(w)
    <2>1. /\ req[w].pc = "UpdatePeerStatus"
          /\ peer' = [peer EXCEPT ![a].status = PeerStatusAfter(req[w].op)]
          /\ agent' = agent /\ runtime' = runtime
          /\ req[w].op = "revoke" =>
                 \/ req'[w].pc = "ClearAssignedAddress" /\ kept' = kept
                 \/ req[w].addr = NoAddress /\ ThenRemoved(w)
          /\ kept \subseteq kept'
      BY <1>5, UpdatePeerDoes DEF ThenRemoved
    <2>2. \A b \in Agents \ {a} : peer'[b] = peer[b]
      BY <1>0, <2>1 DEF TypeOK
    <2>3. CASE req[w].op = "revoke"
      <3>1. \A b \in Agents : b = a => Gone(b)' \/ Revoking(w, b)'
        <4>1. CASE req'[w] = NoRequest
          <5>1. a \in kept' /\ req[w].addr = NoAddress
            BY <2>1, <2>3, <4>1 DEF ThenRemoved, NoRequest
          <5>2. ~agent[a].auth /\ req[w].addr = peer[a].addr
            BY <1>0, <1>2, <1>5, <2>1, <2>3
            DEF RequestOK, RevokeLocal, ChangeReads, StateActions
          <5>3. peer'[a].addr = NoAddress /\ peer'[a].status = "revoked"
            BY <1>0, <1>2, <1>5, <2>1, <2>3, <5>1, <5>2, StatusesAfter DEF TypeOK, PeerRow
          <5> QED
            BY <2>1, <5>1, <5>2, <5>3 DEF Gone
        <4>2. CASE req'[w] # NoRequest
          BY <1>2, <1>5, <2>1, <2>3, <4>2 DEF Revoking, Kept, ThenRemoved
        <4> QED
          BY <4>1, <4>2
      <3> QED
        BY <2>1, <2>2, <2>3, <3>1 DEF RevokedNow, Gone, Revoking, HasPeer
    <2>4. CASE req[w].op # "revoke"
      <3>1. agent[a].status # "revoked"
        BY <1>0, <1>2, <1>5, <2>1, <2>4, StatusesAfter DEF ChangeReads, StateActions
      <3> QED
        BY <2>1, <2>2, <2>4, <3>1, GoneStays DEF Gone, Revoking, HasPeer
    <2> QED
      BY <2>3, <2>4
  <1>6. CASE Revoke_ClearAssignedAddress(w)
    <2>1. /\ req[w].op = "revoke"
          /\ peer' = [peer EXCEPT ![a].addr = NoAddress]
          /\ agent' = agent /\ runtime' = runtime
          /\ ThenRemoved(w) /\ kept \subseteq kept'
      BY <1>6, ClearAddressDoes DEF ThenRemoved
    <2>2. \A b \in Agents \ {a} : peer'[b] = peer[b]
      BY <1>0, <2>1 DEF TypeOK
    <2>3. \A b \in Agents : b = a => Gone(b)' \/ Revoking(w, b)'
      <3>1. CASE req'[w] = NoRequest
        <4>1. a \in kept'
          BY <2>1, <3>1 DEF ThenRemoved, NoRequest
        <4>2. ~agent[a].auth /\ peer[a].status = "revoked"
          BY <1>0, <1>2, <1>6, <2>1
          DEF RequestOK, RevokeLocal, ChangeReads, StateActions, Revoke_ClearAssignedAddress, At
        <4>3. peer'[a].addr = NoAddress /\ peer'[a].status = "revoked"
          BY <1>0, <1>2, <1>6, <2>1, <4>2 DEF TypeOK, PeerRow
        <4> QED
          BY <2>1, <4>1, <4>2, <4>3 DEF Gone
      <3>2. CASE req'[w] # NoRequest
        BY <1>2, <1>6, <2>1, <3>2 DEF Revoking, Kept, ThenRemoved
      <3> QED
        BY <3>1, <3>2
    <2> QED
      BY <2>1, <2>2, <2>3 DEF RevokedNow, Gone, Revoking, HasPeer
  <1>7. CASE ChangeAgentState_RemovePeer(w)
    <2>1. /\ req[w].pc = "RemovePeer" /\ req'[w] = NoRequest
          /\ runtime' = runtime \ {req[w].key}
          /\ kept' = kept \ {a}
          /\ agent' = agent /\ peer' = peer
      BY <1>7, RemovePeerDoes
    <2>2. CASE req[w].op = "revoke"
      <3>1. \A b \in Agents : b = a => Gone(b)'
        BY <1>0, <1>2, <1>7, <2>1, <2>2
        DEF Gone, ChangeReads, RequestOK, RevokeLocal, HasPeer, StateActions
      <3> QED
        BY <2>1, <3>1 DEF RevokedNow, Gone, Revoking, HasPeer
    <2>3. CASE req[w].op # "revoke"
      <3>1. agent[a].status # "revoked"
        BY <1>0, <1>2, <1>7, <2>1, <2>3, StatusesAfter DEF ChangeReads, StateActions
      <3> QED
        BY <2>1, <2>3, <3>1, GoneStays DEF Gone, Revoking, HasPeer
    <2> QED
      BY <2>2, <2>3
  <1> QED
    BY <1>1, <1>3, <1>4, <1>5, <1>6, <1>7

\* An agent whose peer is not revoked is not revoked, between two requests
\* and while a request other than a revoke goes on.
LEMMA PeerSaysSo ==
    ASSUME NEW w \in Workers, RevokedNow(w), req[w].op # "revoke",
           NEW a \in Agents, HasPeer(a), peer[a].status # "revoked"
    PROVE  agent[a].status # "revoked"
  BY DEF RevokedNow, Gone, Revoking

LEMMA VisitKeepsRevoked ==
    ASSUME Inv, UniqueInv, NEW w \in Workers, RevokedNow(w),
           \/ CheckIn_FindAgent(w) \/ Rotate_FindAgent(w)
           \/ CheckIn_FindPeer(w) \/ CheckIn_FindByPublicKey(w)
           \/ CheckIn_UpdatePublicKey(w)
           \/ Rotate_FindPeer(w) \/ Rotate_UpdateStatus(w)
    PROVE  RevokedNow(w)'
  <1>0. TypeOK /\ RequestOK(w) /\ PeerReads(w)
    BY DEF Inv, UniqueInv
  <1> DEFINE a == req[w].agent
  <1>1. CASE \/ CheckIn_FindAgent(w) \/ Rotate_FindAgent(w)
             \/ CheckIn_FindPeer(w) \/ CheckIn_FindByPublicKey(w)
    BY <1>1, VisitBeginDoes, CheckInDoes, UntouchedGone DEF Untouched
  <1>2. CASE CheckIn_UpdatePublicKey(w)
    <2>1. /\ req[w].op = "checkIn" /\ req[w].pc = "UpdatePublicKeyAndStatus"
          /\ peer' = [peer EXCEPT ![a].key = req[w].key, ![a].status = "planned"]
          /\ UNCHANGED <<agent, runtime, kept>>
      BY <1>2, UpdateKeyDoes
    <2>2. a \in Agents /\ HasPeer(a) /\ peer[a].status # "revoked"
      BY <1>0, <2>1 DEF RequestOK, AgentLocal, AgentOps, CheckInLocal, PeerReads
    <2>3. agent[a].status # "revoked" /\ \A b \in Agents \ {a} : peer'[b] = peer[b]
      BY <1>0, <2>1, <2>2, PeerSaysSo DEF TypeOK
    <2>4. \A b \in Agents : b # a /\ Gone(b) => Gone(b)'
      <3>1. agent' = agent /\ runtime' = runtime /\ kept' = kept
        BY <2>1
      <3> QED
        BY <2>3, <3>1 DEF Gone, HasPeer
    <2>5. \A b \in Agents : ~Revoking(w, b)
      BY <2>1 DEF Revoking
    <2> QED
      BY <2>1, <2>3, <2>4, <2>5, GoneStays
  <1>3. CASE Rotate_FindPeer(w) \/ Rotate_UpdateStatus(w)
    <2>1. /\ req[w].op = "rotate" /\ UNCHANGED <<agent, runtime, kept>>
          /\ \/ peer' = peer
             \/ peer' = [peer EXCEPT ![a].status = "rotation_pending"]
      BY <1>3, RotateDoes
    <2>2. agent[a].status # "revoked" /\ \A b \in Agents \ {a} : peer'[b] = peer[b]
      BY <1>0, <2>1 DEF PeerReads, TypeOK
    <2> QED
      BY <2>1, <2>2, GoneStays DEF Gone, Revoking, HasPeer
  <1> QED
    BY <1>1, <1>2, <1>3

LEMMA ReconcileKeepsRevoked ==
    ASSUME Inv, UniqueInv, NEW w \in Workers, RevokedNow(w), ReconcileNext(w)
    PROVE  RevokedNow(w)'
  <1>0. TypeOK /\ RequestOK(w) /\ PeerReads(w)
    BY DEF Inv, UniqueInv
  <1> DEFINE a == req[w].agent
  <1>1. agent' = agent /\ kept' = kept /\ req[w].op \in {"idle", "reconcile"}
    BY ReconcileDoes
  <1>2. ASSUME req[w].op = "reconcile"
        PROVE  a \in Agents /\ peer[a].status # "revoked" /\ req[w].key = peer[a].key
    BY <1>0, <1>2 DEF RequestOK, AgentLocal, AgentOps, PeerReads
  <1>3. CASE peer' = peer /\ runtime' = runtime
    BY <1>1, <1>3, UntouchedGone
  <1>4. CASE /\ req[w].op = "reconcile" /\ req[w].pc = "ApplyPeer"
             /\ peer' = peer /\ runtime' = runtime \union {req[w].key}
    <2>1. HasPeer(a)
      BY <1>0, <1>4 DEF RequestOK, PeerLocal
    <2>2. \A b \in Agents :
            HasPeer(b) /\ peer[b].status = "revoked" => peer[b].key # req[w].key
      BY <1>2, <1>4, <2>1 DEF UniqueInv, UniquePeers
    <2> QED
      BY <1>1, <1>4, <2>2, GoneStays DEF Gone, Revoking, HasPeer
  <1>5. CASE /\ req[w].op = "reconcile" /\ req[w].pc = "UpdatePeerStatus"
             /\ peer' = [peer EXCEPT ![a].status = "active"] /\ runtime' = runtime
    <2>1. HasPeer(a)
      BY <1>0, <1>5 DEF RequestOK, PeerLocal
    <2>2. agent[a].status # "revoked" /\ \A b \in Agents \ {a} : peer'[b] = peer[b]
      BY <1>0, <1>2, <1>5, <2>1, PeerSaysSo DEF TypeOK
    <2> QED
      BY <1>1, <1>5, <2>2, GoneStays DEF Gone, Revoking, HasPeer
  <1> QED
    BY <1>3, <1>4, <1>5, ReconcileDoes

LEMMA StepKeepsRevoked ==
    ASSUME ~Faults, Inv, UniqueInv, NEW w \in Workers, RevokedNow(w), WorkerNext(w)
    PROVE  RevokedNow(w)'
  BY EnrollKeepsRevoked, PolicyKeepsRevoked, ChangeKeepsRevoked, VisitKeepsRevoked,
     ReconcileKeepsRevoked
  DEF WorkerNext, LifecycleNext, Abort

-----------------------------------------------------------------------------
(* Spent tokens.                                                           *)

SpentNow(w) == \A a \in Agents : enrolledBy[a] # None =>
    token[enrolledBy[a]].usedAt \/ Enrolling(w, a)

SpentInv(w) == SpentNow(w) /\ SingleUse /\ TokenReads(w)

\* Nothing is to be shown when no agent is enrolled, no token becomes unused
\* and an enrollment keeps its agent.
LEMMA SpentStays ==
    ASSUME NEW w \in Workers, SpentInv(w), enrolledBy' = enrolledBy,
           \A a \in Agents : enrolledBy[a] # None /\ token[enrolledBy[a]].usedAt =>
               token'[enrolledBy[a]].usedAt,
           \A a \in Agents : Enrolling(w, a) => Enrolling(w, a)',
           TokenReads(w)'
    PROVE  SpentInv(w)'
  BY DEF SpentInv, SpentNow, SingleUse

\* The request enrolls nobody, and is not about tokens.
LEMMA OthersSpent ==
    ASSUME NEW w \in Workers, SpentInv(w), UNCHANGED <<token, enrolledBy>>,
           req[w].op # "enroll", req'[w].op # "enroll"
    PROVE  SpentInv(w)'
  BY SpentStays DEF Enrolling, TokenReads

\* The request is an enrollment that is past its lookups and not at its end.
LEMMA EnrollingSpent ==
    ASSUME NEW w \in Workers, SpentInv(w), UNCHANGED <<token, enrolledBy>>,
           req'[w].op = "enroll", req'[w].agent = req[w].agent,
           req'[w].pc \notin LookupCalls \union {"BuildConfig"}
    PROVE  SpentInv(w)'
  BY SpentStays DEF Enrolling, TokenReads

\* Token requests insert rows that enrolled nobody.
LEMMA TokensKeepSpent ==
    ASSUME Inv, NEW w \in Workers, SpentInv(w), TokenStep(w)
    PROVE  SpentInv(w)'
  <1>0. TypeOK /\ RequestOK(w) /\ Rows
    BY DEF Inv
  <1>1. /\ enrolledBy' = enrolledBy /\ TokenReads(w)'
        /\ \A a \in Agents : ~Enrolling(w, a)
    <2>1. req[w].op # "enroll"
      BY <1>0, TokenStepDoes
      DEF TokenRequests, RequestOK, EnrollLocal, LookupCalls, PeerCalls, RefreshCalls
    <2> QED
      BY <2>1, TokenStepDoes DEF TokenRequests, Untouched, TokenReads, Enrolling
  <1>2. ASSUME NEW t \in Tokens, HasToken(t), token[t].usedAt
        PROVE  token'[t].usedAt
    <2>1. CASE CreateToken_Insert(w) \/ Reissue_Insert(w)
      <3>1. PICK u \in Tokens : token[u] = NoToken /\ \E row : token' = [token EXCEPT ![u] = row]
        BY <2>1 DEF CreateToken_Insert, Reissue_Insert
      <3>2. t # u
        BY <1>2, <3>1 DEF HasToken, NoToken
      <3> QED
        BY <1>0, <1>2, <3>1, <3>2 DEF TypeOK
    <2>2. CASE CreateToken_BindPolicies(w)
      <3>1. token' = [token EXCEPT ![req[w].token].policies = req[w].todoPolicies]
        BY <2>2 DEF CreateToken_BindPolicies
      <3>2. token'[t].usedAt = token[t].usedAt
        BY <1>0, <3>1 DEF TypeOK, TokenRow
      <3> QED
        BY <1>2, <3>2
    <2>3. CASE RevokeToken_Revoke(w)
      <3>1. token' = [token EXCEPT ![req[w].token].status = "revoked",
                                   ![req[w].token].revokedAt = TRUE]
        BY <2>3 DEF RevokeToken_Revoke
      <3>2. token'[t].usedAt = token[t].usedAt
        BY <1>0, <3>1 DEF TypeOK, TokenRow
      <3> QED
        BY <1>2, <3>2
    <2>4. CASE Reissue_FindAgent(w) \/ Reissue_ListPolicies(w) \/ RevokeToken_Find(w)
      BY <1>2, <2>4 DEF Reissue_FindAgent, Reissue_ListPolicies, RevokeToken_Find, tables
    <2> QED
      BY <2>1, <2>2, <2>3, <2>4 DEF TokenStep
  <1>3. \A a \in Agents : enrolledBy[a] # None =>
            enrolledBy[a] \in Tokens /\ HasToken(enrolledBy[a])
    BY <1>0 DEF TypeOK, Rows
  <1> QED
    BY <1>1, <1>2, <1>3, SpentStays

LEMMA EnrollKeepsSpent ==
    ASSUME Inv, NEW w \in Workers, SpentInv(w), EnrollmentNext(w), ~TokenStep(w)
    PROVE  SpentInv(w)'
  <1>0. TypeOK /\ RequestOK(w) /\ SpentNow(w) /\ SingleUse /\ TokenReads(w)
    BY DEF Inv, SpentInv
  <1>1. CASE Enroll_FindByHash(w)
    <2> DEFINE t == req'[w].token
    <2>1. /\ req[w].op = "idle" /\ t \in Tokens /\ EffectiveStatus(t) = "issued"
          /\ req'[w].op = "enroll" /\ req'[w].pc = "FindByHostname"
          /\ UNCHANGED <<token, enrolledBy>>
      BY <1>1, FindByHashDoes DEF Untouched
    <2>2. ~token[t].usedAt /\ t # None
      BY <2>1, StoreAssumption DEF EffectiveStatus
    <2>3. \A b \in Agents : enrolledBy[b] # t
      BY <1>0, <2>1, <2>2 DEF SpentNow, Enrolling
    <2>4. TokenReads(w)'
      BY <2>1, <2>3 DEF TokenReads
    <2> QED
      BY <2>1, <2>4, SpentStays DEF Enrolling
  <1>2. CASE \/ Enroll_FindByHostname(w)
             \/ Enroll_FindByPublicKey(w)
             \/ Enroll_AllocateAddress(w)
    <2>1. /\ req[w].op = "enroll" /\ req[w].pc \in LookupCalls
          /\ req'[w].op = "enroll" => req'[w].token = req[w].token
          /\ UNCHANGED <<token, enrolledBy>>
      BY <1>2, LookupDoes DEF Untouched, NoRequest
    <2>2. TokenReads(w)'
      BY <1>0, <2>1 DEF TokenReads
    <2> QED
      BY <2>1, <2>2, SpentStays DEF Enrolling
  <1>3. CASE Enroll_InsertAgent(w)
    <2>1. PICK a \in Agents :
            /\ a = req'[w].agent
            /\ enrolledBy' = [enrolledBy EXCEPT ![a] = req[w].token]
      BY <1>3, InsertAgentDoes
    <2>2. /\ req[w].op = "enroll" /\ req[w].pc \in LookupCalls
          /\ req'[w].op = "enroll" /\ req'[w].pc = "InsertPeer"
          /\ token' = token
      BY <1>3, InsertAgentDoes DEF LookupCalls
    <2>3. /\ enrolledBy'[a] = req[w].token
          /\ \A b \in Agents \ {a} : enrolledBy'[b] = enrolledBy[b]
      BY <1>0, <2>1 DEF TypeOK
    <2>4. \A b \in Agents : enrolledBy[b] # req[w].token
      BY <1>0, <2>2 DEF TokenReads
    <2>5. SingleUse'
      BY <1>0, <2>3, <2>4 DEF SingleUse
    <2>6. Enrolling(w, a)' /\ TokenReads(w)'
      BY <2>1, <2>2 DEF Enrolling, TokenReads, LookupCalls
    <2>7. SpentNow(w)'
      BY <1>0, <2>2, <2>3, <2>6 DEF SpentNow, Enrolling
    <2> QED
      BY <2>5, <2>6, <2>7 DEF SpentInv
  <1>4. CASE Enroll_InsertPeer(w) \/ Enroll_AssignPolicies(w)
    BY <1>4, InsertPeerDoes, AssignPoliciesDoes, EnrollingSpent DEF Kept, LookupCalls
  <1>5. CASE Enroll_MarkUsed(w)
    <2>1. /\ req[w].op = "enroll" /\ req[w].pc = "MarkUsed"
          /\ Kept(w) /\ req'[w].pc = "BuildConfig" /\ enrolledBy' = enrolledBy
      BY <1>5, MarkUsedDoes DEF Untouched, Enroll_MarkUsed, At, Enroll_BuildConfig
    <2>2. token' = [token EXCEPT ![req[w].token].status = "used",
                                 ![req[w].token].usedAt = TRUE]
      BY <1>5 DEF Enroll_MarkUsed
    <2>3. /\ req[w].token \in Tokens
          /\ enrolledBy[req[w].agent] = req[w].token
      BY <1>0, <2>1 DEF RequestOK, EnrollLocal, LookupCalls
    <2>4. /\ token'[req[w].token].usedAt
          /\ \A t \in Tokens : token[t].usedAt => token'[t].usedAt
      BY <1>0, <2>2, <2>3 DEF TypeOK, TokenRow
    <2>5. SpentNow(w)'
      BY <1>0, <2>1, <2>3, <2>4 DEF SpentNow, Enrolling, TypeOK
    <2> QED
      BY <1>0, <2>1, <2>5 DEF SpentInv, SingleUse, TokenReads, LookupCalls
  <1>6. CASE Enroll_BuildConfig(w)
    <2>1. /\ req[w].pc = "BuildConfig" /\ req'[w] = NoRequest
          /\ UNCHANGED <<token, enrolledBy>>
      BY <1>6, MarkUsedDoes DEF Untouched, Enroll_MarkUsed, Enroll_BuildConfig, At
    <2> QED
      BY <2>1, SpentStays DEF Enrolling, TokenReads, NoRequest
  <1> QED
    BY <1>1, <1>2, <1>3, <1>4, <1>5, <1>6 DEF EnrollmentNext, TokenStep

LEMMA PolicyKeepsSpent ==
    ASSUME Inv, NEW w \in Workers, SpentInv(w), PolicyNext(w)
    PROVE  SpentInv(w)'
  <1>1. CASE Refresh_FindPeer(w) \/ Refresh_Render(w) \/ Refresh_UpdateIntent(w)
    <2>1. UNCHANGED <<token, enrolledBy>>
      BY <1>1, RefreshFindDoes, RenderDoes, UpdateIntentDoes DEF Untouched
    <2>2. CASE req[w].op = "enroll"
      <3>1. /\ req'[w].op = "enroll" /\ req'[w].agent = req[w].agent
            /\ req'[w].pc \in {"refresh.Render", "refresh.UpdateIntent", "MarkUsed"}
        BY <1>1, <2>2, RefreshFindDoes, RenderDoes, UpdateIntentDoes DEF RefreshTargets
      <3> QED
        BY <2>1, <3>1, EnrollingSpent DEF LookupCalls
    <2>3. CASE req[w].op # "enroll"
      <3>1. req'[w].op \in {req[w].op, "idle"}
        BY <1>1, RefreshFindDoes, RenderDoes, UpdateIntentDoes, NoRequestIdle
      <3> QED
        BY <2>1, <2>3, <3>1, OthersSpent
    <2> QED
      BY <2>2, <2>3
  <1>2. CASE \/ AssignPolicy_Find(w) \/ AssignPolicy_Insert(w) \/ UnassignPolicy(w)
             \/ SetTrafficMode(w)
    BY <1>2, AssignDoes, UnassignDoes, SetTrafficModeDoes, OthersSpent
  <1>3. CASE UpdatePolicy(w) \/ UpdatePolicy_ListAssignments(w)
    BY <1>3, UpdatePolicyDoes, ListAssignmentsDoes, OthersSpent DEF Untouched, NoRequest
  <1> QED
    BY <1>1, <1>2, <1>3 DEF PolicyNext

LEMMA LifecycleKeepsSpent ==
    ASSUME Inv, NEW w \in Workers, SpentInv(w), LifecycleNext(w) \/ ReconcileNext(w)
    PROVE  SpentInv(w)'
  <1>1. CASE ChangeAgentState_FindAgent(w) \/ ChangeAgentState_FindPeer(w)
    BY <1>1, ChangeFindDoes, ChangeReadDoes, OthersSpent DEF Untouched, StateActions
  <1>2. CASE \/ ChangeAgentState_UpdateAgent(w) \/ Revoke_ClearAuthToken(w)
             \/ ChangeAgentState_UpdatePeer(w) \/ Revoke_ClearAssignedAddress(w)
             \/ ChangeAgentState_RemovePeer(w)
    BY <1>2, ChangeWriteDoes, OthersSpent DEF StateActions, Kept, NoRequest
  <1>3. CASE \/ CheckIn_FindAgent(w) \/ Rotate_FindAgent(w)
             \/ CheckIn_FindPeer(w) \/ CheckIn_FindByPublicKey(w)
             \/ CheckIn_UpdatePublicKey(w)
    <2>1. /\ req[w].op \in {"idle", "checkIn"}
          /\ req'[w].op \in {"idle", "checkIn", "rotate"}
      BY <1>3, VisitBeginDoes, CheckInDoes, UpdateKeyDoes, NoRequestIdle DEF Kept
    <2>2. UNCHANGED <<token, enrolledBy>>
      BY <1>3, VisitBeginDoes, CheckInDoes, UpdateKeyDoes DEF Untouched
    <2> QED
      BY <2>1, <2>2, OthersSpent
  <1>4. CASE Rotate_FindPeer(w) \/ Rotate_UpdateStatus(w)
    <2>1. /\ req[w].op = "rotate" /\ req'[w].op \in {"idle", "rotate"}
          /\ UNCHANGED <<token, enrolledBy>>
      BY <1>4, RotateDoes, NoRequestIdle DEF Kept
    <2> QED
      BY <2>1, OthersSpent
  <1>5. CASE ReconcileNext(w)
    <2>1. /\ req[w].op \in {"idle", "reconcile"}
          /\ req'[w].op \in {"idle", "reconcile"}
          /\ UNCHANGED <<token, enrolledBy>>
      BY <1>5, ReconcileDoes, NoRequestIdle DEF Kept
    <2> QED
      BY <2>1, OthersSpent
  <1> QED
    BY <1>1, <1>2, <1>3, <1>4, <1>5 DEF LifecycleNext

LEMMA StepKeepsSpent ==
    ASSUME ~Faults, Inv, NEW w \in Workers, SpentInv(w), WorkerNext(w)
    PROVE  SpentInv(w)'
  BY TokensKeepSpent, EnrollKeepsSpent, PolicyKeepsSpent, LifecycleKeepsSpent
  DEF WorkerNext, Abort

LEMMA InitFinished == Init => FinishedInv
  <1> SUFFICES ASSUME Init PROVE FinishedInv
    OBVIOUS
  <1>1. UniqueInv
    BY InitUnique
  <1> QED
    BY <1>1
    DEF Init, FinishedInv, RevokedAgents, SpentTokens, SingleUse, TokenReads, NoAgent, NoRequest

LEMMA NextFinished ==
    ASSUME Uninterrupted, Inv, FinishedInv, [Next]_vars
    PROVE  FinishedInv'
  <1>1. UniqueInv'
    BY NextUnique DEF Uninterrupted, FinishedInv
  <1>2. CASE \E w \in Workers : WorkerNext(w)
    <2>1. PICK w \in Workers : WorkerNext(w)
      BY <1>2
    <2>2. \A v \in Workers : v = w
      BY DEF Uninterrupted, OneAtATime
    <2>3. RevokedNow(w) /\ SpentInv(w)
      BY <2>2 DEF FinishedInv, RevokedAgents, RevokedNow, SpentTokens, SpentNow, SpentInv
    <2>4. RevokedNow(w)' /\ SpentInv(w)'
      BY <2>1, <2>3, StepKeepsRevoked, StepKeepsSpent DEF Uninterrupted, FinishedInv
    <2> QED
      BY <1>1, <2>2, <2>4
      DEF FinishedInv, RevokedAgents, RevokedNow, SpentTokens, SpentNow, SpentInv
  <1>3. CASE \E t \in Tokens : Expire(t)
    <2>1. PICK t \in Tokens : token' = [token EXCEPT ![t].expired = TRUE]
      BY <1>3 DEF Expire
    <2>2. \A u \in Tokens : token'[u].usedAt = token[u].usedAt
      BY <2>1 DEF Inv, TypeOK, TokenRow
    <2>3. UNCHANGED <<agent, peer, runtime, req, enrolledBy, kept>>
      BY <1>3 DEF Expire, history
    <2>4. SpentTokens'
      BY <2>2, <2>3 DEF FinishedInv, SpentTokens, Enrolling, Inv, TypeOK
    <2> QED
      BY <1>1, <2>3, <2>4
      DEF FinishedInv, RevokedAgents, Gone, Revoking, HasPeer, SingleUse, TokenReads
  <1>4. CASE UNCHANGED vars
    BY <1>1, <1>4
    DEF vars, tables, history, FinishedInv, RevokedAgents, Gone, Revoking, HasPeer,
        SpentTokens, Enrolling, SingleUse, TokenReads
  <1> QED
    BY <1>2, <1>3, <1>4 DEF Next, WorkerNext

\* Whatever a revocation or an enrollment has left to do it does before the
\* next request begins (ChangeAgentState, PerformEnrollment).
THEOREM FinishedInvariance ==
    ASSUME Uninterrupted
    PROVE  Spec => []FinishedInv
  <1>1. Init => FinishedInv
    BY InitFinished
  <1>2. Inv /\ FinishedInv /\ [Next]_vars => FinishedInv'
    BY NextFinished
  <1> QED
    BY <1>1, <1>2, Invariance, PTL DEF Spec

\* When no request is cut short, an agent that is revoked has no secret, no
\* unrevoked peer and no address once its revocation is over, whatever was done
\* to it before, and the current key of its peer is off the interface unless
\* the action had blanks around it (ChangeAgentState, handlePatchAgent).
THEOREM RevocationIsThorough ==
    ASSUME Uninterrupted
    PROVE  Spec => []RevokedLeavesNothing
  <1>1. FinishedInv => RevokedLeavesNothing
    BY DEF FinishedInv, RevokedAgents, Revoking, Gone, RevokedLeavesNothing, Quiet, NoRequest
  <1> QED
    BY <1>1, FinishedInvariance, PTL

\* When no request is cut short no token enrolls a second agent, though the
\* check of the token and its consumption are two calls (MarkUsed).
THEOREM TokensAreSingleUse ==
    ASSUME Uninterrupted
    PROVE  Spec => []SingleUse
  BY FinishedInvariance, PTL DEF FinishedInv

-----------------------------------------------------------------------------
(* Rendered intent.                                                        *)

RenderedNow(w) == \A a \in Agents : HasPeer(a) =>
    peer[a].ips = RenderAllowedIPs(a) \/ Owes(w, a)

\* What an agent's peer renders to depends on the agent's override, its
\* assignments and the policies assigned to it.
LEMMA SameRender ==
    ASSUME NEW a \in Agents,
           agent'[a].override = agent[a].override,
           \A p \in Policies : <<a, p>> \in assigned' <=> <<a, p>> \in assigned,
           \A p \in Policies : <<a, p>> \in assigned => policy'[p] = policy[p]
    PROVE  RenderAllowedIPs(a)' = RenderAllowedIPs(a)
  <1> DEFINE ps == {p \in Policies : <<a, p>> \in assigned}
             qs == {p \in Policies : <<a, p>> \in assigned'}
  <1>1. qs = ps
    OBVIOUS
  <1>2. {policy'[p].dests : p \in ps} = {policy[p].dests : p \in ps}
    OBVIOUS
  <1>3. (\E p \in ps : policy'[p].mode = "full_tunnel")
          <=> (\E p \in ps : policy[p].mode = "full_tunnel")
    OBVIOUS
  <1>4. EffectiveTrafficMode(a) =
          IF agent[a].override # "inherit" THEN agent[a].override
          ELSE IF \E p \in ps : policy[p].mode = "full_tunnel"
               THEN "full_tunnel" ELSE "standard"
    BY DEF EffectiveTrafficMode
  <1>5. EffectiveTrafficMode(a)' =
          IF agent'[a].override # "inherit" THEN agent'[a].override
          ELSE IF \E p \in qs : policy'[p].mode = "full_tunnel"
               THEN "full_tunnel" ELSE "standard"
    BY DEF EffectiveTrafficMode
  <1>6. EffectiveTrafficMode(a)' = EffectiveTrafficMode(a)
    BY <1>1, <1>3, <1>4, <1>5
  <1>7. RenderAllowedIPs(a) =
          IF EffectiveTrafficMode(a) = "full_tunnel" THEN {Internet}
          ELSE UNION {policy[p].dests : p \in ps}
    BY DEF RenderAllowedIPs
  <1>8. RenderAllowedIPs(a)' =
          IF EffectiveTrafficMode(a)' = "full_tunnel" THEN {Internet}
          ELSE UNION {policy'[p].dests : p \in qs}
    BY DEF RenderAllowedIPs
  <1> QED
    BY <1>1, <1>2, <1>6, <1>7, <1>8

\* A new agent without policies renders to nothing.
LEMMA NothingToRender ==
    ASSUME NEW a \in Agents, agent[a].override = "inherit",
           \A p \in Policies : <<a, p>> \notin assigned
    PROVE  RenderAllowedIPs(a) = {}
  <1>1. {p \in Policies : <<a, p>> \in assigned} = {}
    OBVIOUS
  <1> QED
    BY <1>1 DEF RenderAllowedIPs, EffectiveTrafficMode

\* Peers stay rendered when nothing they render from changes and whoever is
\* owed a refresh is still owed one.
LEMMA StillRendered ==
    ASSUME NEW w \in Workers, RenderedNow(w), UNCHANGED <<assigned, policy>>,
           \A a \in Agents : HasPeer(a)' =>
               /\ HasPeer(a)
               /\ peer'[a].ips = peer[a].ips
               /\ agent'[a].override = agent[a].override
               /\ Owes(w, a) => Owes(w, a)'
    PROVE  RenderedNow(w)'
  <1> SUFFICES ASSUME NEW a \in Agents, HasPeer(a)'
               PROVE  (peer[a].ips = RenderAllowedIPs(a))' \/ Owes(w, a)'
    BY DEF RenderedNow
  <1>1. RenderAllowedIPs(a)' = RenderAllowedIPs(a)
    BY SameRender
  <1> QED
    BY <1>1 DEF RenderedNow

RenderedAfter(w) == RenderedNow(w)' /\ RenderReads(w)'

\* Requests that are not about policies only have to leave the intent alone.
LEMMA OthersRendered ==
    ASSUME NEW w \in Workers, RenderedNow(w), Inv',
           req[w].op \notin RefreshOps, req'[w].op \notin RefreshOps,
           UNCHANGED <<assigned, policy>>,
           \A a \in Agents : HasPeer(a)' =>
               /\ HasPeer(a)
               /\ peer'[a].ips = peer[a].ips
               /\ agent'[a].override = agent[a].override
    PROVE  RenderedAfter(w)
  <1>1. RenderedNow(w)'
    BY StillRendered DEF Owes, RefreshOps
  <1>2. RenderReads(w)'
    BY DEF Inv, RequestOK, RefreshLocal, RefreshCalls, RefreshOps, RenderReads, At
  <1> QED
    BY <1>1, <1>2 DEF RenderedAfter

\* Whatever is assigned is assigned to an agent that exists.
LEMMA StepKeepsAssigned ==
    ASSUME ~Faults, Inv, RowsKept, AssignedExist, NEW w \in Workers, RenderReads(w),
           WorkerNext(w)
    PROVE  AssignedExist'
  <1>1. \A a \in Agents : HasAgent(a) => HasAgent(a)'
    BY DEF RowsKept
  <1>2. \/ assigned' \subseteq assigned
        \/ \E p : /\ assigned' = assigned \union {<<req[w].agent, p>>}
                  /\ HasAgent(req[w].agent)
    <2>1. CASE EnrollmentNext(w)
      <3>1. CASE Enroll_AssignPolicies(w)
        <4>1. HasAgent(req[w].agent)
          BY <3>1, AssignPoliciesDoes DEF Inv, RequestOK, EnrollLocal, LookupCalls
        <4> QED
          BY <3>1, <4>1, AssignPoliciesDoes
      <3>2. CASE ~Enroll_AssignPolicies(w)
        BY <2>1, <3>2, TokenStepDoes, FindByHashDoes, LookupDoes, InsertAgentDoes,
           InsertPeerDoes, MarkUsedDoes
        DEF EnrollmentNext, TokenStep, Untouched
      <3> QED
        BY <3>1, <3>2
    <2>2. CASE PolicyNext(w)
      <3>1. CASE AssignPolicy_Find(w) \/ AssignPolicy_Insert(w)
        BY <3>1, AssignDoes DEF RenderReads
      <3>2. CASE UnassignPolicy(w)
        BY <3>2, UnassignDoes
      <3>3. CASE \/ Refresh_FindPeer(w) \/ Refresh_Render(w) \/ Refresh_UpdateIntent(w)
                 \/ SetTrafficMode(w) \/ UpdatePolicy(w) \/ UpdatePolicy_ListAssignments(w)
        BY <3>3, RefreshFindDoes, RenderDoes, UpdateIntentDoes, SetTrafficModeDoes,
           UpdatePolicyDoes, ListAssignmentsDoes
        DEF Untouched
      <3> QED
        BY <2>2, <3>1, <3>2, <3>3 DEF PolicyNext
    <2>3. CASE LifecycleNext(w)
      BY <2>3, ChangeFindDoes, ChangeReadDoes, ChangeWriteDoes, VisitBeginDoes, CheckInDoes,
         UpdateKeyDoes, RotateDoes
      DEF LifecycleNext, Untouched
    <2>4. CASE ReconcileNext(w)
      BY <2>4, ReconcileDoes
    <2> QED
      BY <2>1, <2>2, <2>3, <2>4 DEF WorkerNext, Abort
  <1> QED
    BY <1>1, <1>2 DEF AssignedExist

LEMMA LifecycleKeepsRendered ==
    ASSUME Inv, Inv', NEW w \in Workers, RenderedNow(w), LifecycleNext(w) \/ ReconcileNext(w)
    PROVE  RenderedAfter(w)
  <1>0. TypeOK /\ RequestOK(w)
    BY DEF Inv
  <1> DEFINE a == req[w].agent
  <1>1. CASE ChangeAgentState_FindAgent(w) \/ ChangeAgentState_FindPeer(w)
    BY <1>1, ChangeFindDoes, ChangeReadDoes, OthersRendered
    DEF Untouched, StateActions, RefreshOps, HasPeer
  <1>2. CASE \/ ChangeAgentState_UpdateAgent(w) \/ Revoke_ClearAuthToken(w)
             \/ ChangeAgentState_UpdatePeer(w) \/ Revoke_ClearAssignedAddress(w)
             \/ ChangeAgentState_RemovePeer(w)
    <2>1. /\ req[w].op \in StateActions /\ req'[w].op \in StateActions \union {"idle"}
          /\ UNCHANGED <<assigned, policy>>
      BY <1>2, ChangeWriteDoes, NoRequestIdle DEF Kept
    <2>2. a \in Agents
      BY <1>0, <2>1 DEF RequestOK, AgentLocal, AgentOps
    <2>3. ASSUME NEW b \in Agents
          PROVE  agent'[b].override = agent[b].override
      <3>1. CASE agent' = agent
        BY <3>1
      <3>2. CASE agent' = [agent EXCEPT ![a].status = AgentStatusAfter(req[w].op)]
        BY <1>0, <3>2 DEF TypeOK, AgentRow
      <3>3. CASE agent' = [agent EXCEPT ![a].auth = FALSE]
        BY <1>0, <3>3 DEF TypeOK, AgentRow
      <3> QED
        BY <1>2, <3>1, <3>2, <3>3, UpdateAgentDoes, ClearAuthDoes, UpdatePeerDoes,
           ClearAddressDoes, RemovePeerDoes
    <2>4. ASSUME NEW b \in Agents, HasPeer(b)'
          PROVE  HasPeer(b) /\ peer'[b].ips = peer[b].ips
      <3>1. CASE peer' = peer
        BY <2>4, <3>1 DEF HasPeer
      <3>2. CASE ChangeAgentState_UpdatePeer(w)
        <4>1. /\ req[w].pc = "UpdatePeerStatus"
              /\ peer' = [peer EXCEPT ![a].status = PeerStatusAfter(req[w].op)]
          BY <3>2, UpdatePeerDoes
        <4>2. HasPeer(a)
          BY <1>0, <4>1 DEF RequestOK, PeerLocal
        <4>3. peer'[b].ips = peer[b].ips /\ (b # a => peer'[b] = peer[b])
          BY <1>0, <4>1 DEF TypeOK, PeerRow
        <4> QED
          BY <2>4, <4>2, <4>3 DEF HasPeer
      <3>3. CASE Revoke_ClearAssignedAddress(w)
        <4>1. peer' = [peer EXCEPT ![a].addr = NoAddress]
          BY <3>3, ClearAddressDoes
        <4>2. peer'[b].ips = peer[b].ips /\ peer'[b].status = peer[b].status
          BY <1>0, <4>1 DEF TypeOK, PeerRow
        <4> QED
          BY <2>4, <4>2 DEF HasPeer
      <3> QED
        BY <1>2, <3>1, <3>2, <3>3, UpdateAgentDoes, ClearAuthDoes, RemovePeerDoes
    <2> QED
      BY <2>1, <2>3, <2>4, OthersRendered DEF StateActions, RefreshOps
  <1>3. CASE \/ CheckIn_FindAgent(w) \/ Rotate_FindAgent(w)
             \/ CheckIn_FindPeer(w) \/ CheckIn_FindByPublicKey(w)
    <2>1. /\ req[w].op \in {"idle", "checkIn"}
          /\ req'[w].op \in {"idle", "checkIn", "rotate"}
          /\ UNCHANGED <<agent, peer, assigned, policy>>
      BY <1>3, VisitBeginDoes, CheckInDoes, NoRequestIdle DEF Kept, Untouched
    <2> QED
      BY <2>1, OthersRendered DEF RefreshOps, HasPeer
  <1>4. CASE CheckIn_UpdatePublicKey(w)
    <2>1. /\ req[w].op = "checkIn" /\ req'[w] = NoRequest
          /\ peer' = [peer EXCEPT ![a].key = req[w].key, ![a].status = "planned"]
          /\ UNCHANGED <<agent, assigned, policy>>
      BY <1>4, UpdateKeyDoes
    <2>2. a \in Agents /\ HasPeer(a)
      BY <1>0, <2>1 DEF RequestOK, AgentLocal, AgentOps, CheckInLocal
    <2>3. \A b \in Agents :
            peer'[b].ips = peer[b].ips /\ (b # a => peer'[b] = peer[b])
      BY <1>0, <2>1, <2>2 DEF TypeOK, PeerRow
    <2> QED
      BY <2>1, <2>2, <2>3, OthersRendered, NoRequestIdle DEF RefreshOps, HasPeer
  <1>5. CASE Rotate_FindPeer(w) \/ Rotate_UpdateStatus(w)
    <2>1. /\ req[w].op = "rotate" /\ req'[w].op \in {"idle", "rotate"}
          /\ UNCHANGED <<agent, assigned, policy>>
      BY <1>5, RotateDoes, NoRequestIdle DEF Kept
    <2>2. CASE peer' = peer
      BY <2>1, <2>2, OthersRendered DEF RefreshOps, HasPeer
    <2>3. CASE /\ req[w].pc = "UpdatePeerStatus"
               /\ peer' = [peer EXCEPT ![a].status = "rotation_pending"]
      <3>1. HasPeer(a)
        BY <1>0, <2>3 DEF RequestOK, PeerLocal
      <3>2. \A b \in Agents :
              peer'[b].ips = peer[b].ips /\ (b # a => peer'[b] = peer[b])
        BY <1>0, <2>3 DEF TypeOK, PeerRow
      <3> QED
        BY <2>1, <3>1, <3>2, OthersRendered DEF RefreshOps, HasPeer
    <2> QED
      BY <1>5, <2>2, <2>3, RotateDoes
  <1>6. CASE ReconcileNext(w)
    <2>1. /\ req[w].op \in {"idle", "reconcile"} /\ req'[w].op \in {"idle", "reconcile"}
          /\ UNCHANGED <<agent, assigned, policy>>
      BY <1>6, ReconcileDoes, NoRequestIdle DEF Kept
    <2>2. CASE peer' = peer
      BY <2>1, <2>2, OthersRendered DEF RefreshOps, HasPeer
    <2>3. CASE /\ req[w].pc = "UpdatePeerStatus"
               /\ peer' = [peer EXCEPT ![a].status = "active"]
      <3>1. HasPeer(a)
        BY <1>0, <2>3 DEF RequestOK, PeerLocal
      <3>2. \A b \in Agents :
              peer'[b].ips = peer[b].ips /\ (b # a => peer'[b] = peer[b])
        BY <1>0, <2>3 DEF TypeOK, PeerRow
      <3> QED
        BY <2>1, <3>1, <3>2, OthersRendered DEF RefreshOps, HasPeer
    <2> QED
      BY <1>6, <2>2, <2>3, ReconcileDoes
  <1> QED
    BY <1>1, <1>2, <1>3, <1>4, <1>5, <1>6 DEF LifecycleNext

LEMMA EnrollKeepsRendered ==
    ASSUME Inv, Inv', NEW w \in Workers, RenderedNow(w), RenderReads(w), AssignedExist,
           EnrollmentNext(w)
    PROVE  RenderedAfter(w)
  <1> USE DEF RenderedAfter
  <1>0. TypeOK /\ RequestOK(w) /\ Rows
    BY DEF Inv
  <1>1. CASE TokenStep(w)
    <2>1. \A a \in Agents : ~Owes(w, a)
      BY <1>1, TokenStepDoes DEF TokenRequests, Owes, RefreshCalls
    <2>2. RenderedNow(w)'
      BY <1>1, <2>1, TokenStepDoes, StillRendered DEF Untouched, HasPeer
    <2>3. RenderReads(w)'
      BY <1>1, TokenStepDoes DEF TokenRequests, RenderReads, At
    <2> QED
      BY <2>2, <2>3
  <1>2. CASE \/ Enroll_FindByHash(w) \/ Enroll_FindByHostname(w)
             \/ Enroll_FindByPublicKey(w) \/ Enroll_AllocateAddress(w)
             \/ Enroll_MarkUsed(w) \/ Enroll_BuildConfig(w)
    <2>1. /\ req[w].op \in {"idle", "enroll"}
          /\ req[w].op = "enroll" =>
                 req[w].pc \in LookupCalls \union {"MarkUsed", "BuildConfig"}
          /\ UNCHANGED <<agent, peer, assigned, policy>>
      BY <1>2, FindByHashDoes, LookupDoes, MarkUsedDoes DEF Untouched
    <2>2. /\ req'[w].op \in {"idle", "enroll"}
          /\ req'[w].op = "enroll" => req'[w].pc \notin {"InsertPeer", "refresh.UpdateIntent"}
      BY <1>2, FindByHashDoes, LookupDoes, MarkUsedDoes, NoRequestIdle DEF Kept
    <2>3. RenderedNow(w)'
      BY <2>1, StillRendered DEF Owes, HasPeer, LookupCalls, RefreshCalls
    <2>4. RenderReads(w)'
      BY <2>2 DEF RenderReads, At, Inv, RequestOK, RefreshLocal, RefreshCalls, RefreshOps
    <2> QED
      BY <2>3, <2>4
  <1>3. CASE Enroll_InsertAgent(w)
    <2>1. PICK a \in Agents :
            /\ a = req'[w].agent /\ ~HasAgent(a)
            /\ agent' = [agent EXCEPT ![a] =
                   [host |-> req[w].host, status |-> "enrolled", auth |-> TRUE,
                    override |-> "inherit"]]
      BY <1>3, InsertAgentDoes
    <2>2. /\ req[w].op = "enroll" /\ req[w].pc = "InsertAgent"
          /\ req'[w].op = "enroll" /\ req'[w].pc = "InsertPeer"
          /\ UNCHANGED <<peer, assigned, policy>>
      BY <1>3, InsertAgentDoes
    <2>3. /\ agent'[a].override = "inherit"
          /\ \A b \in Agents \ {a} : agent'[b] = agent[b]
      BY <1>0, <2>1 DEF TypeOK
    <2>4. ~HasPeer(a) /\ \A p \in Policies : <<a, p>> \notin assigned
      BY <1>0, <2>1 DEF Rows, AssignedExist
    <2>5. RenderedNow(w)'
      BY <2>2, <2>3, <2>4, StillRendered DEF Owes, HasPeer, RefreshCalls
    <2>6. RenderReads(w)'
      BY <2>1, <2>2, <2>3, <2>4 DEF RenderReads
    <2> QED
      BY <2>5, <2>6
  <1>4. CASE Enroll_InsertPeer(w)
    <2>1. PICK a : a = req[w].agent
      OBVIOUS
    <2>2. /\ req[w].op = "enroll" /\ req[w].pc = "InsertPeer"
          /\ req'[w].op = "enroll" /\ req'[w].pc \in {"MarkUsed", "AssignPolicies"}
          /\ peer' = [peer EXCEPT ![a] =
                 [key |-> req[w].key, addr |-> req[w].addr, ips |-> {},
                  status |-> "planned", older |-> {b \in Agents : HasPeer(b)}]]
          /\ UNCHANGED <<agent, assigned, policy>>
      BY <1>4, <2>1, InsertPeerDoes DEF Kept
    <2>3. /\ a \in Agents /\ agent[a].override = "inherit"
          /\ \A p \in Policies : <<a, p>> \notin assigned
      BY <1>0, <2>1, <2>2 DEF RequestOK, EnrollLocal, LookupCalls, RenderReads, At
    <2>4. peer'[a].ips = {} /\ \A b \in Agents \ {a} : peer'[b] = peer[b]
      BY <1>0, <2>2, <2>3 DEF TypeOK
    <2>5. \A b \in Agents : RenderAllowedIPs(b)' = RenderAllowedIPs(b)
      BY <2>2, SameRender
    <2>6. \A b \in Agents : ~Owes(w, b)
      BY <2>2 DEF Owes, RefreshCalls
    <2>7. RenderedNow(w)'
      BY <2>3, <2>4, <2>5, <2>6, NothingToRender DEF RenderedNow, HasPeer
    <2>8. RenderReads(w)'
      BY <2>2 DEF RenderReads, At
    <2> QED
      BY <2>7, <2>8
  <1>5. CASE Enroll_AssignPolicies(w)
    <2>1. PICK a, p : a = req[w].agent /\ assigned' = assigned \union {<<a, p>>}
      BY <1>5, AssignPoliciesDoes
    <2>2. /\ req[w].op = "enroll" /\ req[w].pc = "AssignPolicies"
          /\ req'[w].op = "enroll" /\ req'[w].pc \in {"AssignPolicies", "refresh.FindPeer"}
          /\ req'[w].agent = a
          /\ UNCHANGED <<agent, peer, policy>>
      BY <1>5, <2>1, AssignPoliciesDoes DEF Kept
    <2>3. \A b \in Agents : b # a => RenderAllowedIPs(b)' = RenderAllowedIPs(b) /\ ~Owes(w, b)
      BY <2>1, <2>2, SameRender DEF Owes
    <2>4. \A b \in Agents : b = a => Owes(w, b)'
      BY <2>2 DEF Owes, RefreshCalls
    <2>5. RenderedNow(w)'
      BY <2>2, <2>3, <2>4 DEF RenderedNow, HasPeer
    <2>6. RenderReads(w)'
      BY <2>2 DEF RenderReads, At
    <2> QED
      BY <2>5, <2>6
  <1> QED
    BY <1>1, <1>2, <1>3, <1>4, <1>5 DEF EnrollmentNext, TokenStep

LEMMA RefreshKeepsRendered ==
    ASSUME Inv, Inv', NEW w \in Workers, RenderedNow(w), RenderReads(w),
           \/ Refresh_FindPeer(w) \/ Refresh_Render(w) \/ Refresh_UpdateIntent(w)
    PROVE  RenderedAfter(w)
  <1> USE DEF RenderedAfter
  <1>0. TypeOK /\ RequestOK(w)
    BY DEF Inv
  <1>1. CASE Refresh_FindPeer(w)
    <2>1. /\ req[w].op \in RefreshOps /\ req[w].pc = "refresh.FindPeer"
          /\ UNCHANGED <<agent, peer, assigned, policy>>
      BY <1>1, RefreshFindDoes DEF Untouched
    <2>2. PICK a \in RefreshTargets(w) :
              \/ /\ HasPeer(a)
                 /\ req'[w].op = req[w].op /\ req'[w].pc = "refresh.Render"
                 /\ req'[w].agent = a
                 /\ req'[w].todoAgents = req[w].todoAgents \ {a}
              \/ /\ ~HasPeer(a)
                 /\ \/ /\ req'[w].op = req[w].op /\ req'[w].pc = req[w].pc
                       /\ req'[w].agent = req[w].agent
                       /\ req'[w].todoAgents = req[w].todoAgents \ {a}
                    \/ req'[w] = NoRequest /\ req[w].todoAgents \ {a} = {}
      BY <1>1, RefreshFindDoes
    <2>3. ASSUME NEW b \in Agents, HasPeer(b), Owes(w, b)
          PROVE  Owes(w, b)'
      <3>1. CASE req[w].op = "updatePolicy"
        <4>1. b \in req[w].todoAgents
          BY <2>1, <2>3, <3>1 DEF Owes, RefreshCalls
        <4> QED
          BY <2>1, <2>2, <2>3, <3>1, <4>1 DEF Owes, RefreshCalls
      <3>2. CASE req[w].op # "updatePolicy"
        <4>1. a = req[w].agent /\ b = a /\ req[w].op \in {"enroll", "assign", "unassign", "trafficMode"}
          BY <2>1, <2>3, <3>2 DEF Owes, RefreshTargets, RefreshOps
        <4> QED
          BY <2>1, <2>2, <2>3, <4>1 DEF Owes, RefreshCalls
      <3> QED
        BY <3>1, <3>2
    <2>4. RenderedNow(w)'
      BY <2>1, <2>3, StillRendered DEF HasPeer
    <2>5. RenderReads(w)'
      <3>1. req'[w].pc \in {"refresh.Render", "refresh.FindPeer", "idle"}
        BY <2>1, <2>2, NoRequestIdle
      <3>2. ASSUME req'[w].op = "assign"
            PROVE  HasAgent(req'[w].agent)
        <4>1. req[w].op = "assign" /\ req'[w].agent = req[w].agent
          BY <2>2, <3>2, NoRequestIdle DEF RefreshTargets
        <4> QED
          BY <4>1 DEF RenderReads
      <3> QED
        BY <2>1, <3>1, <3>2 DEF RenderReads, At, HasAgent
    <2> QED
      BY <2>4, <2>5
  <1>2. CASE Refresh_Render(w)
    <2>1. /\ req[w].op \in RefreshOps /\ req[w].pc = "refresh.Render"
          /\ req'[w].op = req[w].op /\ req'[w].pc = "refresh.UpdateIntent"
          /\ req'[w].agent = req[w].agent
          /\ req'[w].todoAgents = req[w].todoAgents
          /\ req'[w].ips = RenderAllowedIPs(req[w].agent)
          /\ UNCHANGED <<agent, peer, assigned, policy>>
      BY <1>2, RenderDoes DEF Untouched
    <2>2. \A b \in Agents : Owes(w, b) => Owes(w, b)'
      BY <2>1 DEF Owes, RefreshCalls
    <2>3. RenderedNow(w)'
      BY <2>1, <2>2, StillRendered DEF HasPeer
    <2>4. req[w].agent \in Agents
      BY <1>0, <2>1 DEF RequestOK, RefreshLocal
    <2>5. PICK a \in Agents : a = req[w].agent
      BY <2>4
    <2>6. RenderAllowedIPs(a)' = RenderAllowedIPs(a)
      BY <2>1, SameRender
    <2>7. \A b \in Agents : b = a => req'[w].ips = RenderAllowedIPs(b)'
      BY <2>1, <2>5, <2>6
    <2>8. RenderReads(w)'
      BY <2>1, <2>5, <2>7 DEF RenderReads, At, HasAgent
    <2> QED
      BY <2>3, <2>8
  <1>3. CASE Refresh_UpdateIntent(w)
    <2>1. req[w].op \in RefreshOps /\ req[w].pc = "refresh.UpdateIntent"
      BY <1>3, UpdateIntentDoes
    <2>2. PICK a \in Agents : a = req[w].agent
      BY <1>0, <2>1 DEF RequestOK, RefreshLocal
    <2>3. PICK s :
            /\ peer' = [peer EXCEPT ![a].ips = req[w].ips, ![a].status = s]
            /\ UNCHANGED <<agent, assigned, policy>>
      BY <1>3, <2>2, UpdateIntentDoes
    <2>4. /\ peer'[a].ips = req[w].ips
          /\ \A b \in Agents \ {a} : peer'[b] = peer[b]
      BY <1>0, <2>3 DEF TypeOK, PeerRow
    <2>5. \A b \in Agents : RenderAllowedIPs(b)' = RenderAllowedIPs(b)
      BY <2>3, SameRender
    <2>6. peer'[a].ips = RenderAllowedIPs(a)'
      BY <2>1, <2>2, <2>4, <2>5 DEF RenderReads
    <2>7. ASSUME NEW b \in Agents, b # a, Owes(w, b)
          PROVE  Owes(w, b)'
      <3>1. /\ req[w].op = "updatePolicy" /\ b \in req[w].todoAgents
        BY <2>1, <2>2, <2>7 DEF Owes, RefreshCalls
      <3> QED
        BY <1>3, <3>1, UpdateIntentDoes DEF Owes, RefreshCalls
    <2>8. RenderedNow(w)'
      BY <2>4, <2>5, <2>6, <2>7 DEF RenderedNow, HasPeer
    <2>9. RenderReads(w)'
      <3>1. req'[w].pc \in {"MarkUsed", "refresh.FindPeer", "idle"}
        BY <1>3, UpdateIntentDoes, NoRequestIdle
      <3>2. req'[w].op = "assign" => req[w].op = "assign" /\ req'[w].agent = req[w].agent
        BY <1>3, UpdateIntentDoes, NoRequestIdle
      <3> QED
        BY <2>3, <3>1, <3>2 DEF RenderReads, At, HasAgent
    <2> QED
      BY <2>8, <2>9
  <1> QED
    BY <1>1, <1>2, <1>3

LEMMA PolicyKeepsRendered ==
    ASSUME Inv, Inv', RowsKept, NEW w \in Workers, RenderedNow(w), RenderReads(w),
           AssignedExist, PolicyNext(w)
    PROVE  RenderedAfter(w)
  <1> USE DEF RenderedAfter
  <1>0. TypeOK /\ RequestOK(w)
    BY DEF Inv
  <1>1. CASE AssignPolicy_Find(w) \/ AssignPolicy_Insert(w)
    <2>1. PICK a \in Agents : a = req'[w].agent
      BY <1>1, AssignDoes
    <2>2. req'[w].op = "assign" /\ UNCHANGED <<agent, peer, policy>>
      BY <1>1, AssignDoes
    <2>3. CASE /\ req[w].op = "idle" /\ req'[w].pc = "InsertAssignment" /\ HasAgent(a)
               /\ assigned' = assigned
      <3>1. RenderedNow(w)'
        BY <2>2, <2>3, StillRendered DEF Owes, HasPeer
      <3>2. RenderReads(w)'
        BY <2>1, <2>2, <2>3 DEF RenderReads, At, HasAgent
      <3> QED
        BY <3>1, <3>2
    <2>4. CASE /\ req[w].op = "assign" /\ req[w].pc = "InsertAssignment"
               /\ req'[w].pc = "refresh.FindPeer" /\ a = req[w].agent
               /\ assigned' = assigned \union {<<a, req[w].policy>>}
      <3>1. \A b \in Agents : b # a => RenderAllowedIPs(b)' = RenderAllowedIPs(b)
        BY <2>2, <2>4, SameRender
      <3>2. Owes(w, a)' /\ \A b \in Agents : ~Owes(w, b)
        BY <2>1, <2>2, <2>4 DEF Owes, RefreshCalls
      <3>3. RenderedNow(w)'
        BY <2>2, <3>1, <3>2 DEF RenderedNow, HasPeer
      <3>4. RenderReads(w)'
        BY <2>1, <2>2, <2>4 DEF RenderReads, At, HasAgent
      <3> QED
        BY <3>3, <3>4
    <2> QED
      BY <1>1, <2>1, <2>3, <2>4, AssignDoes
  <1>2. CASE UnassignPolicy(w)
    <2>1. PICK a \in Agents :
            a = req'[w].agent /\ \E p : assigned' = assigned \ {<<a, p>>}
      BY <1>2, UnassignDoes
    <2>2. /\ req[w].op = "idle" /\ req'[w].op = "unassign" /\ req'[w].pc = "refresh.FindPeer"
          /\ UNCHANGED <<agent, peer, policy>>
      BY <1>2, UnassignDoes
    <2>3. \A b \in Agents : b # a => RenderAllowedIPs(b)' = RenderAllowedIPs(b)
      BY <2>1, <2>2, SameRender
    <2>4. Owes(w, a)' /\ \A b \in Agents : ~Owes(w, b)
      BY <2>1, <2>2 DEF Owes, RefreshCalls
    <2>5. RenderedNow(w)'
      BY <2>2, <2>3, <2>4 DEF RenderedNow, HasPeer
    <2> QED
      BY <2>2, <2>5 DEF RenderReads, At
  <1>3. CASE SetTrafficMode(w)
    <2>1. PICK a \in Agents :
            a = req'[w].agent /\ \E mode : agent' = [agent EXCEPT ![a].override = mode]
      BY <1>3, SetTrafficModeDoes
    <2>2. /\ req[w].op = "idle" /\ req'[w].op = "trafficMode" /\ req'[w].pc = "refresh.FindPeer"
          /\ UNCHANGED <<peer, policy, assigned>>
      BY <1>3, SetTrafficModeDoes
    <2>3. \A b \in Agents : b # a => agent'[b] = agent[b]
      BY <1>0, <2>1 DEF TypeOK
    <2>4. \A b \in Agents : b # a => RenderAllowedIPs(b)' = RenderAllowedIPs(b)
      BY <2>2, <2>3, SameRender
    <2>5. Owes(w, a)' /\ \A b \in Agents : ~Owes(w, b)
      BY <2>1, <2>2 DEF Owes, RefreshCalls
    <2>6. RenderedNow(w)'
      BY <2>2, <2>4, <2>5 DEF RenderedNow, HasPeer
    <2> QED
      BY <2>2, <2>6 DEF RenderReads, At
  <1>4. CASE UpdatePolicy(w)
    <2>1. PICK p : p = req'[w].policy
      OBVIOUS
    <2>2. /\ req[w].op = "idle" /\ req'[w].op = "updatePolicy" /\ req'[w].pc = "ListByPolicyID"
          /\ \A q \in Policies \ {p} : policy'[q] = policy[q]
          /\ UNCHANGED <<agent, peer, assigned>>
      BY <1>4, <2>1, UpdatePolicyDoes
    <2>3. ASSUME NEW a \in Agents
          PROVE  Owes(w, a)' \/ RenderAllowedIPs(a)' = RenderAllowedIPs(a)
      <3>1. CASE <<a, p>> \in assigned
        BY <2>1, <2>2, <3>1 DEF Owes
      <3>2. CASE <<a, p>> \notin assigned
        BY <2>2, <3>2, SameRender
      <3> QED
        BY <3>1, <3>2
    <2>4. \A a \in Agents : ~Owes(w, a)
      BY <2>2 DEF Owes
    <2>5. RenderedNow(w)'
      BY <2>2, <2>3, <2>4 DEF RenderedNow, HasPeer
    <2> QED
      BY <2>2, <2>5 DEF RenderReads, At
  <1>5. CASE UpdatePolicy_ListAssignments(w)
    <2>1. /\ req[w].op = "updatePolicy" /\ req[w].pc = "ListByPolicyID"
          /\ UNCHANGED <<agent, peer, policy, assigned>>
      BY <1>5, ListAssignmentsDoes DEF Untouched
    <2>2. ASSUME NEW a \in Agents, Owes(w, a)
          PROVE  Owes(w, a)'
      <3>1. <<a, req[w].policy>> \in assigned
        BY <2>1, <2>2 DEF Owes, RefreshCalls
      <3> QED
        BY <1>5, <3>1, ListAssignmentsDoes DEF Owes, RefreshCalls
    <2>3. RenderedNow(w)'
      BY <2>1, <2>2, StillRendered DEF HasPeer
    <2>4. req'[w].op \in {"idle", "updatePolicy"} /\ req'[w].pc \in {"idle", "refresh.FindPeer"}
      BY <1>5, ListAssignmentsDoes, NoRequestIdle
    <2> QED
      BY <2>3, <2>4 DEF RenderReads, At
  <1> QED
    BY <1>1, <1>2, <1>3, <1>4, <1>5, RefreshKeepsRendered DEF PolicyNext

LEMMA InitRendered == Init => RenderedInv
  BY DEF Init, RenderedInv, AssignedExist, RenderedPeers, RenderReads, HasPeer, NoPeer,
         NoRequest, At

LEMMA NextRendered ==
    ASSUME Uninterrupted, Inv, Inv', RenderedInv, [Next]_vars
    PROVE  RenderedInv'
  <1>1. CASE \E w \in Workers : WorkerNext(w)
    <2>1. PICK w \in Workers : WorkerNext(w)
      BY <1>1
    <2>2. \A v \in Workers : v = w
      BY DEF Uninterrupted, OneAtATime
    <2>3. RenderedNow(w) /\ RenderReads(w) /\ AssignedExist
      BY <2>2 DEF RenderedInv, RenderedPeers, RenderedNow
    <2>4. RowsKept /\ ~Faults
      BY NextKeepsRows DEF Uninterrupted
    <2>5. AssignedExist'
      BY <2>1, <2>3, <2>4, StepKeepsAssigned
    <2>6. RenderedAfter(w)
      BY <2>1, <2>3, <2>4, EnrollKeepsRendered, PolicyKeepsRendered, LifecycleKeepsRendered
      DEF WorkerNext, Abort
    <2> QED
      BY <2>2, <2>5, <2>6 DEF RenderedAfter, RenderedInv, RenderedPeers, RenderedNow
  <1>2. CASE UNCHANGED <<agent, peer, policy, assigned, req>>
    <2>1. \A a \in Agents : RenderAllowedIPs(a)' = RenderAllowedIPs(a)
      BY <1>2, SameRender
    <2>2. \A w \in Workers : RenderReads(w)'
      BY <1>2, <2>1 DEF RenderedInv, RenderReads, HasAgent, At
    <2> QED
      BY <1>2, <2>1, <2>2 DEF RenderedInv, AssignedExist, RenderedPeers, HasPeer, HasAgent, Owes
  <1> QED
    BY <1>1, <1>2 DEF Next, WorkerNext, Expire, vars, tables

\* An agent whose intent is not what its policies render to is still on the
\* list of the refresh under way (RefreshPeerIntents).
THEOREM RenderedInvariance ==
    ASSUME Uninterrupted
    PROVE  Spec => []RenderedInv
  <1>1. Init => RenderedInv
    BY InitRendered
  <1>2. Inv /\ Inv' /\ RenderedInv /\ [Next]_vars => RenderedInv'
    BY NextRendered
  <1> QED
    BY <1>1, <1>2, Invariance, PTL DEF Spec

\* When no request is cut short, the AllowedIPs stored for a peer are what its
\* agent's override, assignments and policies render to whenever the server is
\* between requests (refreshPeerIntentForAgent after every change).
THEOREM IntentFollowsPolicies ==
    ASSUME Uninterrupted
    PROVE  Spec => []IntentIsRendered
  <1>1. RenderedInv => IntentIsRendered
    BY NoRequestIdle DEF RenderedInv, RenderedPeers, Owes, IntentIsRendered, Quiet
  <1> QED
    BY <1>1, RenderedInvariance, PTL
=============================================================================
