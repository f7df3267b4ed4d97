----------------------------- MODULE PolicyIntent -----------------------------
(***************************************************************************)
(* internal/policy: access policies, their assignment to agents and the    *)
(* peer intent (AllowedIPs and status) rendered from them.                 *)
(*                                                                         *)
(* Every change ends in refreshPeerIntentForAgent, three separate calls:   *)
(* read the peer, render from the agent, its assignments and the policies, *)
(* write AllowedIPs and a status computed from the peer read first.        *)
(***************************************************************************)
EXTENDS Store

\* effectiveTrafficMode over the agent's override and assigned policies.
EffectiveTrafficMode(a) ==
    LET assignedTo == {p \in Policies : <<a, p>> \in assigned} IN
    IF agent[a].override # "inherit" THEN agent[a].override
    ELSE IF \E p \in assignedTo : policy[p].mode = "full_tunnel"
         THEN "full_tunnel" ELSE "standard"

\* renderAllowedIPsForPolicies: everything, or the union of the destinations.
RenderAllowedIPs(a) ==
    IF EffectiveTrafficMode(a) = "full_tunnel" THEN {Internet}
    ELSE UNION {policy[p].dests : p \in {q \in Policies : <<a, q>> \in assigned}}

\* An intent that changes needs another reconcile; any other status is kept.
IntentStatus(status) ==
    IF status \in {"active", "rotation_pending"} THEN "planned" ELSE status

-----------------------------------------------------------------------------
(* refreshPeerIntentForAgent                                               *)

\* Mutant: an update of a policy stops after its first agent.
AfterRefresh_FirstOnly(w) ==
    IF req[w].op = "enroll" THEN Continue(w, "MarkUsed") ELSE Answer(w)

\* The next call of a request once one agent's intent has been refreshed.
AfterRefresh(w) ==
    IF req[w].op = "enroll" THEN Continue(w, "MarkUsed")
    ELSE IF req[w].todoAgents # {}
         THEN Step(w, [req[w] EXCEPT !.pc = "refresh.FindPeer",
                                     !.status = "absent", !.ips = {}])
         ELSE Answer(w)

\* UpdatePolicy takes its next assigned agent, the others have but one.
RefreshTargets(w) ==
    IF req[w].op = "updatePolicy" THEN req[w].todoAgents ELSE {req[w].agent}

Refresh_FindPeer(w) ==
    /\ req[w].pc = "refresh.FindPeer"
    /\ \E a \in RefreshTargets(w) :
        IF HasPeer(a)
        THEN Step(w, [req[w] EXCEPT !.pc = "refresh.Render", !.agent = a,
                                    !.status = peer[a].status,
                                    !.todoAgents = @ \ {a}])
        ELSE \* no peer: this agent needs no refresh
             IF req[w].op = "enroll" THEN Continue(w, "MarkUsed")
             ELSE IF req[w].todoAgents \ {a} # {}
                  THEN Step(w, [req[w] EXCEPT !.todoAgents = @ \ {a}])
                  ELSE Answer(w)
    /\ UNCHANGED <<tables, history>>

Refresh_Render(w) ==
    /\ req[w].pc = "refresh.Render"
    /\ Step(w, [req[w] EXCEPT !.pc = "refresh.UpdateIntent",
                              !.ips = RenderAllowedIPs(req[w].agent)])
    /\ UNCHANGED <<tables, history>>

Refresh_UpdateIntent(w) ==
    /\ req[w].pc = "refresh.UpdateIntent"
    /\ peer' = [peer EXCEPT ![req[w].agent].ips = req[w].ips,
                            ![req[w].agent].status = IntentStatus(req[w].status)]
    /\ AfterRefresh(w)
    /\ UNCHANGED <<agent, token, policy, assigned, runtime, history>>

-----------------------------------------------------------------------------
\* AssignPolicy: the agent and the policy exist and are not yet assigned.
AssignPolicy_Find(w) ==
    \E a \in Agents, p \in Policies :
        /\ HasAgent(a)
        /\ <<a, p>> \notin assigned
        /\ Begin(w, [OpenFor("assign", "InsertAssignment", a)
                         EXCEPT !.policy = p])
        /\ UNCHANGED <<tables, history>>

AssignPolicy_Insert(w) ==
    /\ At(w, "assign", "InsertAssignment")
    /\ assigned' = assigned \union {<<req[w].agent, req[w].policy>>}
    /\ Continue(w, "refresh.FindPeer")
    /\ UNCHANGED <<agent, peer, token, policy, runtime, history>>

\* UnassignPolicy: the deactivating UPDATE re-checks what the lookup saw.
UnassignPolicy(w) ==
    \E a \in Agents, p \in Policies :
        /\ <<a, p>> \in assigned
        /\ Begin(w, [OpenFor("unassign", "refresh.FindPeer", a)
                         EXCEPT !.policy = p])
        /\ assigned' = assigned \ {<<a, p>>}
        /\ UNCHANGED <<agent, peer, token, policy, runtime, history>>

\* SetAgentTrafficModeOverride
SetTrafficMode(w) ==
    \E a \in Agents, mode \in Modes \union {"inherit"} :
        /\ HasAgent(a)
        /\ Begin(w, OpenFor("trafficMode", "refresh.FindPeer", a))
        /\ agent' = [agent EXCEPT ![a].override = mode]
        /\ UNCHANGED <<peer, token, policy, assigned, runtime, history>>

\* UpdatePolicy replaces the row, then refreshes every assigned agent in turn.
UpdatePolicy(w) ==
    \E p \in Policies, dests \in SUBSET Nets \ {{}}, mode \in Modes :
        /\ Begin(w, [Open("updatePolicy", "ListByPolicyID")
                         EXCEPT !.policy = p])
        /\ policy' = [policy EXCEPT ![p] = [dests |-> dests, mode |-> mode]]
        /\ UNCHANGED <<agent, peer, token, assigned, runtime, history>>

UpdatePolicy_ListAssignments(w) ==
    LET todo == {a \in Agents : <<a, req[w].policy>> \in assigned} IN
    /\ At(w, "updatePolicy", "ListByPolicyID")
    /\ IF todo = {} THEN Answer(w)
       ELSE Step(w, [req[w] EXCEPT !.pc = "refresh.FindPeer",
                                   !.todoAgents = todo])
    /\ UNCHANGED <<tables, history>>

PolicyNext(w) ==
    \/ Refresh_FindPeer(w)
    \/ Refresh_Render(w)
    \/ Refresh_UpdateIntent(w)
    \/ AssignPolicy_Find(w)
    \/ AssignPolicy_Insert(w)
    \/ UnassignPolicy(w)
    \/ SetTrafficMode(w)
    \/ UpdatePolicy(w)
    \/ UpdatePolicy_ListAssignments(w)
=============================================================================
