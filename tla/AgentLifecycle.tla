---------------------------- MODULE AgentLifecycle ----------------------------
(***************************************************************************)
(* internal/enrollment, second half, and the API handlers around it: the   *)
(* disable, enable and revoke of an agent, its check-ins and the rotation  *)
(* of its key.  handlePatchAgent and handleBulkAgentState follow a disable *)
(* or a revoke with the removal of the peer from the WireGuard interface.  *)
(***************************************************************************)
EXTENDS Store

StateActions == {"disable", "enable", "revoke"}

\* What ChangeAgentState allows on the agent status it read.
Allowed(action, status) ==
    \/ action = "disable" /\ status \notin {"disabled", "revoked"}
    \/ action = "enable" /\ status = "disabled"
    \/ action = "revoke" /\ status # "revoked"

AgentStatusAfter(action) ==
    CASE action = "disable" -> "disabled"
      [] action = "enable"  -> "enrolled"
      [] action = "revoke"  -> "revoked"

PeerStatusAfter(action) ==
    CASE action = "disable" -> "disabled"
      [] action = "enable"  -> "planned"
      [] action = "revoke"  -> "revoked"

\* The request is answered; for a revoke the administrator now relies on it.
AnswerChange(w) ==
    /\ Answer(w)
    /\ cut' = IF req[w].op = "revoke" THEN cut \union {req[w].agent} ELSE cut

\* ChangeAgentState got the action without the blanks around it.  Only an
\* action written without any is followed by the removal: handlePatchAgent
\* compares the one of the request body.
AfterChange(w) ==
    \/ /\ Continue(w, "RemovePeer")
       /\ UNCHANGED <<cut, kept>>
    \/ /\ AnswerChange(w)
       /\ kept' = kept \union {req[w].agent}

ChangeAgentState_FindAgent(w) ==
    \E a \in Agents, action \in StateActions :
        /\ HasAgent(a)
        /\ Allowed(action, agent[a].status)
        /\ Begin(w, OpenFor(action, "FindPeer", a))
        /\ UNCHANGED <<tables, history>>

\* The key and the address used later are the ones of this read.
ChangeAgentState_FindPeer(w) ==
    LET row == peer[req[w].agent] IN
    /\ req[w].op \in StateActions
    /\ req[w].pc = "FindPeer"
    /\ Step(w, [req[w] EXCEPT !.pc = "UpdateAgentStatus",
                              !.status = row.status,
                              !.key = row.key, !.addr = row.addr])
    /\ UNCHANGED <<tables, history>>

\* Mutant: an enable makes the stored secret valid again.
ChangeAgentState_UpdateAgent_Restores(w) ==
    /\ req[w].op \in StateActions
    /\ req[w].pc = "UpdateAgentStatus"
    /\ agent' = [agent EXCEPT
           ![req[w].agent].status = AgentStatusAfter(req[w].op),
           ![req[w].agent].auth = IF req[w].op = "enable" THEN TRUE ELSE @]
    /\ IF req[w].op = "revoke" THEN Continue(w, "ClearAuthToken")
       ELSE IF req[w].status = "absent" THEN Answer(w)
       ELSE Continue(w, "UpdatePeerStatus")
    /\ UNCHANGED <<peer, token, policy, assigned, runtime, history>>

ChangeAgentState_UpdateAgent(w) ==
    /\ req[w].op \in StateActions
    /\ req[w].pc = "UpdateAgentStatus"
    /\ agent' = [agent EXCEPT ![req[w].agent].status =
                                  AgentStatusAfter(req[w].op)]
    /\ IF req[w].op = "revoke" THEN Continue(w, "ClearAuthToken")
       ELSE IF req[w].status = "absent" THEN Answer(w)
       ELSE Continue(w, "UpdatePeerStatus")
    /\ UNCHANGED <<peer, token, policy, assigned, runtime, history>>

\* Mutant: a revoked status is trusted to keep the agent out.
Revoke_ClearAuthToken_Kept(w) ==
    /\ At(w, "revoke", "ClearAuthToken")
    /\ IF req[w].status = "absent" THEN AnswerChange(w)
       ELSE Continue(w, "UpdatePeerStatus") /\ cut' = cut
    /\ UNCHANGED <<tables, handed, enrolledBy, withdrawn, kept>>

Revoke_ClearAuthToken(w) ==
    /\ At(w, "revoke", "ClearAuthToken")
    /\ agent' = [agent EXCEPT ![req[w].agent].auth = FALSE]
    /\ IF req[w].status = "absent" THEN AnswerChange(w)
       ELSE Continue(w, "UpdatePeerStatus") /\ cut' = cut
    /\ UNCHANGED <<peer, token, policy, assigned, runtime,
                   handed, enrolledBy, withdrawn, kept>>

ChangeAgentState_UpdatePeer(w) ==
    /\ req[w].op \in StateActions
    /\ req[w].pc = "UpdatePeerStatus"
    /\ peer' = [peer EXCEPT ![req[w].agent].status = PeerStatusAfter(req[w].op)]
    /\ IF req[w].op = "enable" THEN Answer(w) /\ UNCHANGED <<cut, kept>>
       ELSE IF req[w].op = "revoke" /\ req[w].addr # NoAddress
            THEN Continue(w, "ClearAssignedAddress") /\ UNCHANGED <<cut, kept>>
       ELSE AfterChange(w)
    /\ UNCHANGED <<agent, token, policy, assigned, runtime,
                   handed, enrolledBy, withdrawn>>

Revoke_ClearAssignedAddress(w) ==
    /\ At(w, "revoke", "ClearAssignedAddress")
    /\ peer' = [peer EXCEPT ![req[w].agent].addr = NoAddress]
    /\ AfterChange(w)
    /\ UNCHANGED <<agent, token, policy, assigned, runtime,
                   handed, enrolledBy, withdrawn>>

\* ApplyPeer(remove) deletes one key from the interface.
ChangeAgentState_RemovePeer(w) ==
    /\ req[w].op \in {"disable", "revoke"}
    /\ req[w].pc = "RemovePeer"
    /\ runtime' = runtime \ {req[w].key}
    /\ kept' = kept \ {req[w].agent}
    /\ AnswerChange(w)
    /\ UNCHANGED <<agent, peer, token, policy, assigned,
                   handed, enrolledBy, withdrawn>>

-----------------------------------------------------------------------------
\* CheckInAgent accepts a secret only while its hash is stored and the agent
\* is not revoked.  k is the new key the agent offers, None without one.
Authenticates(a) == agent[a].auth /\ agent[a].status # "revoked"

CheckIn_FindAgent(w) ==
    \E a \in Agents, k \in Keys \union {None} :
        /\ a \in handed
        /\ HasAgent(a)
        /\ Authenticates(a)
        /\ Begin(w, [OpenFor("checkIn", "FindPeer", a)
                         EXCEPT !.key = k, !.late = a \in cut])
        /\ UNCHANGED <<tables, history>>

\* UpdateCheckIn (telemetry) and the peer read.  Without a rotation to
\* complete, the configuration of the peer just read is the answer.
CheckIn_FindPeer(w) ==
    LET row == peer[req[w].agent] IN
    /\ At(w, "checkIn", "FindPeer")
    /\ IF row.status = "rotation_pending" /\ req[w].key \notin {None, row.key}
       THEN Continue(w, "FindByPublicKey")
       ELSE Answer(w)
    /\ UNCHANGED <<tables, history>>

\* completeRotation: refused when the row found belongs to another peer.
CheckIn_FindByPublicKey(w) ==
    LET rows == {a \in Agents : HasPeer(a) /\ peer[a].key = req[w].key} IN
    /\ At(w, "checkIn", "FindByPublicKey")
    /\ \/ /\ rows = {} \/ req[w].agent \in rows
          /\ Continue(w, "UpdatePublicKeyAndStatus")
       \/ /\ rows \ {req[w].agent} # {}
          /\ Answer(w)
    /\ UNCHANGED <<tables, history>>

CheckIn_UpdatePublicKey(w) ==
    /\ At(w, "checkIn", "UpdatePublicKeyAndStatus")
    /\ peer' = [peer EXCEPT ![req[w].agent].key = req[w].key,
                            ![req[w].agent].status = "planned"]
    /\ Answer(w)
    /\ UNCHANGED <<agent, token, policy, assigned, runtime, history>>

-----------------------------------------------------------------------------
\* MarkAgentRotationPending: any agent that is not revoked, whatever its peer.
Rotate_FindAgent(w) ==
    \E a \in Agents :
        /\ HasAgent(a)
        /\ agent[a].status # "revoked"
        /\ Begin(w, OpenFor("rotate", "FindPeer", a))
        /\ UNCHANGED <<tables, history>>

Rotate_FindPeer(w) ==
    /\ At(w, "rotate", "FindPeer")
    /\ IF HasPeer(req[w].agent) THEN Continue(w, "UpdatePeerStatus") ELSE Answer(w)
    /\ UNCHANGED <<tables, history>>

Rotate_UpdateStatus(w) ==
    /\ At(w, "rotate", "UpdatePeerStatus")
    /\ peer' = [peer EXCEPT ![req[w].agent].status = "rotation_pending"]
    /\ Answer(w)
    /\ UNCHANGED <<agent, token, policy, assigned, runtime, history>>

LifecycleNext(w) ==
    \/ ChangeAgentState_FindAgent(w)
    \/ ChangeAgentState_FindPeer(w)
    \/ ChangeAgentState_UpdateAgent(w)
    \/ Revoke_ClearAuthToken(w)
    \/ ChangeAgentState_UpdatePeer(w)
    \/ Revoke_ClearAssignedAddress(w)
    \/ ChangeAgentState_RemovePeer(w)
    \/ CheckIn_FindAgent(w)
    \/ CheckIn_FindPeer(w)
    \/ CheckIn_FindByPublicKey(w)
    \/ CheckIn_UpdatePublicKey(w)
    \/ Rotate_FindAgent(w)
    \/ Rotate_FindPeer(w)
    \/ Rotate_UpdateStatus(w)
=============================================================================
