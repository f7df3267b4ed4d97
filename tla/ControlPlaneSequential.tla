------------------------ MODULE ControlPlaneSequential ------------------------
(***************************************************************************)
(* The inductive invariants of the control plane when requests come one at *)
(* a time.  What a request has read is then still true when it writes, so  *)
(* the invariants compare the locals of the request with the tables, and   *)
(* say which rows it has left half done until its next call.               *)
(***************************************************************************)
EXTENDS ControlPlaneInvariant

\* The server handles one request at a time ...
OneAtATime == \A v, w \in Workers : v = w

\* ... and each to its end.
Uninterrupted == OneAtATime /\ ~Faults

-----------------------------------------------------------------------------
(* Keys and addresses, wherever requests end.                              *)

\* The agent is revoked before its peer is.
RevokedPeers ==
    \A a \in Agents : peer[a].status = "revoked" => agent[a].status = "revoked"

\* A state change has checked the status it changes; from then on it knows
\* the peer, and how much of the row it has written.
ChangeReads(w) ==
    LET a == req[w].agent IN
    req[w].op \in StateActions =>
    /\ IF req[w].pc \in {"FindPeer", "UpdateAgentStatus"}
       THEN Allowed(req[w].op, agent[a].status)
       ELSE agent[a].status = AgentStatusAfter(req[w].op)
    /\ req[w].pc # "FindPeer" => req[w].key = peer[a].key
    /\ req[w].pc \in {"UpdateAgentStatus", "ClearAuthToken", "UpdatePeerStatus"} =>
           req[w].status = peer[a].status /\ req[w].addr = peer[a].addr
    /\ req[w].op = "revoke" /\ req[w].pc \in {"ClearAssignedAddress", "RemovePeer"} =>
           /\ peer[a].status = "revoked"
           /\ req[w].pc = "RemovePeer" => peer[a].addr = NoAddress

\* A peer that gets a status from a read of it was not revoked by then.
PeerReads(w) ==
    LET a == req[w].agent IN
    /\ \/ req[w].op = "checkIn" /\ req[w].pc # "FindPeer"
       \/ req[w].op = "rotate" /\ req[w].pc # "FindPeer"
       \/ req[w].op = "reconcile"
       => peer[a].status # "revoked"
    /\ req[w].op = "rotate" => agent[a].status # "revoked"
    /\ req[w].op = "reconcile" => req[w].key = peer[a].key
    /\ req[w].pc \in {"refresh.Render", "refresh.UpdateIntent"} =>
           req[w].status = peer[a].status

\* Only peers that exist are older than another.
OlderPeers ==
    \A a \in Agents : \A b \in peer[a].older : b \in Agents /\ HasPeer(b)

\* The key looked up is still free, and the address is, as far as the listing
\* went.
EnrollReads(w) == req[w].op = "enroll" =>
    /\ req[w].pc \in {"AllocateAddress", "InsertAgent", "InsertPeer"} =>
           \A b \in Agents : HasPeer(b) => peer[b].key # req[w].key
    /\ req[w].pc \in {"InsertAgent", "InsertPeer"} =>
           \A b \in Agents : Live(b) /\ peer[b].addr = req[w].addr
                                /\ peer[b].addr # NoAddress =>
               Cardinality(Newer(b)) >= ListLimit
    /\ req[w].pc = "InsertPeer" => /\ agent[req[w].agent].status = "enrolled"
                                   /\ ~HasPeer(req[w].agent)

\* A rotation is completed with a key that no other peer has.
RotationReads(w) == At(w, "checkIn", "UpdatePublicKeyAndStatus") =>
    \A b \in Agents :
        HasPeer(b) /\ peer[b].key = req[w].key => b = req[w].agent

UniqueInv ==
    /\ UniquePeers
    /\ RevokedPeers
    /\ OlderPeers
    /\ \A w \in Workers :
           ChangeReads(w) /\ PeerReads(w) /\ EnrollReads(w) /\ RotationReads(w)

-----------------------------------------------------------------------------
(* Revoked agents and spent tokens, when every request runs to its end.    *)

Gone(a) ==
    /\ ~agent[a].auth
    /\ HasPeer(a) => /\ peer[a].status = "revoked"
                     /\ peer[a].addr = NoAddress
                     /\ peer[a].key \in runtime => a \in kept

Revoking(w, a) ==
    /\ req[w].op = "revoke"
    /\ req[w].pc \notin {"FindPeer", "UpdateAgentStatus", "BindPolicies"}
    /\ req[w].agent = a

\* A revoked agent has lost all this, or is still being revoked.
RevokedAgents ==
    \A a \in Agents : agent[a].status = "revoked" =>
        Gone(a) \/ \E w \in Workers : Revoking(w, a)

Enrolling(w, a) ==
    /\ req[w].op = "enroll"
    /\ req[w].pc \notin LookupCalls \union {"BuildConfig"}
    /\ req[w].agent = a

\* A token that enrolled an agent is spent, or that enrollment goes on.
SpentTokens ==
    \A a \in Agents : enrolledBy[a] # None =>
        token[enrolledBy[a]].usedAt \/ \E w \in Workers : Enrolling(w, a)

\* The token a request presented has enrolled nobody before.
TokenReads(w) == req[w].op = "enroll" /\ req[w].pc \in LookupCalls =>
    \A b \in Agents : enrolledBy[b] # req[w].token

FinishedInv ==
    /\ UniqueInv
    /\ RevokedAgents
    /\ SpentTokens
    /\ SingleUse
    /\ \A w \in Workers : TokenReads(w)

-----------------------------------------------------------------------------
(* Rendered intent, when every request runs to its end.                    *)

AssignedExist == \A a \in Agents, p \in Policies :
    <<a, p>> \in assigned => HasAgent(a)

\* The request has changed what the peer of this agent renders from, and has
\* not written its intent yet.
Owes(w, a) ==
    \/ /\ req[w].op \in {"enroll", "assign", "unassign", "trafficMode"}
       /\ req[w].pc \in {"AssignPolicies"} \union RefreshCalls
       /\ req[w].agent = a
    \/ /\ req[w].op = "updatePolicy"
       /\ \/ req[w].pc = "ListByPolicyID" /\ <<a, req[w].policy>> \in assigned
          \/ req[w].pc \in RefreshCalls /\ a \in req[w].todoAgents
          \/ req[w].pc \in RefreshCalls \ {"refresh.FindPeer"} /\ req[w].agent = a

RenderedPeers ==
    \A a \in Agents : HasPeer(a) =>
        peer[a].ips = RenderAllowedIPs(a) \/ \E w \in Workers : Owes(w, a)

\* Policies are assigned to an agent that exists.  One that has no peer yet
\* has no policies.  What was rendered is what would be rendered now.
RenderReads(w) ==
    LET a == req[w].agent IN
    /\ req[w].op = "assign" => HasAgent(a)
    /\ At(w, "enroll", "InsertPeer") =>
           /\ agent[a].override = "inherit"
           /\ \A p \in Policies : <<a, p>> \notin assigned
    /\ req[w].pc = "refresh.UpdateIntent" =>
           \A b \in Agents : b = a => req[w].ips = RenderAllowedIPs(b)

RenderedInv ==
    /\ AssignedExist
    /\ RenderedPeers
    /\ \A w \in Workers : RenderReads(w)
=============================================================================
