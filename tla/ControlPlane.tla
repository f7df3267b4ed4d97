----------------------------- MODULE ControlPlane -----------------------------
(***************************************************************************)
(* The control plane as a whole: every request of the modules below, on    *)
(* any number of workers, over the same tables and WireGuard interface.    *)
(***************************************************************************)
EXTENDS Enrollment, AgentLifecycle, Reconcile

Next ==
    \/ \E w \in Workers :
        \/ EnrollmentNext(w)
        \/ PolicyNext(w)
        \/ LifecycleNext(w)
        \/ ReconcileNext(w)
        \/ Abort(w)
    \/ \E t \in Tokens : Expire(t)

Spec == Init /\ [][Next]_vars

-----------------------------------------------------------------------------
(* What holds however requests interleave and wherever they end.           *)

\* Once the revocation of an agent has been answered no later check-in is
\* accepted: whatever disable, enable or policy request was in flight puts
\* back, it is never the cleared auth_token_hash (ChangeAgentState, CheckInAgent).
RevokedAgentNotServed ==
    \A w \in Workers : req[w].op = "checkIn" => ~req[w].late

\* Once the revocation of an enrollment token has been answered it admits no
\* later enrollment, even if an enrollment already in flight marks it used
\* (RevokeToken, MarkUsed, effectiveStatus).
WithdrawnTokenAdmitsNobody ==
    \A w \in Workers : req[w].op = "enroll" => ~req[w].late

\* ... and it is reported as revoked for ever: MarkUsed overwrites the status
\* column, so only the revoked_at column says so (effectiveStatus).
WithdrawnTokenIsRevoked ==
    \A t \in withdrawn : EffectiveStatus(t) = "revoked"

\* A token is spent only once the agent it enrolled and the peer of that agent
\* are in the tables: MarkUsed comes after every insert.  An enrollment that
\* fails later, on the way to its answer, has spent it all the same.
SpentTokenHasPeer ==
    \A t \in Tokens :
        token[t].usedAt => \E a \in Agents : enrolledBy[a] = t /\ HasPeer(a)

\* A model B token enrolls only the hostname it was bound to at creation or
\* at reissue, through every race on the token's other columns.
BoundHostname ==
    \A a \in Agents :
        LET t == enrolledBy[a] IN
        t # None /\ token[t].model = "B" => agent[a].host = token[t].bound

\* An agent's secret opens check-in only if the client received it, that is
\* only after its peer row exists: a half-created agent is never served.
ServedAgentHasPeer ==
    \A w \in Workers : req[w].op = "checkIn" => HasPeer(req[w].agent)

-----------------------------------------------------------------------------
(* What holds when requests come one at a time.                            *)

Quiet == \A w \in Workers : req[w] = NoRequest

Live(a) == HasPeer(a) /\ peer[a].status # "revoked"

\* The listing of peers from which the address of b was chosen left a out,
\* because it was full of peers created after a.
LeftOut(a, b) ==
    /\ a \in peer[b].older
    /\ Cardinality({c \in peer[b].older : a \in peer[c].older}) >= ListLimit

\* No two peers share a public key, and two unrevoked peers an address only
\* if a whole listing of peers was created between them.  Neither column is
\* UNIQUE: the lookups of PerformEnrollment and completeRotation have to keep
\* them apart.
UniquePeers ==
    \A a, b \in Agents :
        /\ HasPeer(a) /\ HasPeer(b) /\ peer[a].key = peer[b].key => a = b
        /\ /\ Live(a) /\ Live(b) /\ peer[a].addr = peer[b].addr
           /\ peer[a].addr # NoAddress
           => a = b \/ LeftOut(a, b) \/ LeftOut(b, a)

\* Between requests a revoked agent has no secret, its peer is revoked and has
\* no address, and the current key of that peer is off the interface, unless
\* the action of the request had blanks around it (handlePatchAgent).  Keys
\* the agent had before a rotation are another matter (RuntimeKeysAreCurrent).
RevokedLeavesNothing ==
    Quiet => \A a \in Agents :
        agent[a].status = "revoked" =>
            /\ ~agent[a].auth
            /\ HasPeer(a) => /\ peer[a].status = "revoked"
                             /\ peer[a].addr = NoAddress
                             /\ peer[a].key \in runtime => a \in kept

\* Between requests the stored AllowedIPs are what the policies render to,
\* after any sequence of assignments, mode changes and policy updates.
IntentIsRendered ==
    Quiet => \A a \in Agents :
        HasPeer(a) => peer[a].ips = RenderAllowedIPs(a)

\* When requests come one at a time, a token of either model enrolls at most
\* one agent (PerformEnrollment checks effectiveStatus first).
SingleUse ==
    \A a, b \in Agents :
        enrolledBy[a] = enrolledBy[b] /\ enrolledBy[a] # None => a = b

-----------------------------------------------------------------------------
(* What the documentation says and the code does not keep.                 *)

\* A model B token, bound to one hostname, has enrolled at most one agent when
\* all requests are answered ("pre-authorized single-use",
\* agent/shared/contracts.md): the code marks it used after everything else, on
\* no condition (PerformEnrollment).
BoundTokenIsSingleUse ==
    Quiet => \A a, b \in Agents :
        /\ enrolledBy[a] # None
        /\ enrolledBy[a] = enrolledBy[b]
        /\ token[enrolledBy[a]].model = "B"
        => a = b

\* Disabling cuts access off: between requests the key of a disabled agent
\* is not on the interface once it was removed, since reconcile is blocked
\* for disabled peers.
DisabledIsCutOff ==
    Quiet => \A a \in Agents :
        agent[a].status = "disabled" /\ HasPeer(a) /\ a \notin kept
            => peer[a].key \notin runtime

\* Rotation replaces the key pair: between requests every key on the
\* interface is the current key of some peer.
RuntimeKeysAreCurrent ==
    Quiet => \A k \in runtime : \E a \in Agents : HasPeer(a) /\ peer[a].key = k

=============================================================================
