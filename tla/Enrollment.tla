------------------------------ MODULE Enrollment ------------------------------
(***************************************************************************)
(* internal/enrollment, first half: enrollment tokens and the enrollment   *)
(* that consumes them.  PerformEnrollment checks the token, the hostname   *)
(* and the key, allocates an address, inserts the agent and its peer,      *)
(* assigns the token's policies and only then marks the token used.        *)
(***************************************************************************)
EXTENDS PolicyIntent

\* Mutants of effectiveStatus: without the revocation, without the use, and
\* from the status column alone.
EffectiveStatus_NoRevocation(t) ==
    IF token[t].status = "used" \/ token[t].usedAt THEN "used"
    ELSE IF token[t].expired THEN "expired"
    ELSE "issued"

EffectiveStatus_NoUse(t) ==
    IF token[t].status = "revoked" \/ token[t].revokedAt THEN "revoked"
    ELSE IF token[t].expired THEN "expired"
    ELSE "issued"

EffectiveStatus_ColumnOnly(t) ==
    IF token[t].status = "issued" /\ token[t].expired THEN "expired"
    ELSE token[t].status

\* effectiveStatus: revocation wins over use, use over expiry.
EffectiveStatus(t) ==
    IF token[t].status = "revoked" \/ token[t].revokedAt THEN "revoked"
    ELSE IF token[t].status = "used" \/ token[t].usedAt THEN "used"
    ELSE IF token[t].expired THEN "expired"
    ELSE "issued"

\* The expiry time of a token passes.
Expire(t) ==
    /\ HasToken(t)
    /\ EffectiveStatus(t) = "issued"
    /\ token' = [token EXCEPT ![t].expired = TRUE]
    /\ UNCHANGED <<agent, peer, policy, assigned, runtime, req, history>>

-----------------------------------------------------------------------------
\* The row CreateToken inserts: model B is bound to a hostname, model A never.
IssuedToken(model, bound) ==
    [NoToken EXCEPT !.model = model, !.bound = bound, !.status = "issued"]

CreateToken_Insert(w) ==
    \E t \in Tokens, h \in Hosts \union {None}, policies \in SUBSET Policies :
        /\ token[t] = NoToken
        /\ Begin(w, [Open("createToken", "BindPolicies")
                         EXCEPT !.token = t, !.todoPolicies = policies])
        /\ token' = [token EXCEPT ![t] =
                         IssuedToken(IF h = None THEN "A" ELSE "B", h)]
        /\ UNCHANGED <<agent, peer, policy, assigned, runtime, history>>

\* ReissueAgentEnrollment reads a revoked agent, then its policies ...
Reissue_FindAgent(w) ==
    \E a \in Agents :
        /\ agent[a].status = "revoked"
        /\ Begin(w, [OpenFor("reissue", "ListPolicies", a)
                         EXCEPT !.host = agent[a].host])
        /\ UNCHANGED <<tables, history>>

Reissue_ListPolicies(w) ==
    /\ At(w, "reissue", "ListPolicies")
    /\ Step(w, [req[w] EXCEPT !.pc = "InsertToken", !.todoPolicies =
                   {p \in Policies : <<req[w].agent, p>> \in assigned}])
    /\ UNCHANGED <<tables, history>>

\* ... and calls CreateToken for a model B token of the same hostname.
Reissue_Insert(w) ==
    /\ At(w, "reissue", "InsertToken")
    /\ \E t \in Tokens :
        /\ token[t] = NoToken
        /\ token' = [token EXCEPT ![t] = IssuedToken("B", req[w].host)]
        /\ Step(w, [req[w] EXCEPT !.pc = "BindPolicies", !.token = t])
    /\ UNCHANGED <<agent, peer, policy, assigned, runtime, history>>

\* Bind the policies, then hand the secret out: nobody knew it before.
CreateToken_BindPolicies(w) ==
    LET t == req[w].token IN
    /\ req[w].pc = "BindPolicies"
    /\ token' = [token EXCEPT ![t].policies = req[w].todoPolicies]
    /\ handed' = handed \union {t}
    /\ Answer(w)
    /\ UNCHANGED <<agent, peer, policy, assigned, runtime,
                   enrolledBy, cut, withdrawn, kept>>

\* RevokeToken reads the effective status, then updates unconditionally.
RevokeToken_Find(w) ==
    \E t \in Tokens :
        /\ HasToken(t)
        /\ EffectiveStatus(t) = "issued"
        /\ Begin(w, [Open("revokeToken", "Revoke") EXCEPT !.token = t])
        /\ UNCHANGED <<tables, history>>

RevokeToken_Revoke(w) ==
    LET t == req[w].token IN
    /\ At(w, "revokeToken", "Revoke")
    /\ token' = [token EXCEPT ![t].status = "revoked", ![t].revokedAt = TRUE]
    /\ withdrawn' = withdrawn \union {t}
    /\ Answer(w)
    /\ UNCHANGED <<agent, peer, policy, assigned, runtime,
                   handed, enrolledBy, cut, kept>>

-----------------------------------------------------------------------------
(* PerformEnrollment                                                       *)

\* Mutant: the hostname binding of a model B token is not checked.
TokenAdmits_AnyHost(t, h) == EffectiveStatus(t) = "issued" /\ h \in Hosts

\* The token that was presented may enroll this hostname.
TokenAdmits(t, h) ==
    /\ EffectiveStatus(t) = "issued"
    /\ token[t].model = "B" => token[t].bound = h

Enroll_FindByHash(w) ==
    \E t \in Tokens, h \in Hosts, k \in Keys :
        /\ t \in handed
        /\ TokenAdmits(t, h)
        /\ Begin(w, [Open("enroll", "FindByHostname")
                         EXCEPT !.token = t, !.host = h, !.key = k,
                                !.late = t \in withdrawn])
        /\ UNCHANGED <<tables, history>>

\* FindByHostname returns one row of possibly several (LIMIT 1, no ORDER BY).
Enroll_FindByHostname(w) ==
    LET rows == {a \in Agents : HasAgent(a) /\ agent[a].host = req[w].host} IN
    /\ At(w, "enroll", "FindByHostname")
    /\ \/ /\ rows = {} \/ \E a \in rows : agent[a].status = "revoked"
          /\ Continue(w, "FindByPublicKey")
       \/ /\ \E a \in rows : agent[a].status # "revoked"
          /\ Answer(w)
    /\ UNCHANGED <<tables, history>>

\* Any peer with this key is a conflict, a revoked one too.
Enroll_FindByPublicKey(w) ==
    /\ At(w, "enroll", "FindByPublicKey")
    /\ IF \E a \in Agents : HasPeer(a) /\ peer[a].key = req[w].key
       THEN Answer(w)
       ELSE Continue(w, "AllocateAddress")
    /\ UNCHANGED <<tables, history>>

\* The rows that a listing of peers, newest first, returns before that of a.
Newer(a) == {b \in Agents : HasPeer(b) /\ a \in peer[b].older}

\* List without a filter: ListPage cuts the listing at its default limit.
Listed == {a \in Agents : HasPeer(a) /\ Cardinality(Newer(a)) < ListLimit}

\* Mutant: only active peers keep their address.
UsedAddresses_ActiveOnly ==
    {peer[a].addr : a \in {b \in Listed : peer[b].status = "active"}}

\* allocatePeerAddress: the addresses that unrevoked peers of the listing hold.
UsedAddresses ==
    {peer[a].addr : a \in {b \in Listed : /\ peer[b].addr # NoAddress
                                          /\ peer[b].status # "revoked"}}

\* Mutant: the range is scanned one address too far.
FreeAddresses_PastTheEnd == 1..(PoolSize + 1) \ UsedAddresses

FreeAddresses == Addresses \ UsedAddresses

Enroll_AllocateAddress(w) ==
    /\ At(w, "enroll", "AllocateAddress")
    /\ IF FreeAddresses = {} THEN Answer(w)
       ELSE \E x \in FreeAddresses :
                /\ \A y \in FreeAddresses : x <= y
                /\ Step(w, [req[w] EXCEPT !.pc = "InsertAgent", !.addr = x])
    /\ UNCHANGED <<tables, history>>

\* Mutant: the token is spent first.
Enroll_InsertAgent_SpendsToken(w) ==
    /\ At(w, "enroll", "InsertAgent")
    /\ \E a \in Agents :
        /\ ~HasAgent(a)
        /\ agent' = [agent EXCEPT ![a] =
               [host |-> req[w].host, status |-> "enrolled", auth |-> TRUE,
                override |-> "inherit"]]
        /\ enrolledBy' = [enrolledBy EXCEPT ![a] = req[w].token]
        /\ Step(w, [req[w] EXCEPT !.pc = "InsertPeer", !.agent = a])
    /\ token' = [token EXCEPT ![req[w].token].usedAt = TRUE]
    /\ UNCHANGED <<peer, policy, assigned, runtime, handed, cut, withdrawn, kept>>

\* Mutant: the secret is handed out before the peer is there.
Enroll_InsertAgent_HandsOut(w) ==
    /\ At(w, "enroll", "InsertAgent")
    /\ \E a \in Agents :
        /\ ~HasAgent(a)
        /\ agent' = [agent EXCEPT ![a] =
               [host |-> req[w].host, status |-> "enrolled", auth |-> TRUE,
                override |-> "inherit"]]
        /\ enrolledBy' = [enrolledBy EXCEPT ![a] = req[w].token]
        /\ Step(w, [req[w] EXCEPT !.pc = "InsertPeer", !.agent = a])
        /\ handed' = handed \union {a}
    /\ UNCHANGED <<peer, token, policy, assigned, runtime, cut, withdrawn, kept>>

Enroll_InsertAgent(w) ==
    /\ At(w, "enroll", "InsertAgent")
    /\ \E a \in Agents :
        /\ ~HasAgent(a)
        /\ agent' = [agent EXCEPT ![a] =
               [host |-> req[w].host, status |-> "enrolled", auth |-> TRUE,
                override |-> "inherit"]]
        /\ enrolledBy' = [enrolledBy EXCEPT ![a] = req[w].token]
        /\ Step(w, [req[w] EXCEPT !.pc = "InsertPeer", !.agent = a])
    /\ UNCHANGED <<peer, token, policy, assigned, runtime,
                   handed, cut, withdrawn, kept>>

Enroll_InsertPeer(w) ==
    LET policies == token[req[w].token].policies IN
    /\ At(w, "enroll", "InsertPeer")
    /\ peer' = [peer EXCEPT ![req[w].agent] =
           [key |-> req[w].key, addr |-> req[w].addr, ips |-> {},
            status |-> "planned", older |-> {a \in Agents : HasPeer(a)}]]
    /\ Step(w, [req[w] EXCEPT !.todoPolicies = policies,
                              !.pc = IF policies = {} THEN "MarkUsed"
                                     ELSE "AssignPolicies"])
    /\ UNCHANGED <<agent, token, policy, assigned, runtime, history>>

\* AssignPoliciesToAgent: one insert at a time, then one refresh.
Enroll_AssignPolicies(w) ==
    /\ At(w, "enroll", "AssignPolicies")
    /\ \E p \in req[w].todoPolicies :
        /\ assigned' = assigned \union {<<req[w].agent, p>>}
        /\ Step(w, [req[w] EXCEPT !.todoPolicies = @ \ {p},
                                  !.pc = IF req[w].todoPolicies = {p}
                                         THEN "refresh.FindPeer" ELSE @])
    /\ UNCHANGED <<agent, peer, token, policy, runtime, history>>

\* MarkUsed is the last write ...
Enroll_MarkUsed(w) ==
    /\ At(w, "enroll", "MarkUsed")
    /\ token' = [token EXCEPT ![req[w].token].status = "used",
                              ![req[w].token].usedAt = TRUE]
    /\ Continue(w, "BuildConfig")
    /\ UNCHANGED <<agent, peer, policy, assigned, runtime, history>>

\* ... but the agent gets its secret with the answer, after further reads.
Enroll_BuildConfig(w) ==
    /\ At(w, "enroll", "BuildConfig")
    /\ handed' = handed \union {req[w].agent}
    /\ Answer(w)
    /\ UNCHANGED <<tables, enrolledBy, cut, withdrawn, kept>>

EnrollmentNext(w) ==
    \/ CreateToken_Insert(w)
    \/ Reissue_FindAgent(w)
    \/ Reissue_ListPolicies(w)
    \/ Reissue_Insert(w)
    \/ CreateToken_BindPolicies(w)
    \/ RevokeToken_Find(w)
    \/ RevokeToken_Revoke(w)
    \/ Enroll_FindByHash(w)
    \/ Enroll_FindByHostname(w)
    \/ Enroll_FindByPublicKey(w)
    \/ Enroll_AllocateAddress(w)
    \/ Enroll_InsertAgent(w)
    \/ Enroll_InsertPeer(w)
    \/ Enroll_AssignPolicies(w)
    \/ Enroll_MarkUsed(w)
    \/ Enroll_BuildConfig(w)
=============================================================================
