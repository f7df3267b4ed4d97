------------------------------ MODULE Approvals ------------------------------
(***************************************************************************)
(* Dual approval (internal/security, api/security_actions.go): a sensitive *)
(* action on an agent becomes a pending approval, which a second           *)
(* administrator approves, and that executes the action, or rejects.       *)
(*                                                                         *)
(* A step is one service call on the agent, the interface, the policy or   *)
(* the approvals table.  What ChangeAgentState, ReissueAgentEnrollment and *)
(* MarkAgentRotationPending do inside is in AgentLifecycle; here each is   *)
(* one step on what an approval is about.                                  *)
(***************************************************************************)
EXTENDS Naturals, FiniteSets

CONSTANTS
    Staff,       \* administrators and operators
    Operators,   \* those among them who may act but not approve
    Agents,
    Handlers,    \* requests in progress at the same time
    ApprovalIds  \* ids that uuid.NewString may draw

ASSUME ApprovalAssumption == Operators \subseteq Staff

VARIABLES
    dual,        \* security_policies.dual_approval_enabled
    approval,    \* security_approvals
    target,      \* of each agent, what the sensitive actions change
    handling     \* the request each client has in progress, if any

apprVars == <<dual, approval, target, handling>>

Actions  == {"revoke", "reissue", "rotate"}
Verdicts == {"approved", "rejected"}
Ways     == {"direct", "bulk", "approve", "reject"}

ApprovalRow ==
    [status: {"absent", "pending"} \union Verdicts, action: Actions \union {"none"},
     agent: SUBSET Agents, by: SUBSET Staff, decider: SUBSET Staff]
NoApproval == [status |-> "absent", action |-> "none", agent |-> {}, by |-> {},
               decider |-> {}]

Target == [revoked: BOOLEAN, configured: BOOLEAN, reissued: BOOLEAN,
           rotated: BOOLEAN]

\* on: dual approval has been enabled ever since the request was made; history.
Handled == [pc: {"policy", "find", "insert", "execute", "remove", "check", "mark"},
            user: Staff, way: Ways, action: Actions, agent: Agents,
            approval: SUBSET ApprovalIds, on: BOOLEAN]

Deciders == Staff \ Operators

ApprInit ==
    /\ dual \in BOOLEAN
    /\ approval = [p \in ApprovalIds |-> NoApproval]
    /\ target \in [Agents -> [revoked: {FALSE}, configured: {TRUE},
                              reissued: {FALSE}, rotated: {FALSE}]]
    /\ handling = [c \in Handlers |-> {}]

Goes(c, r, pc) == handling' = [handling EXCEPT ![c] = {[r EXCEPT !.pc = pc]}]
Answered(c)    == handling' = [handling EXCEPT ![c] = {}]

-----------------------------------------------------------------------------
(* handlePatchAgent, handleReissueAgent, handleRotateAgent and the bulk    *)
(* handler, which does not ask for approval.                               *)

AskAction(c) ==
    \E u \in Staff, a \in Agents, action \in Actions, way \in {"direct", "bulk"} :
        /\ handling[c] = {}
        /\ way = "bulk" => action = "revoke"
        /\ handling' = [handling EXCEPT ![c] =
               {[pc |-> IF way = "bulk" THEN "execute" ELSE "policy",
                 user |-> u, way |-> way, action |-> action, agent |-> a,
                 approval |-> {}, on |-> dual]}]
        /\ UNCHANGED <<dual, approval, target>>

\* maybeRequestDualApproval: an operator is refused while dual approval is on.
GetPolicy(c) ==
    \E r \in handling[c] :
        /\ r.pc = "policy"
        /\ IF ~dual THEN Goes(c, r, "execute")
           ELSE IF r.user \in Deciders THEN Goes(c, r, "find")
           ELSE Answered(c)
        /\ UNCHANGED <<dual, approval, target>>

FindPendingByActionResource(c) ==
    \E r \in handling[c] :
        /\ r.pc = "find"
        /\ IF \E p \in ApprovalIds : /\ approval[p].status = "pending"
                                     /\ approval[p].action = r.action
                                     /\ approval[p].agent = {r.agent}
           THEN Answered(c)
           ELSE Goes(c, r, "insert")
        /\ UNCHANGED <<dual, approval, target>>

InsertApproval(c) ==
    \E r \in handling[c], p \in ApprovalIds :
        /\ r.pc = "insert"
        /\ approval[p].status = "absent"
        /\ approval' = [approval EXCEPT ![p] =
               [NoApproval EXCEPT !.status = "pending", !.action = r.action,
                                  !.agent = {r.agent}, !.by = {r.user}]]
        /\ Answered(c)
        /\ UNCHANGED <<dual, target>>

-----------------------------------------------------------------------------
(* handleSecurityApprovalPost.                                             *)

\* Mutant: a request may be decided by whoever made it.
MayDecide_Own(u, p) == approval[p].status = "pending"

\* The checks of executeApprovedSecurityAction and of MarkRejected.
MayDecide(u, p) ==
    /\ approval[p].status = "pending"
    /\ u \notin approval[p].by

DecideApproval(c) ==
    \E u \in Staff, p \in ApprovalIds, way \in {"approve", "reject"} :
        /\ handling[c] = {}
        /\ u \in Deciders
        /\ MayDecide(u, p)
        /\ \E a \in approval[p].agent :
               handling' = [handling EXCEPT ![c] =
                   {[pc |-> IF way = "approve" THEN "execute" ELSE "mark",
                     user |-> u, way |-> way, action |-> approval[p].action, agent |-> a,
                     approval |-> {p}, on |-> dual]}]
        /\ UNCHANGED <<dual, approval, target>>

\* What the action makes of the agent, unless its state forbids it.
Permitted(action, t) == IF action = "reissue" THEN t.revoked ELSE ~t.revoked
Effect(action, t) ==
    [t EXCEPT !.revoked = @ \/ action = "revoke",
              !.reissued = @ \/ action = "reissue",
              !.rotated = @ \/ action = "rotate"]

\* Mutant: an approved revocation leaves the peer on the interface.
AfterExecute_KeepsPeer(r) == IF r.way = "approve" THEN "check" ELSE "done"

AfterExecute(r) ==
    IF r.action = "revoke" THEN "remove"
    ELSE IF r.way = "approve" THEN "check" ELSE "done"

GoesOn(c, r, pc) == IF pc = "done" THEN Answered(c) ELSE Goes(c, r, pc)

Execute(c) ==
    \E r \in handling[c] :
        /\ r.pc = "execute"
        /\ IF Permitted(r.action, target[r.agent])
           THEN /\ target' = [target EXCEPT ![r.agent] = Effect(r.action, @)]
                /\ GoesOn(c, r, AfterExecute(r))
           ELSE Answered(c) /\ UNCHANGED target
        /\ UNCHANGED <<dual, approval>>

RemovePeer(c) ==
    \E r \in handling[c] :
        /\ r.pc = "remove"
        /\ target' = [target EXCEPT ![r.agent].configured = FALSE]
        /\ GoesOn(c, r, IF r.way = "approve" THEN "check" ELSE "done")
        /\ UNCHANGED <<dual, approval>>

\* MarkApproved reads the approval again before it writes.
CheckApproval(c) ==
    \E r \in handling[c] : \E p \in r.approval :
        /\ r.pc = "check"
        /\ IF MayDecide(r.user, p) THEN Goes(c, r, "mark") ELSE Answered(c)
        /\ UNCHANGED <<dual, approval, target>>

\* Mutants: the row is updated whatever its status; the verb is stored.
Mark_Unconditional(c) ==
    \E r \in handling[c] : \E p \in r.approval :
        /\ r.pc = "mark"
        /\ approval' = [approval EXCEPT
               ![p].status = IF r.way = "approve" THEN "approved" ELSE "rejected",
               ![p].decider = {r.user}]
        /\ Answered(c)
        /\ UNCHANGED <<dual, target>>
Mark_Verb(c) ==
    \E r \in handling[c] : \E p \in r.approval :
        /\ r.pc = "mark"
        /\ approval' = [approval EXCEPT ![p].status = r.way, ![p].decider = {r.user}]
        /\ Answered(c)
        /\ UNCHANGED <<dual, target>>

\* UPDATE ... WHERE id = ? AND status = 'pending': the request is answered
\* with success whether or not a row was changed.
Mark(c) ==
    \E r \in handling[c] : \E p \in r.approval :
        /\ r.pc = "mark"
        /\ approval' = IF approval[p].status = "pending"
                       THEN [approval EXCEPT
                                ![p].status = IF r.way = "approve" THEN "approved"
                                              ELSE "rejected",
                                ![p].decider = {r.user}]
                       ELSE approval
        /\ Answered(c)
        /\ UNCHANGED <<dual, target>>

\* A call fails, or the client goes away: what has been done stays done.
FailRequest(c) ==
    /\ handling[c] # {}
    /\ Answered(c)
    /\ UNCHANGED <<dual, approval, target>>

\* handlePatchSecurityPolicy, by one administrator.
UpdateSecurityPolicy ==
    /\ dual' = ~dual
    /\ handling' = [c \in Handlers |-> {[r EXCEPT !.on = FALSE] : r \in handling[c]}]
    /\ UNCHANGED <<approval, target>>

ApprNext ==
    \/ UpdateSecurityPolicy
    \/ \E c \in Handlers :
        \/ AskAction(c) \/ GetPolicy(c)
        \/ FindPendingByActionResource(c) \/ InsertApproval(c)
        \/ DecideApproval(c) \/ Execute(c) \/ RemovePeer(c)
        \/ CheckApproval(c) \/ Mark(c)
        \/ FailRequest(c)

ApprSpec == ApprInit /\ [][ApprNext]_apprVars

-----------------------------------------------------------------------------
ApprTypeOK ==
    /\ dual \in BOOLEAN
    /\ approval \in [ApprovalIds -> ApprovalRow]
    /\ target \in [Agents -> Target]
    /\ handling \in [Handlers -> SUBSET Handled]

\* Two administrators who decide the same approval at the same time, and a
\* request to decide that arrives late, leave one decision, by somebody who
\* did not ask for it, and it is never replaced (MarkApproved, MarkRejected).
Decisions == INSTANCE Decision WITH
    Ids <- ApprovalIds,
    status <- [p \in ApprovalIds |-> approval[p].status],
    Users <- Staff,
    requester <- [p \in ApprovalIds |-> approval[p].by],
    decider <- [p \in ApprovalIds |-> approval[p].decider]
DecidedOnce == Decisions!Spec

\* What the agent is once the action has been carried out to its end.
Done(action, t) ==
    /\ action = "revoke" => t.revoked /\ ~t.configured
    /\ action = "reissue" => t.reissued
    /\ action = "rotate" => t.rotated

\* An approval that says "approved" has taken effect to the end, though its
\* execution has several calls that may fail and others may run meanwhile: in
\* particular the peer of an agent whose revocation is approved has been
\* removed from the interface (executeApprovedSecurityAction).
ApprovedIsDone ==
    \A p \in ApprovalIds : approval[p].status = "approved" =>
        \A a \in approval[p].agent : Done(approval[p].action, target[a])

\* A request that dual approval applied to from its beginning changes an
\* agent although nobody but its own user is behind it.
ChangesAlone(way) == \E c \in Handlers : \E r \in handling[c] \ handling'[c] :
    /\ r.way = way
    /\ r.on
    /\ \A p \in r.approval : r.user \in approval[p].by
    /\ target' # target

\* While dual approval is enabled the bulk handler is the only one that lets
\* one user change an agent alone, whatever was pending, decided or toggled
\* meanwhile (maybeRequestDualApproval, handleBulkAgentState).
AloneOnlyInBulk == [][\A way \in Ways \ {"bulk"} : ~ChangesAlone(way)]_apprVars
=============================================================================
