--------------------------- MODULE Approvals_proofs ---------------------------
(***************************************************************************)
(* What dual approval guarantees, for every set of users, agents, requests *)
(* in progress and approvals.                                              *)
(*                                                                         *)
(* A request works on what it read some calls ago.  RequestOK says what it *)
(* may still rely on when it goes on: an approval never changes what it is *)
(* about, and what has been done to an agent is never undone.              *)
(***************************************************************************)
EXTENDS Approvals, TLAPS

\* What has been done up to the call the request is about to make.
Progress(r) ==
    /\ r.pc \in {"policy", "find", "insert"} => r.way = "direct"
    /\ r.way = "reject" => r.pc = "mark"
    /\ r.pc = "remove" => r.action = "revoke" /\ target[r.agent].revoked
    /\ r.pc \in {"check", "mark"} /\ r.way = "approve" => Done(r.action, target[r.agent])

\* What the request is allowed by.
Warrant(r) ==
    /\ r.on => dual
    /\ r.way = "direct" /\ r.pc \in {"execute", "remove"} => ~r.on
    /\ r.way \in {"approve", "reject"} => r.approval # {}
    /\ \A p \in r.approval :
           /\ approval[p].status # "absent"
           /\ approval[p].action = r.action
           /\ approval[p].agent = {r.agent}
           /\ r.user \notin approval[p].by

RequestOK(r) == Progress(r) /\ Warrant(r)

OneRequest == \A c \in Handlers : \A r, s \in handling[c] : r = s

ApprovalsOK == \A p \in ApprovalIds :
    /\ approval[p].status = "absent" => approval[p].decider = {}
    /\ approval[p].status # "absent" =>
           approval[p].action \in Actions /\ \E a \in Agents : approval[p].agent = {a}

ApprInv ==
    /\ ApprTypeOK
    /\ ApprovalsOK
    /\ OneRequest
    /\ \A c \in Handlers : \A r \in handling[c] : RequestOK(r)
    /\ ApprovedIsDone

USE ApprovalAssumption

LEMMA NoApprovalIs ==
    /\ NoApproval \in ApprovalRow
    /\ NoApproval.status = "absent"
    /\ NoApproval.agent = {} /\ NoApproval.by = {} /\ NoApproval.decider = {}
BY DEF NoApproval, ApprovalRow

LEMMA InitApprovals == ApprInit => ApprInv
<1> SUFFICES ASSUME ApprInit PROVE ApprInv
    OBVIOUS
<1>1. dual \in BOOLEAN /\ handling \in [Handlers -> SUBSET Handled]
    BY DEF ApprInit
<1>2. approval \in [ApprovalIds -> ApprovalRow]
    BY NoApprovalIs DEF ApprInit
<1>3. target \in [Agents -> Target]
    BY DEF ApprInit, Target
<1>4. OneRequest /\ \A c \in Handlers : handling[c] = {}
    BY DEF ApprInit, OneRequest
<1>5. ApprovedIsDone
    BY NoApprovalIs DEF ApprInit, ApprovedIsDone
<1>6. ApprovalsOK
    BY NoApprovalIs DEF ApprInit, ApprovalsOK
<1> QED
    BY <1>1, <1>2, <1>3, <1>4, <1>5, <1>6 DEF ApprInv, ApprTypeOK

-----------------------------------------------------------------------------
(* What no step undoes.                                                    *)

ApprovalsKeep == \A p \in ApprovalIds : approval[p].status # "absent" =>
    /\ approval'[p].status # "absent"
    /\ approval'[p].action = approval[p].action
    /\ approval'[p].agent = approval[p].agent
    /\ approval'[p].by = approval[p].by

TargetsKeep == \A a \in Agents :
    /\ target[a].revoked => target'[a].revoked
    /\ target[a].reissued => target'[a].reissued
    /\ target[a].rotated => target'[a].rotated
    /\ ~target[a].configured => ~target'[a].configured

\* A request that does not move keeps what it relies on.
LEMMA RequestKept ==
    ASSUME ApprTypeOK, ApprovalsKeep, TargetsKeep, dual' = dual,
           NEW r \in Handled, RequestOK(r)
    PROVE  RequestOK(r)'
<1>1. r.agent \in Agents /\ r.approval \subseteq ApprovalIds
    BY DEF Handled
<1>2. Progress(r)'
    BY <1>1 DEF RequestOK, Progress, Done, TargetsKeep
<1>3. Warrant(r)'
    BY <1>1 DEF RequestOK, Warrant, ApprovalsKeep
<1> QED
    BY <1>2, <1>3 DEF RequestOK

\* A step of one request, given what becomes of that request.
LEMMA StepOfOne ==
    ASSUME NEW c \in Handlers, ApprInv, dual' = dual, ApprovalsKeep, TargetsKeep,
           approval' \in [ApprovalIds -> ApprovalRow], ApprovalsOK', target' \in [Agents -> Target],
           NEW R \in SUBSET Handled,
           handling' = [handling EXCEPT ![c] = R],
           \A r, s \in R : r = s,
           \A r \in R : RequestOK(r)',
           \A p \in ApprovalIds : approval'[p].status = "approved" =>
               \/ approval[p].status = "approved"
               \/ \A a \in approval'[p].agent : Done(approval'[p].action, target'[a])
    PROVE  ApprInv'
<1>1. ApprTypeOK'
    BY DEF ApprInv, ApprTypeOK
<1>2. \A d \in Handlers : handling'[d] = IF d = c THEN R ELSE handling[d]
    BY DEF ApprInv, ApprTypeOK
<1>3. OneRequest'
    BY <1>2 DEF ApprInv, OneRequest
<1>4. ASSUME NEW d \in Handlers, NEW r \in handling'[d] PROVE RequestOK(r)'
    <2>1. CASE d = c
        BY <1>2, <2>1
    <2>2. CASE d # c
        <3>1. r \in handling[d] /\ r \in Handled /\ RequestOK(r)
            BY <1>2, <2>2 DEF ApprInv, ApprTypeOK
        <3> QED
            BY <3>1, RequestKept DEF ApprInv
    <2> QED
        BY <2>1, <2>2
<1>5. ApprovedIsDone'
    <2> SUFFICES ASSUME NEW p \in ApprovalIds, approval'[p].status = "approved",
                        NEW a \in approval'[p].agent
                 PROVE  Done(approval'[p].action, target'[a])
        BY DEF ApprovedIsDone
    <2>1. CASE approval[p].status = "approved"
        <3>1. approval'[p].action = approval[p].action /\ a \in approval[p].agent
            BY <2>1 DEF ApprovalsKeep
        <3>2. a \in Agents /\ Done(approval[p].action, target[a])
            BY <2>1, <3>1 DEF ApprInv, ApprTypeOK, ApprovalRow, ApprovedIsDone
        <3> QED
            BY <3>1, <3>2 DEF Done, TargetsKeep
    <2>2. CASE approval[p].status # "approved"
        BY <2>2
    <2> QED
        BY <2>1, <2>2
<1> QED
    BY <1>1, <1>3, <1>4, <1>5 DEF ApprInv

\* Nothing but the requests changes.
LEMMA StepOfRequestOnly ==
    ASSUME NEW c \in Handlers, ApprInv, UNCHANGED <<dual, approval, target>>,
           NEW R \in SUBSET Handled,
           handling' = [handling EXCEPT ![c] = R],
           \A r, s \in R : r = s,
           \A r \in R : RequestOK(r)
    PROVE  ApprInv'
<1>1. ApprovalsKeep /\ TargetsKeep
    BY DEF ApprovalsKeep, TargetsKeep
<1>2. \A r \in R : RequestOK(r)'
    BY <1>1, RequestKept DEF ApprInv
<1>3. ApprovalsOK'
    BY DEF ApprInv, ApprovalsOK
<1> QED
    BY <1>1, <1>2, <1>3, StepOfOne DEF ApprInv, ApprTypeOK

\* The step answers the request.
LEMMA StepOfAnswer ==
    ASSUME NEW c \in Handlers, ApprInv, dual' = dual, ApprovalsKeep, TargetsKeep,
           approval' \in [ApprovalIds -> ApprovalRow], ApprovalsOK', target' \in [Agents -> Target],
           handling' = [handling EXCEPT ![c] = {}],
           \A p \in ApprovalIds : approval'[p].status = "approved" =>
               \/ approval[p].status = "approved"
               \/ \A a \in approval'[p].agent : Done(approval'[p].action, target'[a])
    PROVE  ApprInv'
<1>1. PICK R \in SUBSET Handled : R = {}
    OBVIOUS
<1>2. /\ handling' = [handling EXCEPT ![c] = R]
      /\ \A r \in R : FALSE
    BY <1>1
<1> QED
    BY <1>2, StepOfOne

LEMMA MovedRequest ==
    ASSUME NEW r \in Handled,
           NEW pc \in {"policy", "find", "insert", "execute", "remove", "check", "mark"}
    PROVE  LET q == [r EXCEPT !.pc = pc] IN
           /\ q \in Handled
           /\ q.pc = pc /\ q.user = r.user /\ q.way = r.way /\ q.action = r.action
           /\ q.agent = r.agent /\ q.approval = r.approval /\ q.on = r.on
BY DEF Handled

-----------------------------------------------------------------------------
LEMMA AskKeeps == ASSUME NEW c \in Handlers, ApprInv, AskAction(c) PROVE ApprInv'
<1>1. PICK u \in Staff, a \in Agents, action \in Actions, way \in {"direct", "bulk"} :
          handling' = [handling EXCEPT ![c] =
              {[pc |-> IF way = "bulk" THEN "execute" ELSE "policy",
                user |-> u, way |-> way, action |-> action, agent |-> a,
                approval |-> {}, on |-> dual]}]
    BY DEF AskAction
<1> DEFINE q == [pc |-> IF way = "bulk" THEN "execute" ELSE "policy",
                 user |-> u, way |-> way, action |-> action, agent |-> a,
                 approval |-> {}, on |-> dual]
<1>2. q \in Handled
    BY DEF ApprInv, ApprTypeOK, Handled, Ways
<1>3. RequestOK(q)
    BY DEF RequestOK, Progress, Warrant
<1>4. UNCHANGED <<dual, approval, target>>
    BY DEF AskAction
<1> HIDE DEF q
<1>5. handling' = [handling EXCEPT ![c] = {q}]
    BY <1>1 DEF q
<1> QED
    BY <1>2, <1>3, <1>4, <1>5, StepOfRequestOnly

LEMMA DecideKeeps == ASSUME NEW c \in Handlers, ApprInv, DecideApproval(c) PROVE ApprInv'
<1>1. PICK u \in Staff, p \in ApprovalIds, way \in {"approve", "reject"} :
          /\ MayDecide(u, p)
          /\ \E a \in approval[p].agent :
               handling' = [handling EXCEPT ![c] =
                   {[pc |-> IF way = "approve" THEN "execute" ELSE "mark",
                     user |-> u, way |-> way, action |-> approval[p].action, agent |-> a,
                     approval |-> {p}, on |-> dual]}]
    BY DEF DecideApproval
<1>2. PICK a \in approval[p].agent :
               handling' = [handling EXCEPT ![c] =
                   {[pc |-> IF way = "approve" THEN "execute" ELSE "mark",
                     user |-> u, way |-> way, action |-> approval[p].action, agent |-> a,
                     approval |-> {p}, on |-> dual]}]
    BY <1>1
<1> DEFINE q == [pc |-> IF way = "approve" THEN "execute" ELSE "mark",
                 user |-> u, way |-> way, action |-> approval[p].action, agent |-> a,
                 approval |-> {p}, on |-> dual]
<1>3. approval[p].action \in Actions /\ approval[p].agent = {a} /\ a \in Agents
    BY <1>1 DEF ApprInv, ApprovalsOK, MayDecide
<1>4. q \in Handled
    BY <1>3 DEF ApprInv, ApprTypeOK, Handled, Ways
<1>5. RequestOK(q)
    BY <1>1, <1>3 DEF RequestOK, Progress, Warrant, MayDecide
<1>6. UNCHANGED <<dual, approval, target>>
    BY DEF DecideApproval
<1> HIDE DEF q
<1>7. handling' = [handling EXCEPT ![c] = {q}]
    BY <1>2 DEF q
<1> QED
    BY <1>4, <1>5, <1>6, <1>7, StepOfRequestOnly

\* The calls that only read, and those that end the request.
LEMMA ReadKeeps ==
    ASSUME NEW c \in Handlers, ApprInv,
           \/ GetPolicy(c) \/ FindPendingByActionResource(c)
           \/ CheckApproval(c) \/ FailRequest(c)
    PROVE  ApprInv'
<1>1. UNCHANGED <<dual, approval, target>>
    BY DEF GetPolicy, FindPendingByActionResource, CheckApproval, FailRequest
<1>2. CASE Answered(c)
    BY <1>1, <1>2, StepOfRequestOnly DEF Answered
<1>3. CASE ~Answered(c)
    <2>1. PICK r \in handling[c] :
              \/ Goes(c, r, "execute") /\ r.pc = "policy" /\ ~dual
              \/ Goes(c, r, "find") /\ r.pc = "policy"
              \/ Goes(c, r, "insert") /\ r.pc = "find"
              \/ Goes(c, r, "mark") /\ r.pc = "check"
        BY <1>3 DEF GetPolicy, FindPendingByActionResource, CheckApproval, FailRequest
    <2>2. r \in Handled /\ RequestOK(r)
        BY DEF ApprInv, ApprTypeOK
    <2>3. ASSUME NEW pc \in {"find", "insert", "execute", "mark"}, Goes(c, r, pc),
                 RequestOK([r EXCEPT !.pc = pc])
          PROVE  ApprInv'
        <3> DEFINE q == [r EXCEPT !.pc = pc]
        <3>1. q \in Handled
            BY <2>2, MovedRequest
        <3> HIDE DEF q
        <3>2. handling' = [handling EXCEPT ![c] = {q}] /\ RequestOK(q)
            BY <2>3 DEF Goes, q
        <3> QED
            BY <1>1, <3>1, <3>2, StepOfRequestOnly
    <2>4. CASE Goes(c, r, "execute") /\ r.pc = "policy" /\ ~dual
        <3>1. RequestOK([r EXCEPT !.pc = "execute"])
            BY <2>2, <2>4, MovedRequest DEF RequestOK, Progress, Warrant
        <3> QED
            BY <2>3, <2>4, <3>1
    <2>5. CASE Goes(c, r, "find") /\ r.pc = "policy"
        <3>1. RequestOK([r EXCEPT !.pc = "find"])
            BY <2>2, <2>5, MovedRequest DEF RequestOK, Progress, Warrant
        <3> QED
            BY <2>3, <2>5, <3>1
    <2>6. CASE Goes(c, r, "insert") /\ r.pc = "find"
        <3>1. RequestOK([r EXCEPT !.pc = "insert"])
            BY <2>2, <2>6, MovedRequest DEF RequestOK, Progress, Warrant
        <3> QED
            BY <2>3, <2>6, <3>1
    <2>7. CASE Goes(c, r, "mark") /\ r.pc = "check"
        <3>1. RequestOK([r EXCEPT !.pc = "mark"])
            BY <2>2, <2>7, MovedRequest DEF RequestOK, Progress, Warrant
        <3> QED
            BY <2>3, <2>7, <3>1
    <2> QED
        BY <2>1, <2>4, <2>5, <2>6, <2>7
<1> QED
    BY <1>2, <1>3

-----------------------------------------------------------------------------
LEMMA InsertKeeps == ASSUME NEW c \in Handlers, ApprInv, InsertApproval(c) PROVE ApprInv'
<1>1. PICK r \in handling[c], p \in ApprovalIds :
          /\ approval[p].status = "absent"
          /\ approval' = [approval EXCEPT ![p] =
                 [NoApproval EXCEPT !.status = "pending", !.action = r.action,
                                    !.agent = {r.agent}, !.by = {r.user}]]
    BY DEF InsertApproval
<1>2. PICK v : v = [NoApproval EXCEPT !.status = "pending", !.action = r.action,
                                      !.agent = {r.agent}, !.by = {r.user}]
    OBVIOUS
<1>3. r.user \in Staff /\ r.action \in Actions /\ r.agent \in Agents
    BY DEF ApprInv, ApprTypeOK, Handled
<1>4. /\ v \in ApprovalRow /\ v.status = "pending" /\ v.action = r.action
      /\ v.agent = {r.agent} /\ v.by = {r.user} /\ v.decider = {}
    BY <1>2, <1>3, NoApprovalIs DEF ApprovalRow
<1>5. /\ approval' \in [ApprovalIds -> ApprovalRow] /\ approval'[p] = v
      /\ \A q \in ApprovalIds \ {p} : approval'[q] = approval[q]
    BY <1>1, <1>2, <1>4 DEF ApprInv, ApprTypeOK
<1>6. UNCHANGED <<dual, target>> /\ handling' = [handling EXCEPT ![c] = {}]
    BY DEF InsertApproval, Answered
<1>7. ApprovalsKeep /\ TargetsKeep
    BY <1>1, <1>5, <1>6 DEF ApprovalsKeep, TargetsKeep
<1>8. ApprovalsOK'
    BY <1>3, <1>4, <1>5 DEF ApprInv, ApprovalsOK
<1>9. \A q \in ApprovalIds : approval'[q].status = "approved" => approval[q].status = "approved"
    BY <1>4, <1>5
<1> QED
    BY <1>5, <1>6, <1>7, <1>8, <1>9, StepOfAnswer DEF ApprInv, ApprTypeOK

\* Execute and RemovePeer change the agent of the request and nothing else.
LEMMA ChangedTarget ==
    ASSUME NEW c \in Handlers, ApprInv, NEW r \in handling[c], NEW t \in Target,
           target' = [target EXCEPT ![r.agent] = t],
           UNCHANGED <<dual, approval>>,
           target[r.agent].revoked => t.revoked,
           target[r.agent].reissued => t.reissued,
           target[r.agent].rotated => t.rotated,
           ~target[r.agent].configured => ~t.configured,
           NEW R \in SUBSET Handled, \A q, s \in R : q = s,
           handling' = [handling EXCEPT ![c] = R],
           \A q \in R : /\ RequestOK(q)'
    PROVE  ApprInv'
<1>1. r.agent \in Agents
    BY DEF ApprInv, ApprTypeOK, Handled
<1>2. target' \in [Agents -> Target]
    BY <1>1 DEF ApprInv, ApprTypeOK
<1>3. ApprovalsKeep /\ TargetsKeep
    BY <1>1 DEF ApprovalsKeep, TargetsKeep, ApprInv, ApprTypeOK
<1>4. ApprovalsOK' /\ approval' \in [ApprovalIds -> ApprovalRow]
    BY DEF ApprInv, ApprovalsOK, ApprTypeOK
<1>5. \A p \in ApprovalIds : approval'[p].status = "approved" => approval[p].status = "approved"
    OBVIOUS
<1> QED
    BY <1>2, <1>3, <1>4, <1>5, StepOfOne DEF ApprInv

LEMMA ExecuteKeeps == ASSUME NEW c \in Handlers, ApprInv, Execute(c) PROVE ApprInv'
<1>1. PICK r \in handling[c] :
          /\ r.pc = "execute"
          /\ IF Permitted(r.action, target[r.agent])
             THEN /\ target' = [target EXCEPT ![r.agent] = Effect(r.action, @)]
                  /\ GoesOn(c, r, AfterExecute(r))
             ELSE Answered(c) /\ UNCHANGED target
    BY DEF Execute
<1>2. UNCHANGED <<dual, approval>>
    BY DEF Execute
<1>3. r \in Handled /\ RequestOK(r) /\ r.action \in Actions /\ r.agent \in Agents
    BY DEF ApprInv, ApprTypeOK, Handled
<1>4. CASE ~Permitted(r.action, target[r.agent])
    BY <1>1, <1>2, <1>4, StepOfRequestOnly DEF Answered
<1>5. CASE Permitted(r.action, target[r.agent])
    <2>1. PICK t : t = Effect(r.action, target[r.agent])
        OBVIOUS
    <2>2. /\ t \in Target
          /\ t.revoked = (target[r.agent].revoked \/ r.action = "revoke")
          /\ t.reissued = (target[r.agent].reissued \/ r.action = "reissue")
          /\ t.rotated = (target[r.agent].rotated \/ r.action = "rotate")
          /\ t.configured = target[r.agent].configured
        <3>1. target[r.agent] \in Target
            BY <1>3 DEF ApprInv, ApprTypeOK
        <3> QED
            BY <2>1, <3>1 DEF Effect, Target
    <2>3. target' = [target EXCEPT ![r.agent] = t]
        BY <1>1, <1>5, <2>1
    <2>4. target'[r.agent] = t
        BY <1>3, <2>3 DEF ApprInv, ApprTypeOK
    <2> DEFINE kept == /\ target[r.agent].revoked => t.revoked
                       /\ target[r.agent].reissued => t.reissued
                       /\ target[r.agent].rotated => t.rotated
                       /\ ~target[r.agent].configured => ~t.configured
    <2>5. kept
        BY <2>2
    <2> HIDE DEF kept
    <2>6. CASE r.action # "revoke" /\ r.way # "approve"
        <3>1. Answered(c)
            BY <1>1, <1>5, <2>6 DEF GoesOn, AfterExecute
        <3>2. PICK R \in SUBSET Handled : R = {}
            OBVIOUS
        <3>3. /\ handling' = [handling EXCEPT ![c] = R]
              /\ \A q \in R : FALSE
            BY <3>1, <3>2 DEF Answered
        <3> QED
            BY <1>2, <2>2, <2>3, <2>5, <3>3, ChangedTarget DEF kept
    <2>7. CASE r.action = "revoke" \/ r.way = "approve"
        <3>1. PICK pc \in {"remove", "check"} :
                  /\ Goes(c, r, pc)
                  /\ pc = "remove" => r.action = "revoke"
                  /\ pc = "check" => r.way = "approve" /\ r.action # "revoke"
            BY <1>1, <1>5, <2>7 DEF GoesOn, AfterExecute
        <3> DEFINE q == [r EXCEPT !.pc = pc]
        <3>2. pc \in {"policy", "find", "insert", "execute", "remove", "check", "mark"}
            BY <3>1
        <3>3. /\ q \in Handled /\ q.pc = pc /\ q.user = r.user /\ q.way = r.way
              /\ q.action = r.action /\ q.agent = r.agent /\ q.approval = r.approval
              /\ q.on = r.on
            BY <1>3, <3>2 DEF Handled
        <3> HIDE DEF q
        <3>4. handling' = [handling EXCEPT ![c] = {q}]
            BY <3>1 DEF Goes, q
        <3>5. Progress(q)'
            BY <1>1, <1>3, <2>2, <2>4, <3>1, <3>3 DEF RequestOK, Progress, Done, Actions
        <3>6. Warrant(q)'
            BY <1>1, <1>2, <1>3, <3>1, <3>3 DEF RequestOK, Warrant
        <3> QED
            BY <1>2, <2>2, <2>3, <2>5, <3>3, <3>4, <3>5, <3>6, ChangedTarget
               DEF RequestOK, kept
    <2> QED
        BY <2>6, <2>7
<1> QED
    BY <1>4, <1>5

LEMMA RemoveKeeps == ASSUME NEW c \in Handlers, ApprInv, RemovePeer(c) PROVE ApprInv'
<1>1. PICK r \in handling[c] :
          /\ r.pc = "remove"
          /\ target' = [target EXCEPT ![r.agent].configured = FALSE]
          /\ GoesOn(c, r, IF r.way = "approve" THEN "check" ELSE "done")
    BY DEF RemovePeer
<1>2. UNCHANGED <<dual, approval>>
    BY DEF RemovePeer
<1>3. /\ r \in Handled /\ RequestOK(r) /\ r.agent \in Agents /\ target[r.agent] \in Target
    BY DEF ApprInv, ApprTypeOK, Handled
<1>4. PICK t : t = [target[r.agent] EXCEPT !.configured = FALSE]
    OBVIOUS
<1>5. /\ t \in Target /\ t.revoked = target[r.agent].revoked
      /\ t.reissued = target[r.agent].reissued /\ t.rotated = target[r.agent].rotated
      /\ ~t.configured
    BY <1>3, <1>4 DEF Target
<1>6. target' = [target EXCEPT ![r.agent] = t] /\ target'[r.agent] = t
    BY <1>1, <1>3, <1>4 DEF ApprInv, ApprTypeOK
<1>7. CASE r.way # "approve"
    <2>1. Answered(c)
        BY <1>1, <1>7 DEF GoesOn
    <2>2. PICK R \in SUBSET Handled : R = {}
        OBVIOUS
    <2>3. /\ handling' = [handling EXCEPT ![c] = R]
          /\ \A q \in R : FALSE
        BY <2>1, <2>2 DEF Answered
    <2> QED
        BY <1>2, <1>5, <1>6, <2>3, ChangedTarget
<1>8. CASE r.way = "approve"
    <2> DEFINE q == [r EXCEPT !.pc = "check"]
    <2>1. /\ q \in Handled /\ q.pc = "check" /\ q.user = r.user /\ q.way = r.way
          /\ q.action = r.action /\ q.agent = r.agent /\ q.approval = r.approval
          /\ q.on = r.on
        BY <1>3, MovedRequest
    <2> HIDE DEF q
    <2>2. handling' = [handling EXCEPT ![c] = {q}]
        BY <1>1, <1>8 DEF GoesOn, Goes, q
    <2>3. Progress(q)'
        BY <1>1, <1>3, <1>5, <1>6, <1>8, <2>1 DEF RequestOK, Progress, Done
    <2>4. Warrant(q)'
        BY <1>2, <1>3, <1>8, <2>1 DEF RequestOK, Warrant
    <2> QED
        BY <1>2, <1>5, <1>6, <2>1, <2>2, <2>3, <2>4, ChangedTarget DEF RequestOK
<1> QED
    BY <1>7, <1>8

\* What Mark makes of an approval it finds pending.
LEMMA Marked ==
    ASSUME NEW c \in Handlers, ApprInv, Mark(c)
    PROVE  /\ UNCHANGED <<dual, target>> /\ handling' = [handling EXCEPT ![c] = {}]
           /\ \E r \in handling[c] : \E p \in r.approval, v \in Verdicts :
                /\ r.pc = "mark"
                /\ v = "approved" => r.way = "approve"
                /\ p \in ApprovalIds
                /\ \/ approval' = approval
                   \/ /\ approval[p].status = "pending"
                      /\ approval' \in [ApprovalIds -> ApprovalRow]
                      /\ approval'[p].status = v /\ approval'[p].decider = {r.user}
                      /\ approval'[p].action = approval[p].action
                      /\ approval'[p].agent = approval[p].agent
                      /\ approval'[p].by = approval[p].by
                      /\ \A q \in ApprovalIds \ {p} : approval'[q] = approval[q]
<1>1. PICK r \in handling[c] : \E p \in r.approval :
          /\ r.pc = "mark"
          /\ approval' = IF approval[p].status = "pending"
                         THEN [approval EXCEPT
                                  ![p].status = IF r.way = "approve" THEN "approved"
                                                ELSE "rejected",
                                  ![p].decider = {r.user}]
                         ELSE approval
    BY DEF Mark
<1>2. PICK p \in r.approval :
          /\ r.pc = "mark"
          /\ approval' = IF approval[p].status = "pending"
                         THEN [approval EXCEPT
                                  ![p].status = IF r.way = "approve" THEN "approved"
                                                ELSE "rejected",
                                  ![p].decider = {r.user}]
                         ELSE approval
    BY <1>1
<1>3. PICK v \in Verdicts : v = IF r.way = "approve" THEN "approved" ELSE "rejected"
    BY DEF Verdicts
<1>4. p \in ApprovalIds /\ r.user \in Staff /\ approval[p] \in ApprovalRow
      /\ approval \in [ApprovalIds -> ApprovalRow]
    BY DEF ApprInv, ApprTypeOK, Handled
<1>5. PICK row : row = [approval[p] EXCEPT !.status = v, !.decider = {r.user}]
    OBVIOUS
<1>6. /\ row \in ApprovalRow /\ row.status = v /\ row.decider = {r.user}
      /\ row.action = approval[p].action /\ row.agent = approval[p].agent
      /\ row.by = approval[p].by
    BY <1>3, <1>4, <1>5 DEF ApprovalRow
<1>7. CASE approval[p].status = "pending"
    <2>1. approval' = [approval EXCEPT ![p] = row]
        BY <1>2, <1>3, <1>4, <1>5, <1>7
    <2>2. /\ approval' \in [ApprovalIds -> ApprovalRow] /\ approval'[p] = row
          /\ \A q \in ApprovalIds \ {p} : approval'[q] = approval[q]
        BY <1>4, <1>6, <2>1
    <2>3. \E w \in Verdicts :
              /\ w = "approved" => r.way = "approve"
              /\ approval'[p].status = w /\ approval'[p].decider = {r.user}
              /\ approval'[p].action = approval[p].action
              /\ approval'[p].agent = approval[p].agent
              /\ approval'[p].by = approval[p].by
        BY <1>3, <1>6, <2>2
    <2> QED
        BY <1>1, <1>2, <1>4, <1>7, <2>2, <2>3 DEF Mark, Answered
<1>8. CASE approval[p].status # "pending"
    BY <1>2, <1>3, <1>4, <1>8 DEF Mark, Answered
<1> QED
    BY <1>7, <1>8

LEMMA MarkKeeps == ASSUME NEW c \in Handlers, ApprInv, Mark(c) PROVE ApprInv'
<1>1. UNCHANGED <<dual, target>> /\ handling' = [handling EXCEPT ![c] = {}]
    BY Marked
<1>2. CASE approval' = approval
    BY <1>1, <1>2, StepOfRequestOnly
<1>3. CASE approval' # approval
    <2>1. PICK r \in handling[c] : \E p \in r.approval, v \in Verdicts :
                /\ r.pc = "mark"
                /\ v = "approved" => r.way = "approve"
                /\ p \in ApprovalIds
                /\ approval[p].status = "pending"
                /\ approval' \in [ApprovalIds -> ApprovalRow]
                /\ approval'[p].status = v
                /\ approval'[p].action = approval[p].action
                /\ approval'[p].agent = approval[p].agent
                /\ approval'[p].by = approval[p].by
                /\ \A q \in ApprovalIds \ {p} : approval'[q] = approval[q]
        BY <1>3, Marked
    <2>2. PICK p \in r.approval, v \in Verdicts :
                /\ r.pc = "mark"
                /\ v = "approved" => r.way = "approve"
                /\ p \in ApprovalIds
                /\ approval[p].status = "pending"
                /\ approval' \in [ApprovalIds -> ApprovalRow]
                /\ approval'[p].status = v
                /\ approval'[p].action = approval[p].action
                /\ approval'[p].agent = approval[p].agent
                /\ approval'[p].by = approval[p].by
                /\ \A q \in ApprovalIds \ {p} : approval'[q] = approval[q]
        BY <2>1
    <2>3. ApprovalsKeep /\ TargetsKeep
        BY <1>1, <2>2 DEF ApprovalsKeep, TargetsKeep, Verdicts
    <2>4. ApprovalsOK'
        BY <2>2 DEF ApprInv, ApprovalsOK, Verdicts
    <2>5. v = "approved" => \A a \in approval'[p].agent : Done(approval'[p].action, target'[a])
        <3>1. RequestOK(r)
            BY DEF ApprInv
        <3>2. approval'[p].action = r.action /\ approval'[p].agent = {r.agent}
            BY <2>2, <3>1 DEF RequestOK, Warrant
        <3> QED
            BY <1>1, <2>2, <3>1, <3>2 DEF RequestOK, Progress
    <2>6. ASSUME NEW q \in ApprovalIds, approval'[q].status = "approved"
          PROVE  \/ approval[q].status = "approved"
                 \/ \A a \in approval'[q].agent : Done(approval'[q].action, target'[a])
        BY <2>2, <2>5, <2>6
    <2> QED
        BY <1>1, <2>2, <2>3, <2>4, <2>6, StepOfAnswer DEF ApprInv, ApprTypeOK
<1> QED
    BY <1>2, <1>3

LEMMA PolicyKeeps == ApprInv /\ UpdateSecurityPolicy => ApprInv'
<1> SUFFICES ASSUME ApprInv, UpdateSecurityPolicy PROVE ApprInv'
    OBVIOUS
<1>1. UNCHANGED <<approval, target>> /\ dual' \in BOOLEAN
    BY DEF UpdateSecurityPolicy, ApprInv, ApprTypeOK
<1>2. \A r \in Handled :
          LET q == [r EXCEPT !.on = FALSE] IN
          /\ q \in Handled /\ ~q.on /\ q.pc = r.pc /\ q.user = r.user /\ q.way = r.way
          /\ q.action = r.action /\ q.agent = r.agent /\ q.approval = r.approval
    BY DEF Handled
<1>3. \A c \in Handlers : handling'[c] = {[r EXCEPT !.on = FALSE] : r \in handling[c]}
    BY DEF UpdateSecurityPolicy
<1>4. ASSUME NEW c \in Handlers, NEW q \in handling'[c]
      PROVE  q \in Handled /\ RequestOK(q)'
    <2>1. PICK r \in handling[c] : q = [r EXCEPT !.on = FALSE]
        BY <1>3
    <2>2. r \in Handled /\ RequestOK(r)
        BY DEF ApprInv, ApprTypeOK
    <2>3. /\ q \in Handled /\ ~q.on /\ q.pc = r.pc /\ q.user = r.user /\ q.way = r.way
          /\ q.action = r.action /\ q.agent = r.agent /\ q.approval = r.approval
        BY <1>2, <2>1, <2>2
    <2>4. Progress(q)'
        BY <1>1, <2>2, <2>3 DEF RequestOK, Progress, Done
    <2>5. Warrant(q)'
        BY <1>1, <2>2, <2>3 DEF RequestOK, Warrant
    <2> QED
        BY <2>3, <2>4, <2>5 DEF RequestOK
<1>5. handling' \in [Handlers -> SUBSET Handled]
    <2>1. handling' = [c \in Handlers |-> handling'[c]]
        BY DEF UpdateSecurityPolicy
    <2> QED
        BY <1>4, <2>1
<1>6. OneRequest'
    <2> SUFFICES ASSUME NEW c \in Handlers, NEW q \in handling'[c], NEW s \in handling'[c]
                 PROVE  q = s
        BY DEF OneRequest
    <2>1. PICK r \in handling[c] : q = [r EXCEPT !.on = FALSE]
        BY <1>3
    <2>2. PICK t \in handling[c] : s = [t EXCEPT !.on = FALSE]
        BY <1>3
    <2>3. r = t
        BY DEF ApprInv, OneRequest
    <2> QED
        BY <2>1, <2>2, <2>3
<1>7. ApprovalsOK' /\ ApprovedIsDone'
    BY <1>1 DEF ApprInv, ApprovalsOK, ApprovedIsDone, Done
<1> QED
    BY <1>1, <1>4, <1>5, <1>6, <1>7 DEF ApprInv, ApprTypeOK

LEMMA ApprInvIsInductive == ApprInv /\ [ApprNext]_apprVars => ApprInv'
<1> SUFFICES ASSUME ApprInv, [ApprNext]_apprVars PROVE ApprInv'
    OBVIOUS
<1>1. CASE UpdateSecurityPolicy
    BY <1>1, PolicyKeeps
<1>2. ASSUME NEW c \in Handlers, AskAction(c) PROVE ApprInv'
    BY <1>2, AskKeeps
<1>3. ASSUME NEW c \in Handlers, InsertApproval(c) PROVE ApprInv'
    BY <1>3, InsertKeeps
<1>4. ASSUME NEW c \in Handlers, DecideApproval(c) PROVE ApprInv'
    BY <1>4, DecideKeeps
<1>5. ASSUME NEW c \in Handlers, Execute(c) PROVE ApprInv'
    BY <1>5, ExecuteKeeps
<1>6. ASSUME NEW c \in Handlers, RemovePeer(c) PROVE ApprInv'
    BY <1>6, RemoveKeeps
<1>7. ASSUME NEW c \in Handlers, Mark(c) PROVE ApprInv'
    BY <1>7, MarkKeeps
<1>8. ASSUME NEW c \in Handlers,
             \/ GetPolicy(c) \/ FindPendingByActionResource(c)
             \/ CheckApproval(c) \/ FailRequest(c)
      PROVE  ApprInv'
    BY <1>8, ReadKeeps
<1>9. CASE UNCHANGED apprVars
    BY <1>9 DEF apprVars, ApprInv, ApprTypeOK, ApprovalsOK, OneRequest, RequestOK,
                Progress, Warrant, ApprovedIsDone, Done
<1> QED
    BY <1>1, <1>2, <1>3, <1>4, <1>5, <1>6, <1>7, <1>8, <1>9 DEF ApprNext

LEMMA ApprInvHolds == ApprSpec => []ApprInv
BY InitApprovals, ApprInvIsInductive, PTL DEF ApprSpec

-----------------------------------------------------------------------------
\* Every approval, agent and request has its type at every time.
THEOREM ApprovalsTyped == ApprSpec => []ApprTypeOK
<1>1. ApprInv => ApprTypeOK
    BY DEF ApprInv
<1> QED
    BY <1>1, ApprInvHolds, PTL

\* An approval says "approved" only when its action has been carried out to
\* the end (executeApprovedSecurityAction before MarkApproved).
THEOREM ApprovedHasTakenEffect == ApprSpec => []ApprovedIsDone
<1>1. ApprInv => ApprovedIsDone
    BY DEF ApprInv
<1> QED
    BY <1>1, ApprInvHolds, PTL

\* While dual approval is on, no request but a bulk one changes an agent with
\* nobody but its own user behind it (maybeRequestDualApproval).
THEOREM NobodyActsAlone == ApprSpec => AloneOnlyInBulk
<1>1. ASSUME ApprInv, [ApprNext]_apprVars,
             NEW way \in Ways \ {"bulk"}, ChangesAlone(way)
      PROVE  FALSE
    <2>1. PICK c \in Handlers : \E r \in handling[c] \ handling'[c] :
              /\ r.way = way /\ r.on
              /\ \A p \in r.approval : r.user \in approval[p].by
              /\ target' # target
        BY <1>1 DEF ChangesAlone
    <2>2. PICK r \in handling[c] \ handling'[c] :
              /\ r.way = way /\ r.on
              /\ \A p \in r.approval : r.user \in approval[p].by
              /\ target' # target
        BY <2>1
    <2>3. PICK d \in Handlers : Execute(d) \/ RemovePeer(d)
        BY <1>1, <2>2 DEF ApprNext, apprVars, UpdateSecurityPolicy, AskAction, GetPolicy,
            FindPendingByActionResource, InsertApproval, DecideApproval, CheckApproval,
            Mark, FailRequest
    <2>4. PICK s \in handling[d] : s.pc \in {"execute", "remove"}
        BY <2>3 DEF Execute, RemovePeer
    <2>5. \A e \in Handlers \ {d} : handling'[e] = handling[e]
        BY <1>1, <2>3 DEF Execute, RemovePeer, GoesOn, Goes, Answered, ApprInv, ApprTypeOK
    <2>6. r = s
        BY <1>1, <2>2, <2>4, <2>5 DEF ApprInv, OneRequest
    <2>7. RequestOK(r)
        BY <1>1 DEF ApprInv
    <2> QED
        BY <1>1, <2>2, <2>4, <2>6, <2>7 DEF RequestOK, Progress, Warrant, Ways
<1>2. ApprInv /\ [ApprNext]_apprVars => [\A way \in Ways \ {"bulk"} : ~ChangesAlone(way)]_apprVars
    BY <1>1
<1> QED
    BY <1>2, ApprInvHolds, PTL DEF ApprSpec, AloneOnlyInBulk

\* However requests interleave, every approval is decided at most once, by
\* somebody who did not ask for it, and for ever: the handlers and the
\* service implement Decision (MarkApproved, MarkRejected).
THEOREM ApprovalsAreDecidedOnce == ApprSpec => DecidedOnce
<1>1. ApprInit => Decisions!Init
    BY NoApprovalIs DEF ApprInit, Decisions!Init
<1>2. ApprInv /\ [ApprNext]_apprVars => [Decisions!Next]_<<
              [p \in ApprovalIds |-> approval[p].status],
              [p \in ApprovalIds |-> approval[p].by],
              [p \in ApprovalIds |-> approval[p].decider]>>
    <2> SUFFICES ASSUME ApprInv, [ApprNext]_apprVars, approval' # approval
                 PROVE  Decisions!Next
        OBVIOUS
    <2>1. PICK c \in Handlers : InsertApproval(c) \/ Mark(c)
        BY DEF ApprNext, apprVars, UpdateSecurityPolicy, AskAction, GetPolicy,
            FindPendingByActionResource, DecideApproval, CheckApproval, Execute, RemovePeer,
            FailRequest
    <2>2. CASE InsertApproval(c)
        <3>1. PICK r \in handling[c], p \in ApprovalIds :
                  /\ approval[p].status = "absent"
                  /\ approval' = [approval EXCEPT ![p] =
                         [NoApproval EXCEPT !.status = "pending", !.action = r.action,
                                            !.agent = {r.agent}, !.by = {r.user}]]
            BY <2>2 DEF InsertApproval
        <3>2. PICK v : v = [NoApproval EXCEPT !.status = "pending", !.action = r.action,
                                              !.agent = {r.agent}, !.by = {r.user}]
            OBVIOUS
        <3>3. r.user \in Staff /\ r.action \in Actions /\ r.agent \in Agents
            BY DEF ApprInv, ApprTypeOK, Handled
        <3>4. v.status = "pending" /\ v.by = {r.user} /\ v.decider = {}
            BY <3>2, <3>3, NoApprovalIs DEF ApprovalRow
        <3>5. /\ approval'[p] = v /\ approval[p].decider = {}
              /\ \A q \in ApprovalIds \ {p} : approval'[q] = approval[q]
            BY <3>1, <3>2 DEF ApprInv, ApprTypeOK, ApprovalsOK
        <3>6. Decisions!Ask(p, r.user)
            <4>1. approval[p].status = "absent"
                BY <3>1
            <4>2. [q \in ApprovalIds |-> approval'[q].status]
                  = [[q \in ApprovalIds |-> approval[q].status] EXCEPT ![p] = "pending"]
                BY <3>4, <3>5
            <4>3. [q \in ApprovalIds |-> approval'[q].by]
                  = [[q \in ApprovalIds |-> approval[q].by] EXCEPT ![p] = {r.user}]
                BY <3>4, <3>5
            <4>4. [q \in ApprovalIds |-> approval'[q].decider]
                  = [q \in ApprovalIds |-> approval[q].decider]
                BY <3>4, <3>5
            <4> QED
                BY <4>1, <4>2, <4>3, <4>4 DEF Decisions!Ask
        <3> QED
            BY <3>3, <3>6 DEF Decisions!Next
    <2>3. CASE Mark(c)
        <3>1. PICK r \in handling[c] : \E p \in r.approval, v \in Verdicts :
                /\ p \in ApprovalIds
                /\ approval[p].status = "pending"
                /\ approval'[p].status = v /\ approval'[p].decider = {r.user}
                /\ approval'[p].by = approval[p].by
                /\ \A q \in ApprovalIds \ {p} : approval'[q] = approval[q]
            BY <2>3, Marked
        <3>2. PICK p \in r.approval, v \in Verdicts :
                /\ p \in ApprovalIds
                /\ approval[p].status = "pending"
                /\ approval'[p].status = v /\ approval'[p].decider = {r.user}
                /\ approval'[p].by = approval[p].by
                /\ \A q \in ApprovalIds \ {p} : approval'[q] = approval[q]
            BY <3>1
        <3>3. r.user \in Staff /\ r.user \notin approval[p].by
            BY DEF ApprInv, ApprTypeOK, Handled, RequestOK, Warrant
        <3>4. Decisions!Decide(p, r.user, v)
            BY <3>2, <3>3 DEF Decisions!Decide
        <3> QED
            BY <3>2, <3>3, <3>4 DEF Decisions!Next, Verdicts
    <2> QED
        BY <2>1, <2>2, <2>3
<1> QED
    BY <1>1, <1>2, ApprInvHolds, PTL DEF ApprSpec, DecidedOnce, Decisions!Spec
===============================================================================
