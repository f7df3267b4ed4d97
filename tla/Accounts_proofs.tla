--------------------------- MODULE Accounts_proofs ---------------------------
(***************************************************************************)
(* Sessions, second factors and the last administrator, for every set of   *)
(* users, sessions, keys and clients and any number of requests.           *)
(*                                                                         *)
(* A request acts on what it read.  RequestOK says what that is still      *)
(* worth: passwords are only replaced by newer ones, a secret that has     *)
(* been confirmed stays so, and whom a request is about does not change.   *)
(***************************************************************************)
EXTENDS Accounts, FiniteSetTheorems, TLAPS

RequestOK(r) ==
    /\ \A u, v \in r.actor : u = v
    /\ \A u, v \in r.target : u = v
    /\ r.pc = "setMFA.on" => \A u \in r.actor : r.value \in confirmed[u]
    /\ r.pc = "revokeAll" => \A u \in r.target : r.value <= user[u].password
    /\ r.pc \in {"patchUser.update", "deleteUser.delete"} => r.actor \intersect r.target = {}

RequestsOK == \A c \in Clients : \A r \in request[c] : RequestOK(r)

UsersOK == \A u \in Users :
    /\ user[u].mfa => user[u].secret \in confirmed[u]
    /\ settled[u] <= user[u].password
    /\ user[u].status = "absent" => user[u].password = 0

\* An active session is not older than the last password answered.
SessionsOK == \A s \in Sessions : session[s].status = "active" =>
    \A u \in session[s].owner : settled[u] <= session[s].at

AcctInv == AcctTypeOK /\ RequestsOK /\ UsersOK /\ SessionsOK

USE AccountsAssumption

LEMMA NoUserIs ==
    /\ NoUser \in UserRow /\ NoUser.status = "absent"
    /\ NoUser.password = 0 /\ NoUser.mfa = FALSE
BY DEF NoUser, UserRow, Roles

LEMMA NoSessionIs == NoSession \in SessionRow /\ NoSession.status = "absent"
BY DEF NoSession, SessionRow

LEMMA FreshIs ==
    ASSUME NEW pc \in Stages, NEW actor \in SUBSET Users, NEW target \in SUBSET Users,
           NEW s \in SUBSET Sessions, NEW role \in Roles, NEW value \in Nat
    PROVE  LET r == Fresh(pc, actor, target, s, role, value) IN
           /\ r \in Request /\ r.pc = pc /\ r.actor = actor /\ r.target = target
           /\ r.session = s /\ r.role = role /\ r.value = value
BY DEF Fresh, Request

\* A request that goes on is a fresh one with the same actor.
LEMMA MovedIsFresh ==
    ASSUME NEW r \in Request, NEW pc \in Stages, NEW target \in SUBSET Users,
           NEW s \in SUBSET Sessions, NEW role \in Roles, NEW value \in Nat
    PROVE  /\ [r EXCEPT !.pc = pc]
              = Fresh(pc, r.actor, r.target, r.session, r.role, r.value)
           /\ [r EXCEPT !.pc = pc, !.role = role]
              = Fresh(pc, r.actor, r.target, r.session, role, r.value)
           /\ [r EXCEPT !.pc = pc, !.target = target]
              = Fresh(pc, r.actor, target, r.session, r.role, r.value)
           /\ [r EXCEPT !.pc = pc, !.value = value]
              = Fresh(pc, r.actor, r.target, r.session, r.role, value)
           /\ [r EXCEPT !.pc = pc, !.session = s]
              = Fresh(pc, r.actor, r.target, s, r.role, r.value)
<1>1. \A q \in Request : q = Fresh(q.pc, q.actor, q.target, q.session, q.role, q.value)
    BY DEF Request, Fresh
<1>2. [r EXCEPT !.pc = pc] = Fresh(pc, r.actor, r.target, r.session, r.role, r.value)
    <2>1. PICK q : q = [r EXCEPT !.pc = pc]
        OBVIOUS
    <2>2. /\ q \in Request /\ q.pc = pc /\ q.actor = r.actor /\ q.target = r.target
          /\ q.session = r.session /\ q.role = r.role /\ q.value = r.value
        BY <2>1 DEF Request
    <2> QED
        BY <1>1, <2>1, <2>2
<1>3. [r EXCEPT !.pc = pc, !.role = role] = Fresh(pc, r.actor, r.target, r.session, role, r.value)
    <2>1. PICK q : q = [r EXCEPT !.pc = pc, !.role = role]
        OBVIOUS
    <2>2. /\ q \in Request /\ q.pc = pc /\ q.actor = r.actor /\ q.target = r.target
          /\ q.session = r.session /\ q.role = role /\ q.value = r.value
        BY <2>1 DEF Request
    <2> QED
        BY <1>1, <2>1, <2>2
<1>4. [r EXCEPT !.pc = pc, !.target = target] = Fresh(pc, r.actor, target, r.session, r.role, r.value)
    <2>1. PICK q : q = [r EXCEPT !.pc = pc, !.target = target]
        OBVIOUS
    <2>2. /\ q \in Request /\ q.pc = pc /\ q.actor = r.actor /\ q.target = target
          /\ q.session = r.session /\ q.role = r.role /\ q.value = r.value
        BY <2>1 DEF Request
    <2> QED
        BY <1>1, <2>1, <2>2
<1>5. [r EXCEPT !.pc = pc, !.value = value] = Fresh(pc, r.actor, r.target, r.session, r.role, value)
    <2>1. PICK q : q = [r EXCEPT !.pc = pc, !.value = value]
        OBVIOUS
    <2>2. /\ q \in Request /\ q.pc = pc /\ q.actor = r.actor /\ q.target = r.target
          /\ q.session = r.session /\ q.role = r.role /\ q.value = value
        BY <2>1 DEF Request
    <2> QED
        BY <1>1, <2>1, <2>2
<1>6. [r EXCEPT !.pc = pc, !.session = s] = Fresh(pc, r.actor, r.target, s, r.role, r.value)
    <2>1. PICK q : q = [r EXCEPT !.pc = pc, !.session = s]
        OBVIOUS
    <2>2. /\ q \in Request /\ q.pc = pc /\ q.actor = r.actor /\ q.target = r.target
          /\ q.session = s /\ q.role = r.role /\ q.value = r.value
        BY <2>1 DEF Request
    <2> QED
        BY <1>1, <2>1, <2>2
<1> QED
    BY <1>2, <1>3, <1>4, <1>5, <1>6

LEMMA RetargetedIsFresh ==
    ASSUME NEW r \in Request, NEW pc \in Stages, NEW target \in SUBSET Users, NEW role \in Roles
    PROVE  [r EXCEPT !.pc = pc, !.target = target, !.role = role]
           = Fresh(pc, r.actor, target, r.session, role, r.value)
<1>1. \A q \in Request : q = Fresh(q.pc, q.actor, q.target, q.session, q.role, q.value)
    BY DEF Request, Fresh
<1>2. PICK q : q = [r EXCEPT !.pc = pc, !.target = target, !.role = role]
    OBVIOUS
<1>3. /\ q \in Request /\ q.pc = pc /\ q.actor = r.actor /\ q.target = target
      /\ q.session = r.session /\ q.role = role /\ q.value = r.value
    BY <1>2 DEF Request
<1> QED
    BY <1>1, <1>2, <1>3

\* What holds of users only gets newer.
UsersGrow == \A u \in Users :
    /\ confirmed[u] \subseteq confirmed'[u]
    /\ user[u].password <= user'[u].password

LEMMA RequestKept ==
    ASSUME UsersGrow, user \in [Users -> UserRow], user' \in [Users -> UserRow],
           NEW r \in Request, RequestOK(r)
    PROVE  RequestOK(r)'
<1>1. r.actor \subseteq Users /\ r.target \subseteq Users /\ r.value \in Nat
    BY DEF Request
<1>2. \A u \in Users : user[u].password \in Nat /\ user'[u].password \in Nat
    BY DEF UserRow
<1>3. r.pc = "setMFA.on" => \A u \in r.actor : r.value \in confirmed'[u]
    BY <1>1 DEF RequestOK, UsersGrow
<1>4. r.pc = "revokeAll" => \A u \in r.target : r.value <= user'[u].password
    BY <1>1, <1>2 DEF RequestOK, UsersGrow
<1> QED
    BY <1>3, <1>4 DEF RequestOK

\* A step of one client, given what becomes of its request.
LEMMA StepOfClient ==
    ASSUME NEW c \in Clients, AcctInv,
           NEW R \in SUBSET Request, Cardinality(R) <= 1,
           request' = [request EXCEPT ![c] = R],
           \A r \in R : RequestOK(r)',
           user' \in [Users -> UserRow], session' \in [Sessions -> SessionRow],
           account' \subseteq Roles, key' \in [Keys -> KeyRow],
           settled' \in [Users -> Nat], drawn' \in [Users -> Nat],
           confirmed' \in [Users -> SUBSET Nat], made' \in 0..MaxRequests,
           UsersGrow, UsersOK', SessionsOK'
    PROVE  AcctInv'
<1>1. \A d \in Clients : request'[d] = IF d = c THEN R ELSE request[d]
    BY DEF AcctInv, AcctTypeOK
<1>2. request' \in [Clients -> SUBSET Request]
    BY DEF AcctInv, AcctTypeOK
<1>3. \A d \in Clients : Cardinality(request'[d]) <= 1
    BY <1>1 DEF AcctInv, AcctTypeOK
<1>4. AcctTypeOK'
    BY <1>2, <1>3 DEF AcctTypeOK
<1>5. RequestsOK'
    <2> SUFFICES ASSUME NEW d \in Clients, NEW r \in request'[d] PROVE RequestOK(r)'
        BY DEF RequestsOK
    <2>1. CASE d = c
        BY <1>1, <2>1
    <2>2. CASE d # c
        <3>1. r \in Request /\ RequestOK(r) /\ user \in [Users -> UserRow]
            BY <1>1, <2>2 DEF AcctInv, AcctTypeOK, RequestsOK
        <3> QED
            BY <3>1, RequestKept
    <2> QED
        BY <2>1, <2>2
<1> QED
    BY <1>4, <1>5 DEF AcctInv

LEMMA UserOfIs ==
    ASSUME NEW role \in Roles, NEW must \in BOOLEAN
    PROVE  LET v == UserOf(role, must) IN
           /\ v \in UserRow /\ v.status = "present" /\ v.role = role
           /\ v.password = 0 /\ v.mfa = FALSE
<1>1. PICK v : v = UserOf(role, must)
    OBVIOUS
<1>2. v \in UserRow /\ v.status = "present" /\ v.role = role /\ v.password = 0 /\ v.mfa = FALSE
    BY <1>1, NoUserIs DEF UserOf, UserRow
<1> QED
    BY <1>1, <1>2

LEMMA SessionOfIs == ASSUME NEW u \in Users PROVE SessionOf(u) \in SessionRow
<1>1. PICK v : v = SessionOf(u)
    OBVIOUS
<1>2. v \in SessionRow
    BY <1>1, NoSessionIs DEF SessionOf, SessionRow
<1> QED
    BY <1>1, <1>2

LEMMA InitAccounts == AcctInit => AcctInv
<1> SUFFICES ASSUME AcctInit PROVE AcctInv
    OBVIOUS
<1>1. ASSUME NEW u \in Users
      PROVE  user[u] \in UserRow /\ user[u].password = 0 /\ user[u].mfa = FALSE
    <2>1. user[u] = NoUser \/ \E r \in Roles, m \in BOOLEAN : user[u] = UserOf(r, m)
        BY DEF AcctInit
    <2>2. CASE user[u] = NoUser
        BY <2>2, NoUserIs
    <2>3. ASSUME NEW r \in Roles, NEW m \in BOOLEAN, user[u] = UserOf(r, m)
          PROVE  user[u] \in UserRow /\ user[u].password = 0 /\ user[u].mfa = FALSE
        <3>1. PICK v : v = UserOf(r, m)
            OBVIOUS
        <3>2. v \in UserRow /\ v.password = 0 /\ v.mfa = FALSE
            BY <3>1, UserOfIs
        <3> QED
            BY <2>3, <3>1, <3>2
    <2> QED
        BY <2>1, <2>2, <2>3
<1>2. ASSUME NEW s \in Sessions PROVE session[s] \in SessionRow
    <2>1. session[s] = NoSession \/ \E u \in Users : session[s] = SessionOf(u)
        BY DEF AcctInit
    <2> QED
        BY <2>1, NoSessionIs, SessionOfIs
<1>3. user \in [Users -> UserRow] /\ session \in [Sessions -> SessionRow]
    <2>1. user = [u \in Users |-> user[u]] /\ session = [s \in Sessions |-> session[s]]
        BY DEF AcctInit
    <2> QED
        BY <1>1, <1>2, <2>1
<1>4. \A c \in Clients : request[c] = {} /\ Cardinality(request[c]) <= 1
    BY FS_EmptySet DEF AcctInit
<1>5. AcctTypeOK
    <2>1. account \subseteq Roles /\ key \in [Keys -> KeyRow] /\ made \in 0..MaxRequests
        BY DEF AcctInit, Roles, KeyRow
    <2>2. request \in [Clients -> SUBSET Request]
        BY DEF AcctInit
    <2>3. settled \in [Users -> Nat] /\ drawn \in [Users -> Nat] /\ confirmed \in [Users -> SUBSET Nat]
        BY DEF AcctInit
    <2> QED
        BY <1>3, <1>4, <2>1, <2>2, <2>3 DEF AcctTypeOK
<1>6. RequestsOK
    BY <1>4 DEF RequestsOK
<1>7. UsersOK
    <2>1. \A u \in Users : settled[u] = 0
        BY DEF AcctInit
    <2>2. \A u \in Users : user[u].password = 0 /\ ~user[u].mfa
        BY <1>1
    <2> QED
        BY <2>1, <2>2 DEF UsersOK
<1>8. SessionsOK
    <2>1. \A s \in Sessions : session[s].owner \subseteq Users /\ session[s].at \in Nat
        BY <1>2 DEF SessionRow
    <2>2. \A u \in Users : settled[u] = 0
        BY DEF AcctInit
    <2> QED
        BY <2>1, <2>2 DEF SessionsOK
<1> QED
    BY <1>5, <1>6, <1>7, <1>8 DEF AcctInv

-----------------------------------------------------------------------------
\* The request ends: it may be any part of the state that has changed.
LEMMA StepOfAnswer ==
    ASSUME NEW c \in Clients, AcctInv, Answer(c),
           user' \in [Users -> UserRow], session' \in [Sessions -> SessionRow],
           account' \subseteq Roles, key' \in [Keys -> KeyRow],
           settled' \in [Users -> Nat], drawn' = drawn, confirmed' = confirmed,
           UsersGrow, UsersOK', SessionsOK'
    PROVE  AcctInv'
<1>1. PICK R \in SUBSET Request : R = {}
    OBVIOUS
<1>2. /\ Cardinality(R) <= 1 /\ request' = [request EXCEPT ![c] = R]
      /\ \A r \in R : RequestOK(r)'
    BY <1>1, FS_EmptySet DEF Answer
<1>3. /\ drawn' \in [Users -> Nat] /\ confirmed' \in [Users -> SUBSET Nat]
      /\ made' \in 0..MaxRequests
    BY DEF Answer, AcctInv, AcctTypeOK
<1> QED
    BY <1>2, <1>3, StepOfClient

\* The request goes on as q.
LEMMA StepOfGoing ==
    ASSUME NEW c \in Clients, AcctInv, NEW q \in Request,
           request' = [request EXCEPT ![c] = {q}], RequestOK(q)',
           made' \in 0..MaxRequests,
           user' \in [Users -> UserRow], UNCHANGED <<session, account, key, settled>>,
           drawn' \in [Users -> Nat], confirmed' \in [Users -> SUBSET Nat],
           UsersGrow, UsersOK'
    PROVE  AcctInv'
<1>1. PICK R \in SUBSET Request : R = {q}
    OBVIOUS
<1>2. /\ Cardinality(R) <= 1 /\ request' = [request EXCEPT ![c] = R]
      /\ \A r \in R : RequestOK(r)'
    <2>1. Cardinality({q}) = 1
        BY FS_Singleton
    <2> QED
        BY <1>1, <2>1
<1>3. /\ session' \in [Sessions -> SessionRow] /\ account' \subseteq Roles
      /\ key' \in [Keys -> KeyRow] /\ settled' \in [Users -> Nat]
    BY DEF AcctInv, AcctTypeOK
<1>4. SessionsOK'
    BY DEF AcctInv, SessionsOK
<1> QED
    BY <1>2, <1>3, <1>4, StepOfClient

\* A step that only reads.
LEMMA StepOfReading ==
    ASSUME NEW c \in Clients, AcctInv, NEW q \in Request,
           request' = [request EXCEPT ![c] = {q}], RequestOK(q),
           made' \in 0..MaxRequests, UNCHANGED <<tables, history>>
    PROVE  AcctInv'
<1>1. UNCHANGED <<user, session, account, key, settled, drawn, confirmed>>
    BY DEF tables, history
<1>2. UsersGrow /\ UsersOK'
    BY <1>1 DEF UsersGrow, AcctInv, AcctTypeOK, UserRow, UsersOK
<1>3. RequestOK(q)'
    BY <1>1 DEF RequestOK
<1>4. user' \in [Users -> UserRow] /\ drawn' \in [Users -> Nat] /\ confirmed' \in [Users -> SUBSET Nat]
    BY <1>1 DEF AcctInv, AcctTypeOK
<1> QED
    BY <1>1, <1>2, <1>3, <1>4, StepOfGoing

LEMMA BeginMade ==
    ASSUME AcctInv, NEW c, NEW r, Begin(c, r)
    PROVE  made' \in 0..MaxRequests /\ request' = [request EXCEPT ![c] = {r}]
BY DEF Begin, AcctInv, AcctTypeOK

LEMMA ContinueMade ==
    ASSUME AcctInv, NEW c, NEW r, Continue(c, r)
    PROVE  made' \in 0..MaxRequests /\ request' = [request EXCEPT ![c] = {r}]
BY DEF Continue, AcctInv, AcctTypeOK

\* The stages at which a request only carries on what it has read.
LEMMA PlainStages ==
    /\ Ops \subseteq Stages
    /\ \A p \in Ops : p \notin {"setMFA.on", "revokeAll", "patchUser.update", "deleteUser.delete"}
    /\ {"createSession", "oidc.insert", "oidc.update", "validate", "createUser.insert",
        "patchUser.keep", "resetPassword.update", "changePassword.update",
        "revokeSession.revoke", "patchUser.update", "deleteUser.delete",
        "revokeAll", "setMFA.on", "setMFA.off"} \subseteq Stages
BY DEF Stages, Ops, AdminOps, OwnOps

LEMMA AdmittingKeeps ==
    ASSUME NEW c \in Clients, AcctInv, NEW pc \in Stages, NEW actor \in SUBSET Users,
           NEW target \in SUBSET Users, NEW s \in SUBSET Sessions, NEW role \in Roles,
           NEW value \in Nat, Begin(c, Fresh(pc, actor, target, s, role, value)),
           \A u, v \in actor : u = v, \A u, v \in target : u = v,
           pc \notin {"setMFA.on", "revokeAll", "patchUser.update", "deleteUser.delete"},
           UNCHANGED <<tables, history>>
    PROVE  AcctInv'
<1>1. PICK q : q = Fresh(pc, actor, target, s, role, value)
    OBVIOUS
<1>2. q \in Request /\ q.pc = pc /\ q.actor = actor /\ q.target = target
    BY <1>1, FreshIs
<1>3. RequestOK(q)
    BY <1>2 DEF RequestOK
<1>4. made' \in 0..MaxRequests /\ request' = [request EXCEPT ![c] = {q}]
    BY <1>1, BeginMade
<1> QED
    BY <1>2, <1>3, <1>4, StepOfReading

LEMMA RequestIs ==
    ASSUME AcctInv, NEW c \in Clients, NEW r \in request[c]
    PROVE  /\ r \in Request /\ r.pc \in Stages /\ r.role \in Roles
           /\ r.actor \in SUBSET Users /\ r.target \in SUBSET Users
           /\ r.session \in SUBSET Sessions /\ r.value \in Nat /\ RequestOK(r)
           /\ \A u, v \in r.actor : u = v
           /\ \A u, v \in r.target : u = v
BY DEF AcctInv, AcctTypeOK, RequestsOK, RequestOK, Request

LEMMA MovingKeeps ==
    ASSUME NEW c \in Clients, AcctInv, NEW r \in request[c], NEW pc \in Stages,
           NEW target \in SUBSET Users, NEW s \in SUBSET Sessions, NEW role \in Roles,
           Continue(c, Fresh(pc, r.actor, target, s, role, r.value)),
           \A u, v \in target : u = v,
           pc \notin {"setMFA.on", "revokeAll"},
           pc \in {"patchUser.update", "deleteUser.delete"} => r.actor \intersect target = {},
           UNCHANGED <<tables, history>>
    PROVE  AcctInv'
<1>1. PICK q : q = Fresh(pc, r.actor, target, s, role, r.value)
    OBVIOUS
<1>2. r.actor \in SUBSET Users /\ r.value \in Nat /\ \A u, v \in r.actor : u = v
    BY RequestIs
<1>3. q \in Request /\ q.pc = pc /\ q.actor = r.actor /\ q.target = target
    BY <1>1, <1>2, FreshIs
<1>4. RequestOK(q)
    BY <1>2, <1>3 DEF RequestOK
<1>5. made' \in 0..MaxRequests /\ request' = [request EXCEPT ![c] = {q}]
    BY <1>1, ContinueMade
<1> QED
    BY <1>3, <1>4, <1>5, StepOfReading

LEMMA UserIs ==
    ASSUME AcctInv, NEW u \in Users
    PROVE  user[u] \in UserRow /\ user[u].role \in Roles /\ user[u].password \in Nat
           /\ user[u].secret \in Nat /\ user[u].mfa \in BOOLEAN /\ {u} \in SUBSET Users
BY DEF AcctInv, AcctTypeOK, UserRow

LEMMA LoginKeeps ==
    ASSUME NEW c \in Clients, AcctInv, LoginWithMetadata(c) \/ OIDC_FindByEmail(c)
    PROVE  AcctInv'
<1>1. PICK u \in Users, role \in Roles, pc \in {"oidc.insert", "oidc.update", "createSession"} :
          /\ Begin(c, Fresh(pc, {}, {u}, {}, role, user[u].password))
          /\ UNCHANGED <<tables, history>>
    <2>1. CASE LoginWithMetadata(c)
        <3>1. PICK u \in Users :
                  /\ Begin(c, Fresh("createSession", {}, {u}, {}, user[u].role, user[u].password))
                  /\ UNCHANGED <<tables, history>>
            BY <2>1 DEF LoginWithMetadata
        <3> QED
            BY <3>1, UserIs
    <2>2. CASE OIDC_FindByEmail(c)
        BY <2>2 DEF OIDC_FindByEmail
    <2> QED
        BY <2>1, <2>2
<1>2. /\ pc \in Stages /\ user[u].password \in Nat /\ {u} \in SUBSET Users
      /\ pc \notin {"setMFA.on", "revokeAll", "patchUser.update", "deleteUser.delete"}
    BY PlainStages, UserIs
<1>3. PICK none \in SUBSET Users, no \in SUBSET Sessions, target \in SUBSET Users, value \in Nat :
          none = {} /\ no = {} /\ target = {u} /\ value = user[u].password
    BY <1>2
<1>4. Begin(c, Fresh(pc, none, target, no, role, value))
    BY <1>1, <1>3
<1>5. (\A x, y \in none : x = y) /\ (\A x, y \in target : x = y)
    BY <1>3
<1> QED
    BY <1>1, <1>2, <1>4, <1>5, AdmittingKeeps

LEMMA AuthenticationKeeps ==
    ASSUME NEW c \in Clients, AcctInv, FindActive(c) \/ AuthenticateAPIKey(c)
    PROVE  AcctInv'
<1>1. CASE FindActive(c)
    <2>1. PICK s \in Sessions : \E u \in session[s].owner :
              /\ Begin(c, Fresh("validate", {u}, {}, {s}, "operator", 0))
              /\ UNCHANGED <<tables, history>>
        BY <1>1 DEF FindActive
    <2>2. PICK u \in session[s].owner :
              /\ Begin(c, Fresh("validate", {u}, {}, {s}, "operator", 0))
              /\ UNCHANGED <<tables, history>>
        BY <2>1
    <2>3. u \in Users
        BY <2>2 DEF AcctInv, AcctTypeOK, SessionRow
    <2>4. PICK actor \in SUBSET Users, none \in SUBSET Users, ss \in SUBSET Sessions,
               pc \in Stages, role \in Roles, value \in Nat :
              /\ actor = {u} /\ none = {} /\ ss = {s} /\ pc = "validate"
              /\ role = "operator" /\ value = 0
        BY <2>3, PlainStages DEF Roles
    <2>5. Begin(c, Fresh(pc, actor, none, ss, role, value))
        BY <2>2, <2>4
    <2>6. (\A x, y \in none : x = y) /\ (\A x, y \in actor : x = y)
          /\ pc \notin {"setMFA.on", "revokeAll", "patchUser.update", "deleteUser.delete"}
        BY <2>4
    <2> QED
        BY <2>2, <2>5, <2>6, AdmittingKeeps
<1>2. CASE AuthenticateAPIKey(c)
    <2>1. PICK k \in Keys, op \in Ops :
              /\ Begin(c, Fresh(op, {}, {}, {}, key[k].role, 0))
              /\ UNCHANGED <<tables, history>>
        BY <1>2 DEF AuthenticateAPIKey
    <2>2. key[k].role \in Roles
        BY DEF AcctInv, AcctTypeOK, KeyRow
    <2>3. PICK none \in SUBSET Users, no \in SUBSET Sessions, value \in Nat :
              none = {} /\ no = {} /\ value = 0
        OBVIOUS
    <2>4. Begin(c, Fresh(op, none, none, no, key[k].role, value))
        BY <2>1, <2>3
    <2>5. op \in Stages /\ (\A x, y \in none : x = y)
          /\ op \notin {"setMFA.on", "revokeAll", "patchUser.update", "deleteUser.delete"}
        BY <2>3, PlainStages
    <2> QED
        BY <2>1, <2>2, <2>4, <2>5, AdmittingKeeps
<1> QED
    BY <1>1, <1>2

LEMMA ValidateKeeps == ASSUME NEW c \in Clients, AcctInv, ValidateToken(c) PROVE AcctInv'
<1>1. PICK r \in request[c], op \in Ops : \E u \in r.actor :
          /\ Continue(c, [r EXCEPT !.pc = op, !.role = user[u].role])
          /\ UNCHANGED <<tables, history>>
    BY DEF ValidateToken
<1>2. PICK u \in r.actor :
          /\ Continue(c, [r EXCEPT !.pc = op, !.role = user[u].role])
          /\ UNCHANGED <<tables, history>>
    BY <1>1
<1>3. u \in Users /\ op \in Stages /\ r \in Request
      /\ op \notin {"setMFA.on", "revokeAll", "patchUser.update", "deleteUser.delete"}
    BY <1>2, RequestIs, PlainStages
<1>4. PICK role \in Roles : role = user[u].role
    BY <1>3, UserIs
<1>5. [r EXCEPT !.pc = op, !.role = role] = Fresh(op, r.actor, r.target, r.session, role, r.value)
    BY <1>3, MovedIsFresh
<1>6. Continue(c, Fresh(op, r.actor, r.target, r.session, role, r.value))
    BY <1>2, <1>4, <1>5
<1> QED
    BY <1>2, <1>3, <1>6, RequestIs, MovingKeeps

\* The handlers that have read the user, and maybe chosen a role for him.
LEMMA TargetKeeps ==
    ASSUME NEW c \in Clients, AcctInv, NEW r \in request[c], NEW u \in Users,
           NEW pc \in Stages, pc \notin {"setMFA.on", "revokeAll"},
           pc \in {"patchUser.update", "deleteUser.delete"} => u \notin r.actor,
           \/ Continue(c, [r EXCEPT !.pc = pc, !.target = {u}])
           \/ \E role \in Roles : Continue(c, [r EXCEPT !.pc = pc, !.target = {u}, !.role = role]),
           UNCHANGED <<tables, history>>
    PROVE  AcctInv'
<1>1. PICK T \in SUBSET Users : T = {u}
    OBVIOUS
<1>2. (\A x, y \in T : x = y)
      /\ (pc \in {"patchUser.update", "deleteUser.delete"} => r.actor \intersect T = {})
    BY <1>1
<1>3. r \in Request /\ r.role \in Roles /\ r.session \in SUBSET Sessions
    BY RequestIs
<1>4. PICK role \in Roles : Continue(c, Fresh(pc, r.actor, T, r.session, role, r.value))
    <2>1. CASE Continue(c, [r EXCEPT !.pc = pc, !.target = {u}])
        <3>1. [r EXCEPT !.pc = pc, !.target = T]
              = Fresh(pc, r.actor, T, r.session, r.role, r.value)
            BY <1>3, MovedIsFresh
        <3>2. Continue(c, Fresh(pc, r.actor, T, r.session, r.role, r.value))
            BY <1>1, <2>1, <3>1
        <3> QED
            BY <1>3, <3>2
    <2>2. ASSUME NEW role \in Roles,
                 Continue(c, [r EXCEPT !.pc = pc, !.target = {u}, !.role = role])
          PROVE  Continue(c, Fresh(pc, r.actor, T, r.session, role, r.value))
        <3>1. [r EXCEPT !.pc = pc, !.target = T, !.role = role]
              = Fresh(pc, r.actor, T, r.session, role, r.value)
            <4>1. role \in Roles
                BY <2>2
            <4> QED
                BY <1>3, <4>1, RetargetedIsFresh
        <3> QED
            BY <1>1, <2>2, <3>1
    <2> QED
        BY <2>1, <2>2
<1> QED
    BY <1>2, <1>3, <1>4, MovingKeeps

LEMMA CreatingKeeps == ASSUME NEW c \in Clients, AcctInv, CreateUser_FindByEmail(c) PROVE AcctInv'
<1>1. PICK r \in request[c], u \in Users, role \in Roles :
          /\ Continue(c, [r EXCEPT !.pc = "createUser.insert", !.target = {u}, !.role = role])
          /\ UNCHANGED <<tables, history>>
    BY DEF CreateUser_FindByEmail
<1>2. PICK pc \in Stages : pc = "createUser.insert"
    BY PlainStages
<1> QED
    BY <1>1, <1>2, TargetKeeps

LEMMA PatchingKeeps == ASSUME NEW c \in Clients, AcctInv, PatchUser_FindByID(c) PROVE AcctInv'
<1>1. PICK r \in request[c], u \in Users, role \in Roles :
          /\ MayPatch(r, u, role)
          /\ Continue(c, [r EXCEPT !.pc = IF role = user[u].role
                                          THEN "patchUser.keep" ELSE "patchUser.update",
                                   !.target = {u}, !.role = role])
          /\ UNCHANGED <<tables, history>>
    BY DEF PatchUser_FindByID
<1>2. PICK pc \in Stages : pc = IF role = user[u].role THEN "patchUser.keep" ELSE "patchUser.update"
    BY PlainStages
<1>3. pc = "patchUser.update" => u \notin r.actor
    BY <1>1, <1>2 DEF MayPatch
<1>4. pc \notin {"setMFA.on", "revokeAll", "deleteUser.delete"}
    BY <1>2
<1>5. Continue(c, [r EXCEPT !.pc = pc, !.target = {u}, !.role = role])
    BY <1>1, <1>2
<1> QED
    BY <1>1, <1>3, <1>4, <1>5, TargetKeeps

LEMMA DeletingKeeps == ASSUME NEW c \in Clients, AcctInv, DeleteUser_FindByID(c) PROVE AcctInv'
<1>1. PICK r \in request[c] : \E u \in Users \ r.actor :
          /\ Continue(c, [r EXCEPT !.pc = "deleteUser.delete", !.target = {u}])
          /\ UNCHANGED <<tables, history>>
    BY DEF DeleteUser_FindByID
<1>2. PICK u \in Users \ r.actor :
          /\ Continue(c, [r EXCEPT !.pc = "deleteUser.delete", !.target = {u}])
          /\ UNCHANGED <<tables, history>>
    BY <1>1
<1>3. PICK pc \in Stages : pc = "deleteUser.delete"
    BY PlainStages
<1> QED
    BY <1>2, <1>3, TargetKeeps

LEMMA PasswordReadingKeeps ==
    ASSUME NEW c \in Clients, AcctInv,
           ResetUserPassword_FindByID(c) \/ ChangeOwnPassword_FindByID(c)
    PROVE  AcctInv'
<1>1. CASE ResetUserPassword_FindByID(c)
    <2>1. PICK r \in request[c], u \in Users :
              /\ Continue(c, [r EXCEPT !.pc = "resetPassword.update", !.target = {u}])
              /\ UNCHANGED <<tables, history>>
        BY <1>1 DEF ResetUserPassword_FindByID
    <2>2. PICK pc \in Stages : pc = "resetPassword.update"
        BY PlainStages
    <2> QED
        BY <2>1, <2>2, TargetKeeps
<1>2. CASE ChangeOwnPassword_FindByID(c)
    <2>1. PICK r \in request[c] : \E u \in r.actor :
              /\ Continue(c, [r EXCEPT !.pc = "changePassword.update", !.target = {u}])
              /\ UNCHANGED <<tables, history>>
        BY <1>2 DEF ChangeOwnPassword_FindByID
    <2>2. PICK u \in r.actor :
              /\ Continue(c, [r EXCEPT !.pc = "changePassword.update", !.target = {u}])
              /\ UNCHANGED <<tables, history>>
        BY <2>1
    <2>3. u \in Users
        BY <2>2, RequestIs
    <2>4. PICK pc \in Stages : pc = "changePassword.update"
        BY PlainStages
    <2> QED
        BY <2>2, <2>3, <2>4, TargetKeeps
<1> QED
    BY <1>1, <1>2

LEMMA FindSessionKeeps ==
    ASSUME NEW c \in Clients, AcctInv, RevokeSession_FindByPublicID(c) PROVE AcctInv'
<1>1. PICK r \in request[c], s \in Sessions :
          /\ Continue(c, [r EXCEPT !.pc = "revokeSession.revoke", !.session = {s}])
          /\ UNCHANGED <<tables, history>>
    BY DEF RevokeSession_FindByPublicID
<1>2. PICK pc \in Stages : pc = "revokeSession.revoke"
    BY PlainStages
<1>3. PICK ss \in SUBSET Sessions : ss = {s}
    OBVIOUS
<1>4. r \in Request /\ r.role \in Roles /\ r.target \in SUBSET Users /\ \A u, v \in r.target : u = v
    BY RequestIs
<1>5. [r EXCEPT !.pc = pc, !.session = ss] = Fresh(pc, r.actor, r.target, ss, r.role, r.value)
    BY <1>4, MovedIsFresh
<1>6. Continue(c, Fresh(pc, r.actor, r.target, ss, r.role, r.value))
    BY <1>1, <1>2, <1>3, <1>5
<1>7. pc \notin {"setMFA.on", "revokeAll", "patchUser.update", "deleteUser.delete"}
    BY <1>2
<1> QED
    BY <1>1, <1>4, <1>6, <1>7, MovingKeeps

-----------------------------------------------------------------------------
\* The statements that write a user: what the new row must have kept.
UserRowGrows(u, row) ==
    /\ row \in UserRow
    /\ user[u].password <= row.password
    /\ row.mfa => row.secret \in confirmed'[u]
    /\ row.status = "absent" => row.password = 0

LEMMA UsersKept ==
    ASSUME AcctInv, NEW u \in Users, NEW row, UserRowGrows(u, row),
           user' = [user EXCEPT ![u] = row] \/ user' = user,
           UNCHANGED <<settled, confirmed>>
    PROVE  user' \in [Users -> UserRow] /\ UsersGrow /\ UsersOK'
<1>1. user \in [Users -> UserRow] /\ UsersOK /\ row \in UserRow
    BY DEF AcctInv, AcctTypeOK, UserRowGrows
<1>2. user' \in [Users -> UserRow]
    BY <1>1
<1>3. ASSUME NEW v \in Users PROVE user'[v] = user[v] \/ (v = u /\ user'[v] = row)
    <2>1. CASE user' = user
        BY <2>1
    <2>2. CASE user' = [user EXCEPT ![u] = row]
        BY <1>1, <2>2
    <2> QED
        BY <2>1, <2>2
<1>4. \A v \in Users : user[v].password \in Nat /\ settled[v] \in Nat /\ user'[v].password \in Nat
    BY <1>1, <1>2 DEF AcctInv, AcctTypeOK, UserRow
<1>5. UsersGrow
    BY <1>3, <1>4 DEF UsersGrow, UserRowGrows
<1>6. UsersOK'
    <2> SUFFICES ASSUME NEW v \in Users
                 PROVE  /\ user'[v].mfa => user'[v].secret \in confirmed'[v]
                        /\ settled'[v] <= user'[v].password
                        /\ user'[v].status = "absent" => user'[v].password = 0
        BY DEF UsersOK
    <2>1. CASE user'[v] = user[v]
        BY <1>1, <2>1 DEF UsersOK
    <2>2. CASE v = u /\ user'[v] = row
        <3>1. settled[u] <= user[u].password
            BY <1>1 DEF UsersOK
        <3> QED
            BY <1>4, <2>2, <3>1 DEF UserRowGrows
    <2> QED
        BY <1>3, <2>1, <2>2
<1> QED
    BY <1>2, <1>5, <1>6

LEMMA UsersSame ==
    ASSUME AcctInv, UNCHANGED <<user, settled, confirmed>>
    PROVE  user' \in [Users -> UserRow] /\ UsersGrow /\ UsersOK'
<1>1. user' \in [Users -> UserRow] /\ UsersOK'
    BY DEF AcctInv, AcctTypeOK, UsersOK
<1>2. \A v \in Users : user[v].password \in Nat
    BY DEF AcctInv, AcctTypeOK, UserRow
<1> QED
    BY <1>1, <1>2 DEF UsersGrow

\* A statement that writes users only, and ends the request.
LEMMA WritingUserKeeps ==
    ASSUME NEW c \in Clients, AcctInv, NEW u \in Users, NEW row, UserRowGrows(u, row),
           user' = [user EXCEPT ![u] = row] \/ user' = user,
           Answer(c), UNCHANGED <<session, account, key, history>>
    PROVE  AcctInv'
<1>1. UNCHANGED <<settled, drawn, confirmed>>
    BY DEF history
<1>2. user' \in [Users -> UserRow] /\ UsersGrow /\ UsersOK'
    BY <1>1, UsersKept
<1>3. /\ session' \in [Sessions -> SessionRow] /\ account' \subseteq Roles
      /\ key' \in [Keys -> KeyRow] /\ settled' \in [Users -> Nat] /\ SessionsOK'
    BY <1>1 DEF AcctInv, AcctTypeOK, SessionsOK
<1> QED
    BY <1>1, <1>2, <1>3, StepOfAnswer

\* The row UpdateProfile writes.
LEMMA ProfileRow ==
    ASSUME AcctInv, NEW u \in Users, NEW role \in Roles, UpdateProfile(u, role),
           UNCHANGED confirmed
    PROVE  \E row : /\ UserRowGrows(u, row)
                    /\ user' = [user EXCEPT ![u] = row] \/ user' = user
<1>1. PICK row : row = [user[u] EXCEPT !.role = role]
    OBVIOUS
<1>2. user[u] \in UserRow /\ user[u].password \in Nat
    BY UserIs
<1>3. /\ row \in UserRow /\ row.password = user[u].password /\ row.mfa = user[u].mfa
      /\ row.secret = user[u].secret /\ row.status = user[u].status
    BY <1>1, <1>2 DEF UserRow
<1>4. user[u].mfa => user[u].secret \in confirmed'[u]
    BY DEF AcctInv, UsersOK
<1>5. user[u].status = "absent" => user[u].password = 0
    BY DEF AcctInv, UsersOK
<1>6. UserRowGrows(u, row)
    BY <1>2, <1>3, <1>4, <1>5 DEF UserRowGrows
<1>7. [user EXCEPT ![u].role = role] = [user EXCEPT ![u] = row]
    BY <1>1
<1>8. user' = [user EXCEPT ![u] = row] \/ user' = user
    BY <1>7 DEF UpdateProfile
<1> QED
    BY <1>6, <1>8

LEMMA InsertedRow ==
    ASSUME AcctInv, NEW u \in Users, NEW role \in Roles, InsertUser(u, role),
           user[u].status = "absent"
    PROVE  \E row : /\ UserRowGrows(u, row)
                    /\ user' = [user EXCEPT ![u] = row] \/ user' = user
<1>1. PICK row : row = UserOf(role, FALSE)
    OBVIOUS
<1>2. /\ row \in UserRow /\ row.status = "present" /\ row.password = 0 /\ row.mfa = FALSE
    BY <1>1, UserOfIs
<1>3. user[u].password = 0
    BY DEF AcctInv, UsersOK
<1>4. UserRowGrows(u, row)
    BY <1>2, <1>3 DEF UserRowGrows
<1> QED
    BY <1>1, <1>4 DEF InsertUser

LEMMA OIDCWriteKeeps == ASSUME NEW c \in Clients, AcctInv, OIDC_Write(c) PROVE AcctInv'
<1>1. PICK r \in request[c] : \E u \in r.target :
          /\ \/ r.pc = "oidc.update" /\ UpdateProfile(u, r.role)
             \/ r.pc = "oidc.insert" /\ user[u].status = "absent" /\ InsertUser(u, r.role)
          /\ Continue(c, [r EXCEPT !.pc = "createSession"])
          /\ UNCHANGED <<session, account, key, history>>
    BY DEF OIDC_Write
<1>2. PICK u \in r.target :
          /\ \/ r.pc = "oidc.update" /\ UpdateProfile(u, r.role)
             \/ r.pc = "oidc.insert" /\ user[u].status = "absent" /\ InsertUser(u, r.role)
          /\ Continue(c, [r EXCEPT !.pc = "createSession"])
          /\ UNCHANGED <<session, account, key, history>>
    BY <1>1
<1>3. /\ r \in Request /\ r.role \in Roles /\ u \in Users
      /\ (\A x, y \in r.actor : x = y) /\ (\A x, y \in r.target : x = y)
    BY <1>2, RequestIs
<1>4. UNCHANGED <<settled, drawn, confirmed>>
    BY <1>2 DEF history
<1>5. \E row : /\ UserRowGrows(u, row)
               /\ user' = [user EXCEPT ![u] = row] \/ user' = user
    BY <1>2, <1>3, <1>4, ProfileRow, InsertedRow
<1>6. user' \in [Users -> UserRow] /\ UsersGrow /\ UsersOK'
    BY <1>3, <1>4, <1>5, UsersKept
<1>7. PICK q : q = [r EXCEPT !.pc = "createSession"]
    OBVIOUS
<1>8. q \in Request /\ q.pc = "createSession" /\ q.actor = r.actor /\ q.target = r.target
    BY <1>3, <1>7, PlainStages DEF Request
<1>9. RequestOK(q)'
    BY <1>3, <1>8 DEF RequestOK
<1>10. made' \in 0..MaxRequests /\ request' = [request EXCEPT ![c] = {q}]
    BY <1>2, <1>7, ContinueMade
<1>11. drawn' \in [Users -> Nat] /\ confirmed' \in [Users -> SUBSET Nat]
    BY <1>4 DEF AcctInv, AcctTypeOK
<1> QED
    BY <1>2, <1>4, <1>6, <1>8, <1>9, <1>10, <1>11, StepOfGoing

LEMMA ProfileKeeps ==
    ASSUME NEW c \in Clients, AcctInv, CreateUser_Insert(c) \/ PatchUser_UpdateProfile(c)
    PROVE  AcctInv'
<1>1. PICK r \in request[c] : \E u \in r.target :
          /\ UpdateProfile(u, r.role) \/ (user[u].status = "absent" /\ InsertUser(u, r.role))
          /\ Answer(c)
          /\ UNCHANGED <<session, account, key, history>>
    BY DEF CreateUser_Insert, PatchUser_UpdateProfile
<1>2. PICK u \in r.target :
          /\ UpdateProfile(u, r.role) \/ (user[u].status = "absent" /\ InsertUser(u, r.role))
          /\ Answer(c)
          /\ UNCHANGED <<session, account, key, history>>
    BY <1>1
<1>3. r.role \in Roles /\ u \in Users /\ UNCHANGED confirmed
    BY <1>2, RequestIs DEF history
<1>4. \E row : /\ UserRowGrows(u, row)
               /\ user' = [user EXCEPT ![u] = row] \/ user' = user
    BY <1>2, <1>3, ProfileRow, InsertedRow
<1> QED
    BY <1>2, <1>3, <1>4, WritingUserKeeps

LEMMA DeleteKeeps == ASSUME NEW c \in Clients, AcctInv, DeleteUser_Delete(c) PROVE AcctInv'
<1>1. PICK r \in request[c] : \E u \in r.target :
          /\ user' = IF Present(u) THEN [user EXCEPT ![u].status = "deleted"] ELSE user
          /\ Answer(c)
          /\ UNCHANGED <<session, account, key, history>>
    BY DEF DeleteUser_Delete
<1>2. PICK u \in r.target :
          /\ user' = IF Present(u) THEN [user EXCEPT ![u].status = "deleted"] ELSE user
          /\ Answer(c)
          /\ UNCHANGED <<session, account, key, history>>
    BY <1>1
<1>3. u \in Users /\ UNCHANGED confirmed
    BY <1>2, RequestIs DEF history
<1>4. PICK row : row = [user[u] EXCEPT !.status = "deleted"]
    OBVIOUS
<1>5. user[u] \in UserRow /\ user[u].password \in Nat
      /\ (user[u].mfa => user[u].secret \in confirmed'[u])
    BY <1>3, UserIs DEF AcctInv, UsersOK
<1>6. /\ row \in UserRow /\ row.password = user[u].password /\ row.mfa = user[u].mfa
      /\ row.secret = user[u].secret /\ row.status = "deleted"
    BY <1>4, <1>5 DEF UserRow
<1>7. UserRowGrows(u, row)
    BY <1>5, <1>6 DEF UserRowGrows
<1>8. [user EXCEPT ![u].status = "deleted"] = [user EXCEPT ![u] = row]
    BY <1>4
<1>9. user' = [user EXCEPT ![u] = row] \/ user' = user
    BY <1>2, <1>8
<1> QED
    BY <1>2, <1>3, <1>7, <1>9, WritingUserKeeps

LEMMA PasswordKeeps ==
    ASSUME NEW c \in Clients, AcctInv,
           ResetUserPassword_Update(c) \/ ChangeOwnPassword_Update(c)
    PROVE  AcctInv'
<1>1. PICK r \in request[c], must \in BOOLEAN : \E u \in r.target :
          /\ user' = IF Present(u)
                     THEN [user EXCEPT ![u].password = @ + 1, ![u].must = must]
                     ELSE user
          /\ Continue(c, [r EXCEPT !.pc = "revokeAll", !.value = user'[u].password])
          /\ UNCHANGED <<session, account, key, history>>
    BY DEF ResetUserPassword_Update, ChangeOwnPassword_Update, UpdatePassword
<1>2. PICK u \in r.target :
          /\ user' = IF Present(u)
                     THEN [user EXCEPT ![u].password = @ + 1, ![u].must = must]
                     ELSE user
          /\ Continue(c, [r EXCEPT !.pc = "revokeAll", !.value = user'[u].password])
          /\ UNCHANGED <<session, account, key, history>>
    BY <1>1
<1>3. /\ r \in Request /\ u \in Users
      /\ (\A x, y \in r.actor : x = y) /\ (\A x, y \in r.target : x = y)
    BY <1>2, RequestIs
<1>4. UNCHANGED <<settled, drawn, confirmed>>
    BY <1>2 DEF history
<1>5. user[u] \in UserRow /\ user[u].password \in Nat
      /\ (user[u].mfa => user[u].secret \in confirmed'[u])
      /\ (user[u].status = "absent" => user[u].password = 0)
    BY <1>3, <1>4, UserIs DEF AcctInv, UsersOK
<1>6. PICK m \in Nat : m = user[u].password + 1
    BY <1>5
<1>7. PICK row : row = [user[u] EXCEPT !.password = m, !.must = must]
    OBVIOUS
<1>8. /\ row \in UserRow /\ row.password = m /\ row.mfa = user[u].mfa
      /\ row.secret = user[u].secret /\ row.status = user[u].status
    <2>1. must \in BOOLEAN
        BY <1>1
    <2> QED
        BY <1>5, <1>7, <2>1 DEF UserRow
<1>9. user' = IF Present(u) THEN [user EXCEPT ![u] = row] ELSE user
    <2>1. user \in [Users -> UserRow]
        BY DEF AcctInv, AcctTypeOK
    <2>2. [user EXCEPT ![u].password = @ + 1, ![u].must = must] = [user EXCEPT ![u] = row]
        BY <1>3, <1>6, <1>7, <2>1
    <2> QED
        BY <1>2, <2>2
<1>10. user' \in [Users -> UserRow] /\ UsersGrow /\ UsersOK'
    <2>1. CASE Present(u)
        <3>1. UserRowGrows(u, row)
            BY <1>5, <1>6, <1>8, <2>1 DEF UserRowGrows, Present
        <3> QED
            BY <1>3, <1>4, <1>9, <3>1, UsersKept
    <2>2. CASE ~Present(u)
        BY <1>4, <1>9, <2>2, UsersSame
    <2> QED
        BY <2>1, <2>2
<1>11. PICK n \in Nat : n = user'[u].password
    BY <1>3, <1>10 DEF UserRow
<1>12. PICK q : q = [r EXCEPT !.pc = "revokeAll", !.value = n]
    OBVIOUS
<1>13. /\ q \in Request /\ q.pc = "revokeAll" /\ q.actor = r.actor /\ q.target = r.target
       /\ q.value = n
    BY <1>3, <1>12, PlainStages DEF Request
<1>14. \A v \in r.target : v = u
    BY <1>2, <1>3
<1>15. RequestOK(q)'
    BY <1>3, <1>11, <1>13, <1>14 DEF RequestOK
<1>16. made' \in 0..MaxRequests /\ request' = [request EXCEPT ![c] = {q}]
    BY <1>2, <1>11, <1>12, ContinueMade
<1>17. drawn' \in [Users -> Nat] /\ confirmed' \in [Users -> SUBSET Nat]
    BY <1>4 DEF AcctInv, AcctTypeOK
<1> QED
    BY <1>2, <1>4, <1>10, <1>13, <1>15, <1>16, <1>17, StepOfGoing

\* An active session is as it was, or newer than the last password answered.
LEMMA SessionsKept ==
    ASSUME AcctInv, session' \in [Sessions -> SessionRow], settled' = settled,
           \A s \in Sessions : \/ session'[s] = session[s]
                               \/ session'[s].status # "active"
    PROVE  SessionsOK'
BY DEF AcctInv, SessionsOK

\* A statement that writes sessions only, and ends the request.
LEMMA WritingSessionKeeps ==
    ASSUME NEW c \in Clients, AcctInv, session' \in [Sessions -> SessionRow], SessionsOK',
           Answer(c), UNCHANGED <<user, account, key, history>>
    PROVE  AcctInv'
<1>1. UNCHANGED <<settled, drawn, confirmed>>
    BY DEF history
<1>2. user' \in [Users -> UserRow] /\ UsersGrow /\ UsersOK'
    BY <1>1, UsersSame
<1>3. account' \subseteq Roles /\ key' \in [Keys -> KeyRow] /\ settled' \in [Users -> Nat]
    BY <1>1 DEF AcctInv, AcctTypeOK
<1> QED
    BY <1>1, <1>2, <1>3, StepOfAnswer

LEMMA RevokeIs ==
    ASSUME AcctInv, NEW s \in Sessions, Revoke(s)
    PROVE  /\ session' \in [Sessions -> SessionRow]
           /\ \A t \in Sessions : session'[t] = session[t] \/ session'[t].status # "active"
<1>1. session \in [Sessions -> SessionRow]
    BY DEF AcctInv, AcctTypeOK
<1>2. PICK row : row = [session[s] EXCEPT !.status = "revoked"]
    OBVIOUS
<1>3. row \in SessionRow /\ row.status = "revoked"
    BY <1>1, <1>2 DEF SessionRow
<1>4. session' = [session EXCEPT ![s] = row]
    BY <1>2 DEF Revoke
<1> QED
    BY <1>1, <1>3, <1>4

LEMMA RevokingKeeps ==
    ASSUME NEW c \in Clients, AcctInv, Logout(c) \/ RevokeSession_Revoke(c)
    PROVE  AcctInv'
<1>1. PICK r \in request[c] : \E s \in r.session :
          Revoke(s) /\ Answer(c) /\ UNCHANGED <<user, account, key, history>>
    BY DEF Logout, RevokeSession_Revoke
<1>2. PICK s \in r.session : Revoke(s) /\ Answer(c) /\ UNCHANGED <<user, account, key, history>>
    BY <1>1
<1>3. s \in Sessions /\ settled' = settled
    BY <1>2, RequestIs DEF history
<1>4. session' \in [Sessions -> SessionRow] /\ SessionsOK'
    BY <1>2, <1>3, RevokeIs, SessionsKept
<1> QED
    BY <1>2, <1>4, WritingSessionKeeps

LEMMA OpeningKeeps == ASSUME NEW c \in Clients, AcctInv, CreateSessionForUser(c) PROVE AcctInv'
<1>1. PICK r \in request[c], s \in Sessions : \E u \in r.target :
          /\ session' = [session EXCEPT ![s] =
                 [status |-> "active", owner |-> {u}, pw |-> r.value, at |-> user[u].password]]
          /\ Answer(c)
          /\ UNCHANGED <<user, account, key, history>>
    BY DEF CreateSessionForUser
<1>2. PICK u \in r.target :
          /\ session' = [session EXCEPT ![s] =
                 [status |-> "active", owner |-> {u}, pw |-> r.value, at |-> user[u].password]]
          /\ Answer(c)
          /\ UNCHANGED <<user, account, key, history>>
    BY <1>1
<1>3. PICK row : row = [status |-> "active", owner |-> {u}, pw |-> r.value,
                        at |-> user[u].password]
    OBVIOUS
<1>4. u \in Users /\ user[u].password \in Nat /\ r.value \in Nat /\ settled' = settled
    BY <1>2, RequestIs, UserIs DEF history
<1>5. row \in SessionRow /\ row.owner = {u} /\ row.at = user[u].password
    BY <1>3, <1>4 DEF SessionRow
<1>6. session \in [Sessions -> SessionRow] /\ session' = [session EXCEPT ![s] = row]
    BY <1>2, <1>3 DEF AcctInv, AcctTypeOK
<1>7. session' \in [Sessions -> SessionRow]
    BY <1>5, <1>6
<1>8. SessionsOK'
    <2> SUFFICES ASSUME NEW t \in Sessions, session'[t].status = "active",
                        NEW v \in session'[t].owner
                 PROVE  settled[v] <= session'[t].at
        BY <1>4 DEF SessionsOK
    <2>1. CASE t = s
        <3>1. v = u /\ session'[t].at = user[u].password
            BY <1>5, <1>6, <2>1
        <3> QED
            BY <1>4, <3>1 DEF AcctInv, UsersOK
    <2>2. CASE t # s
        <3>1. session'[t] = session[t]
            BY <1>6, <2>2
        <3> QED
            BY <3>1 DEF AcctInv, SessionsOK
    <2> QED
        BY <2>1, <2>2
<1> QED
    BY <1>2, <1>7, <1>8, WritingSessionKeeps

LEMMA RevokeAllKeeps == ASSUME NEW c \in Clients, AcctInv, RevokeAllForUser(c) PROVE AcctInv'
<1>1. PICK r \in request[c] : \E u \in r.target :
          /\ r.pc = "revokeAll"
          /\ session' = [s \in Sessions |->
                 IF u \in session[s].owner THEN [session[s] EXCEPT !.status = "revoked"]
                 ELSE session[s]]
          /\ settled' = [settled EXCEPT ![u] = IF @ < r.value THEN r.value ELSE @]
          /\ Answer(c)
          /\ UNCHANGED <<user, account, key, drawn, confirmed>>
    BY DEF RevokeAllForUser
<1>2. PICK u \in r.target :
          /\ session' = [s \in Sessions |->
                 IF u \in session[s].owner THEN [session[s] EXCEPT !.status = "revoked"]
                 ELSE session[s]]
          /\ settled' = [settled EXCEPT ![u] = IF @ < r.value THEN r.value ELSE @]
          /\ Answer(c)
          /\ UNCHANGED <<user, account, key, drawn, confirmed>>
    BY <1>1
<1>3. /\ u \in Users /\ r.value \in Nat /\ r.value <= user[u].password
      /\ user[u].password \in Nat
    <2>1. u \in Users /\ r.value \in Nat /\ RequestOK(r)
        BY <1>2, RequestIs
    <2>2. r.value <= user[u].password
        BY <1>1, <1>2, <2>1 DEF RequestOK
    <2> QED
        BY <2>1, <2>2, UserIs
<1>4. settled \in [Users -> Nat] /\ session \in [Sessions -> SessionRow]
    BY DEF AcctInv, AcctTypeOK
<1>5. PICK n \in Nat : n = IF settled[u] < r.value THEN r.value ELSE settled[u]
    BY <1>3, <1>4
<1>6. settled' \in [Users -> Nat] /\ \A v \in Users : settled'[v] = IF v = u THEN n ELSE settled[v]
    BY <1>2, <1>4, <1>5
<1>7. n <= user[u].password
    BY <1>3, <1>5 DEF AcctInv, UsersOK
<1>8. ASSUME NEW s \in Sessions
      PROVE  /\ session'[s] \in SessionRow
             /\ session'[s].status = "active" => session'[s] = session[s] /\ u \notin session[s].owner
    <2>1. session[s] \in SessionRow
        BY <1>4
    <2>2. PICK row : row = [session[s] EXCEPT !.status = "revoked"]
        OBVIOUS
    <2>3. row \in SessionRow /\ row.status = "revoked"
        BY <2>1, <2>2 DEF SessionRow
    <2>4. session'[s] = IF u \in session[s].owner THEN row ELSE session[s]
        BY <1>2, <2>2
    <2> QED
        BY <2>1, <2>3, <2>4
<1>9. session' \in [Sessions -> SessionRow]
    <2>1. session' = [s \in Sessions |-> session'[s]]
        BY <1>2
    <2> QED
        BY <1>8, <2>1
<1>10. SessionsOK'
    <2> SUFFICES ASSUME NEW t \in Sessions, session'[t].status = "active",
                        NEW v \in session'[t].owner
                 PROVE  settled'[v] <= session'[t].at
        BY DEF SessionsOK
    <2>1. session'[t] = session[t] /\ u \notin session[t].owner
        BY <1>8
    <2>2. v \in Users /\ v # u
        BY <1>4, <2>1 DEF SessionRow
    <2> QED
        BY <1>6, <2>1, <2>2 DEF AcctInv, SessionsOK
<1>11. user' \in [Users -> UserRow] /\ UsersGrow
    BY <1>2 DEF AcctInv, AcctTypeOK, UsersGrow, UserRow
<1>12. UsersOK'
    BY <1>2, <1>6, <1>7 DEF AcctInv, UsersOK
<1>13. account' \subseteq Roles /\ key' \in [Keys -> KeyRow]
    BY <1>2 DEF AcctInv, AcctTypeOK
<1> QED
    BY <1>2, <1>6, <1>9, <1>10, <1>11, <1>12, <1>13, StepOfAnswer

-----------------------------------------------------------------------------
\* A confirmation: what the user has proved to hold only grows.
LEMMA ConfirmingKeeps ==
    ASSUME NEW c \in Clients, AcctInv, NEW r \in request[c], NEW u \in r.actor,
           NEW pc \in {"setMFA.on", "setMFA.off"}, NEW value \in Nat,
           Continue(c, [r EXCEPT !.pc = pc, !.value = value]),
           drawn' \in [Users -> Nat], confirmed' \in [Users -> SUBSET Nat],
           \A v \in Users : confirmed[v] \subseteq confirmed'[v],
           pc = "setMFA.on" => value \in confirmed'[u],
           UNCHANGED <<user, session, account, key, settled>>
    PROVE  AcctInv'
<1>1. PICK q : q = [r EXCEPT !.pc = pc, !.value = value]
    OBVIOUS
<1>2. /\ r \in Request /\ u \in Users
      /\ (\A x, y \in r.actor : x = y) /\ (\A x, y \in r.target : x = y)
    BY RequestIs
<1>3. /\ q \in Request /\ q.pc = pc /\ q.actor = r.actor /\ q.target = r.target
      /\ q.value = value
    BY <1>1, <1>2, PlainStages DEF Request
<1>4. \A v \in r.actor : v = u
    BY <1>2
<1>5. RequestOK(q)'
    BY <1>2, <1>3, <1>4 DEF RequestOK
<1>6. user' \in [Users -> UserRow] /\ UsersGrow
    BY DEF AcctInv, AcctTypeOK, UserRow, UsersGrow
<1>7. UsersOK'
    BY DEF AcctInv, UsersOK
<1>8. made' \in 0..MaxRequests /\ request' = [request EXCEPT ![c] = {q}]
    BY <1>1, ContinueMade
<1> QED
    BY <1>3, <1>5, <1>6, <1>7, <1>8, StepOfGoing

LEMMA SetupKeeps == ASSUME NEW c \in Clients, AcctInv, SetupOwnTOTP_FindByID(c) PROVE AcctInv'
<1>1. PICK r \in request[c] : \E u \in r.actor :
          /\ drawn' = [drawn EXCEPT ![u] = @ + 1]
          /\ Continue(c, [r EXCEPT !.pc = "setMFA.off", !.value = drawn[u] + 1])
          /\ UNCHANGED <<tables, settled, confirmed>>
    BY DEF SetupOwnTOTP_FindByID
<1>2. PICK u \in r.actor :
          /\ drawn' = [drawn EXCEPT ![u] = @ + 1]
          /\ Continue(c, [r EXCEPT !.pc = "setMFA.off", !.value = drawn[u] + 1])
          /\ UNCHANGED <<tables, settled, confirmed>>
    BY <1>1
<1>3. u \in Users /\ drawn \in [Users -> Nat] /\ confirmed \in [Users -> SUBSET Nat]
    BY <1>2, RequestIs DEF AcctInv, AcctTypeOK
<1>4. PICK n \in Nat : n = drawn[u] + 1
    BY <1>3
<1>5. drawn' \in [Users -> Nat] /\ confirmed' = confirmed
    BY <1>2, <1>3
<1>6. UNCHANGED <<user, session, account, key, settled>>
    BY <1>2 DEF tables
<1>7. PICK pc \in {"setMFA.on", "setMFA.off"} : pc = "setMFA.off"
    OBVIOUS
<1>8. Continue(c, [r EXCEPT !.pc = pc, !.value = n]) /\ pc # "setMFA.on"
    BY <1>2, <1>4, <1>7
<1> QED
    BY <1>2, <1>3, <1>5, <1>6, <1>8, ConfirmingKeeps

LEMMA CodeKeeps ==
    ASSUME NEW c \in Clients, AcctInv, EnableOwnTOTP_FindByID(c) \/ DisableOwnTOTP_FindByID(c)
    PROVE  AcctInv'
<1>1. PICK r \in request[c] : \E u \in r.actor :
          /\ confirmed' = [confirmed EXCEPT ![u] = @ \union {user[u].secret}]
          /\ \/ Continue(c, [r EXCEPT !.pc = "setMFA.on", !.value = user[u].secret])
             \/ Continue(c, [r EXCEPT !.pc = "setMFA.off", !.value = 0])
          /\ UNCHANGED <<tables, settled, drawn>>
    BY DEF EnableOwnTOTP_FindByID, DisableOwnTOTP_FindByID
<1>2. PICK u \in r.actor :
          /\ confirmed' = [confirmed EXCEPT ![u] = @ \union {user[u].secret}]
          /\ \/ Continue(c, [r EXCEPT !.pc = "setMFA.on", !.value = user[u].secret])
             \/ Continue(c, [r EXCEPT !.pc = "setMFA.off", !.value = 0])
          /\ UNCHANGED <<tables, settled, drawn>>
    BY <1>1
<1>3. u \in Users /\ drawn \in [Users -> Nat] /\ confirmed \in [Users -> SUBSET Nat]
    BY <1>2, RequestIs DEF AcctInv, AcctTypeOK
<1>4. PICK n \in Nat : n = user[u].secret
    BY <1>3, UserIs
<1>5. PICK more \in SUBSET Nat : more = confirmed[u] \union {n}
    BY <1>3
<1>6. confirmed' = [confirmed EXCEPT ![u] = more]
    BY <1>2, <1>4, <1>5
<1>7. /\ confirmed' \in [Users -> SUBSET Nat] /\ n \in confirmed'[u]
      /\ \A v \in Users : confirmed[v] \subseteq confirmed'[v]
    BY <1>3, <1>5, <1>6
<1>8. UNCHANGED <<user, session, account, key, settled>> /\ drawn' \in [Users -> Nat]
    BY <1>2, <1>3 DEF tables
<1>9. PICK pc \in {"setMFA.on", "setMFA.off"}, value \in Nat :
          /\ Continue(c, [r EXCEPT !.pc = pc, !.value = value])
          /\ pc = "setMFA.on" => value = n
    <2>1. CASE Continue(c, [r EXCEPT !.pc = "setMFA.on", !.value = user[u].secret])
        BY <1>4, <2>1
    <2>2. CASE Continue(c, [r EXCEPT !.pc = "setMFA.off", !.value = 0])
        BY <2>2
    <2> QED
        BY <1>2, <2>1, <2>2
<1>10. pc = "setMFA.on" => value \in confirmed'[u]
    BY <1>7, <1>9
<1> QED
    BY <1>2, <1>7, <1>8, <1>9, <1>10, ConfirmingKeeps

\* The row SetMFATOTP writes.
LEMMA FactorRow ==
    ASSUME AcctInv, NEW c \in Clients, SetMFATOTP(c)
    PROVE  \E r \in request[c], u \in Users, row \in UserRow :
               /\ r.pc \in {"setMFA.on", "setMFA.off"} /\ u \in r.actor
               /\ row.secret = r.value /\ row.mfa = (r.pc = "setMFA.on")
               /\ row.status = user[u].status /\ row.password = user[u].password
               /\ row.role = user[u].role
               /\ user' = [user EXCEPT ![u] = row] \/ user' = user
<1>1. PICK r \in request[c] : \E u \in r.actor :
          /\ r.pc \in {"setMFA.on", "setMFA.off"}
          /\ user' = IF Present(u)
                     THEN [user EXCEPT ![u].secret = r.value, ![u].mfa = (r.pc = "setMFA.on")]
                     ELSE user
    BY DEF SetMFATOTP
<1>2. PICK u \in r.actor :
          /\ r.pc \in {"setMFA.on", "setMFA.off"}
          /\ user' = IF Present(u)
                     THEN [user EXCEPT ![u].secret = r.value, ![u].mfa = (r.pc = "setMFA.on")]
                     ELSE user
    BY <1>1
<1>3. u \in Users /\ r.value \in Nat /\ user \in [Users -> UserRow]
    BY <1>2, RequestIs DEF AcctInv, AcctTypeOK
<1>4. PICK on \in BOOLEAN : on = (r.pc = "setMFA.on")
    OBVIOUS
<1>5. PICK row : row = [user[u] EXCEPT !.secret = r.value, !.mfa = on]
    OBVIOUS
<1>6. /\ row \in UserRow /\ row.secret = r.value /\ row.mfa = on
      /\ row.status = user[u].status /\ row.password = user[u].password
      /\ row.role = user[u].role
    BY <1>3, <1>5 DEF UserRow
<1>7. [user EXCEPT ![u].secret = r.value, ![u].mfa = (r.pc = "setMFA.on")]
      = [user EXCEPT ![u] = row]
    BY <1>3, <1>4, <1>5
<1>8. user' = [user EXCEPT ![u] = row] \/ user' = user
    BY <1>2, <1>7
<1> QED
    BY <1>2, <1>3, <1>4, <1>6, <1>8

LEMMA FactorKeeps == ASSUME NEW c \in Clients, AcctInv, SetMFATOTP(c) PROVE AcctInv'
<1>1. PICK r \in request[c], u \in Users, row \in UserRow :
               /\ r.pc \in {"setMFA.on", "setMFA.off"} /\ u \in r.actor
               /\ row.secret = r.value /\ row.mfa = (r.pc = "setMFA.on")
               /\ row.status = user[u].status /\ row.password = user[u].password
               /\ user' = [user EXCEPT ![u] = row] \/ user' = user
    BY FactorRow
<1>2. Answer(c) /\ UNCHANGED <<session, account, key, history>> /\ confirmed' = confirmed
    BY DEF SetMFATOTP, history
<1>3. row.mfa => row.secret \in confirmed'[u]
    BY <1>1, <1>2, RequestIs DEF RequestOK
<1>4. UserRowGrows(u, row)
    BY <1>1, <1>3, UserIs DEF UserRowGrows, AcctInv, UsersOK
<1> QED
    BY <1>1, <1>2, <1>4, WritingUserKeeps

LEMMA AccountsKeep ==
    ASSUME NEW c \in Clients, AcctInv,
           \/ CreateServiceAccount(c) \/ CreateAPIKey(c) \/ RevokeAPIKey(c) \/ RequestFails(c)
    PROVE  AcctInv'
<1>1. Answer(c) /\ UNCHANGED <<user, session, settled, drawn, confirmed>>
    BY DEF CreateServiceAccount, CreateAPIKey, RevokeAPIKey, RequestFails, tables, history
<1>2. key \in [Keys -> KeyRow] /\ account \subseteq Roles
    BY DEF AcctInv, AcctTypeOK
<1>3. account' \subseteq Roles
    BY <1>2 DEF CreateServiceAccount, CreateAPIKey, RevokeAPIKey, RequestFails, tables
<1>4. key' \in [Keys -> KeyRow]
    <2>1. CASE CreateServiceAccount(c) \/ RequestFails(c)
        BY <1>2, <2>1 DEF CreateServiceAccount, RequestFails, tables
    <2>2. CASE CreateAPIKey(c)
        <3>1. PICK k \in Keys, role \in account :
                  key' = [key EXCEPT ![k] = [status |-> "active", role |-> role]]
            BY <2>2 DEF CreateAPIKey
        <3>2. [status |-> "active", role |-> role] \in KeyRow
            BY <1>2 DEF KeyRow
        <3> QED
            BY <1>2, <3>1, <3>2
    <2>3. CASE RevokeAPIKey(c)
        <3>1. PICK k \in Keys : key' = [key EXCEPT ![k].status = "revoked"]
            BY <2>3 DEF RevokeAPIKey
        <3> QED
            BY <1>2, <3>1 DEF KeyRow
    <2> QED
        BY <2>1, <2>2, <2>3
<1>5. user' \in [Users -> UserRow] /\ UsersGrow /\ UsersOK'
    BY <1>1, UsersSame
<1>6. session' \in [Sessions -> SessionRow] /\ settled' \in [Users -> Nat] /\ SessionsOK'
    BY <1>1 DEF AcctInv, AcctTypeOK, SessionsOK
<1> QED
    BY <1>1, <1>3, <1>4, <1>5, <1>6, StepOfAnswer

LEMMA ExpireKeeps == ASSUME AcctInv, Expire PROVE AcctInv'
<1>1. UNCHANGED <<user, account, request, settled, drawn, confirmed, made>>
    BY DEF Expire, history
<1>2. key \in [Keys -> KeyRow] /\ session \in [Sessions -> SessionRow]
    BY DEF AcctInv, AcctTypeOK
<1>3. key' \in [Keys -> KeyRow]
    BY <1>2 DEF Expire, KeyRow
<1>4. /\ session' \in [Sessions -> SessionRow]
      /\ \A t \in Sessions : session'[t] = session[t] \/ session'[t].status # "active"
    <2>1. CASE session' = session
        BY <1>2, <2>1
    <2>2. ASSUME NEW s \in Sessions, session' = [session EXCEPT ![s].status = "expired"]
          PROVE  /\ session' \in [Sessions -> SessionRow]
                 /\ \A t \in Sessions : session'[t] = session[t] \/ session'[t].status # "active"
        <3>1. PICK row : row = [session[s] EXCEPT !.status = "expired"]
            OBVIOUS
        <3>2. row \in SessionRow /\ row.status = "expired"
            BY <1>2, <3>1 DEF SessionRow
        <3>3. session' = [session EXCEPT ![s] = row]
            BY <2>2, <3>1
        <3> QED
            BY <1>2, <3>2, <3>3
    <2> QED
        BY <2>1, <2>2 DEF Expire
<1>5. SessionsOK'
    BY <1>1, <1>4, SessionsKept
<1>6. RequestsOK' /\ UsersOK'
    BY <1>1 DEF AcctInv, RequestsOK, RequestOK, UsersOK
<1>7. AcctTypeOK'
    BY <1>1, <1>3, <1>4 DEF AcctInv, AcctTypeOK
<1> QED
    BY <1>5, <1>6, <1>7 DEF AcctInv

LEMMA AccountsStep == AcctInv /\ [AcctNext]_acctVars => AcctInv'
<1> SUFFICES ASSUME AcctInv, [AcctNext]_acctVars PROVE AcctInv'
    OBVIOUS
<1>1. CASE Expire
    BY <1>1, ExpireKeeps
<1>2. ASSUME NEW c \in Clients, LoginWithMetadata(c) \/ OIDC_FindByEmail(c) PROVE AcctInv'
    BY <1>2, LoginKeeps
<1>3. ASSUME NEW c \in Clients, OIDC_Write(c) PROVE AcctInv'
    BY <1>3, OIDCWriteKeeps
<1>4. ASSUME NEW c \in Clients, CreateSessionForUser(c) PROVE AcctInv'
    BY <1>4, OpeningKeeps
<1>5. ASSUME NEW c \in Clients, FindActive(c) \/ AuthenticateAPIKey(c) PROVE AcctInv'
    BY <1>5, AuthenticationKeeps
<1>6. ASSUME NEW c \in Clients, ValidateToken(c) PROVE AcctInv'
    BY <1>6, ValidateKeeps
<1>7. ASSUME NEW c \in Clients, CreateUser_FindByEmail(c) PROVE AcctInv'
    BY <1>7, CreatingKeeps
<1>8. ASSUME NEW c \in Clients, CreateUser_Insert(c) \/ PatchUser_UpdateProfile(c) PROVE AcctInv'
    BY <1>8, ProfileKeeps
<1>9. ASSUME NEW c \in Clients, PatchUser_FindByID(c) PROVE AcctInv'
    BY <1>9, PatchingKeeps
<1>10. ASSUME NEW c \in Clients, DeleteUser_FindByID(c) PROVE AcctInv'
    BY <1>10, DeletingKeeps
<1>11. ASSUME NEW c \in Clients, DeleteUser_Delete(c) PROVE AcctInv'
    BY <1>11, DeleteKeeps
<1>12. ASSUME NEW c \in Clients, ResetUserPassword_FindByID(c) \/ ChangeOwnPassword_FindByID(c)
       PROVE  AcctInv'
    BY <1>12, PasswordReadingKeeps
<1>13. ASSUME NEW c \in Clients, ResetUserPassword_Update(c) \/ ChangeOwnPassword_Update(c)
       PROVE  AcctInv'
    BY <1>13, PasswordKeeps
<1>14. ASSUME NEW c \in Clients, RevokeAllForUser(c) PROVE AcctInv'
    BY <1>14, RevokeAllKeeps
<1>15. ASSUME NEW c \in Clients, SetupOwnTOTP_FindByID(c) PROVE AcctInv'
    BY <1>15, SetupKeeps
<1>16. ASSUME NEW c \in Clients, EnableOwnTOTP_FindByID(c) \/ DisableOwnTOTP_FindByID(c)
       PROVE  AcctInv'
    BY <1>16, CodeKeeps
<1>17. ASSUME NEW c \in Clients, SetMFATOTP(c) PROVE AcctInv'
    BY <1>17, FactorKeeps
<1>18. ASSUME NEW c \in Clients, Logout(c) \/ RevokeSession_Revoke(c) PROVE AcctInv'
    BY <1>18, RevokingKeeps
<1>19. ASSUME NEW c \in Clients, RevokeSession_FindByPublicID(c) PROVE AcctInv'
    BY <1>19, FindSessionKeeps
<1>20. ASSUME NEW c \in Clients,
              \/ CreateServiceAccount(c) \/ CreateAPIKey(c) \/ RevokeAPIKey(c) \/ RequestFails(c)
       PROVE  AcctInv'
    BY <1>20, AccountsKeep
<1>21. CASE UNCHANGED acctVars
    BY <1>21 DEF acctVars, AcctInv, AcctTypeOK, RequestsOK, RequestOK, UsersOK, SessionsOK
<1> QED
    BY <1>1, <1>2, <1>3, <1>4, <1>5, <1>6, <1>7, <1>8, <1>9, <1>10, <1>11, <1>12, <1>13,
       <1>14, <1>15, <1>16, <1>17, <1>18, <1>19, <1>20, <1>21 DEF AcctNext

-----------------------------------------------------------------------------
\* A statement that writes one user leaves the other administrators.
LEMMA OneUserWritten ==
    ASSUME NEW u \in Users, NEW row, user \in [Users -> UserRow],
           user' = [user EXCEPT ![u] = row] \/ user' = user,
           Admins' = {}, Admins # {}
    PROVE  Admins = {u}
<1>1. \A v \in Users : v # u => user'[v] = user[v]
    <2>1. CASE user' = [user EXCEPT ![u] = row]
        BY <2>1
    <2>2. CASE user' = user
        BY <2>2
    <2> QED
        BY <2>1, <2>2
<1>2. \A v \in Admins : v = u
    BY <1>1 DEF Admins, Present
<1> QED
    BY <1>2

LEMMA StillAdmins ==
    ASSUME \A v \in Admins : user'[v].status = user[v].status /\ user'[v].role = user[v].role
    PROVE  Admins \subseteq Admins'
BY DEF Admins, Present

\* The administrators' rows that password and second factor statements keep.
LEMMA FactorKeepsAdmins ==
    ASSUME AcctInv, NEW c \in Clients, SetMFATOTP(c) PROVE Admins \subseteq Admins'
<1>1. PICK r \in request[c], u \in Users, row \in UserRow :
               /\ row.status = user[u].status /\ row.role = user[u].role
               /\ user' = [user EXCEPT ![u] = row] \/ user' = user
    BY FactorRow
<1>2. user \in [Users -> UserRow]
    BY DEF AcctInv, AcctTypeOK
<1>3. ASSUME NEW v \in Users PROVE user'[v].status = user[v].status /\ user'[v].role = user[v].role
    <2>1. CASE user' = user
        BY <2>1
    <2>2. CASE user' = [user EXCEPT ![u] = row]
        <3>1. user'[v] = IF v = u THEN row ELSE user[v]
            BY <1>2, <2>2
        <3> QED
            BY <1>1, <3>1
    <2> QED
        BY <1>1, <2>1, <2>2
<1> QED
    BY <1>3, StillAdmins DEF Admins

LEMMA PasswordKeepsAdmins ==
    ASSUME AcctInv, NEW c \in Clients,
           ResetUserPassword_Update(c) \/ ChangeOwnPassword_Update(c)
    PROVE  Admins \subseteq Admins'
<1>1. PICK r \in request[c], must \in BOOLEAN : \E u \in r.target :
          user' = IF Present(u)
                  THEN [user EXCEPT ![u].password = @ + 1, ![u].must = must]
                  ELSE user
    BY DEF ResetUserPassword_Update, ChangeOwnPassword_Update, UpdatePassword
<1>2. PICK u \in r.target :
          user' = IF Present(u)
                  THEN [user EXCEPT ![u].password = @ + 1, ![u].must = must]
                  ELSE user
    BY <1>1
<1>3. user \in [Users -> UserRow] /\ u \in Users /\ user[u].password \in Nat
    BY <1>2, RequestIs, UserIs DEF AcctInv, AcctTypeOK
<1>4. PICK m \in Nat : m = user[u].password + 1
    BY <1>3
<1>5. PICK row : row = [user[u] EXCEPT !.password = m, !.must = must]
    OBVIOUS
<1>6. row.status = user[u].status /\ row.role = user[u].role
    BY <1>3, <1>5 DEF UserRow
<1>7. [user EXCEPT ![u].password = @ + 1, ![u].must = must] = [user EXCEPT ![u] = row]
    BY <1>3, <1>4, <1>5
<1>8. ASSUME NEW v \in Users PROVE user'[v].status = user[v].status /\ user'[v].role = user[v].role
    <2>1. CASE user' = user
        BY <2>1
    <2>2. CASE user' = [user EXCEPT ![u] = row]
        <3>1. user'[v] = IF v = u THEN row ELSE user[v]
            BY <1>3, <2>2
        <3> QED
            BY <1>6, <3>1
    <2> QED
        BY <1>2, <1>7, <2>1, <2>2
<1> QED
    BY <1>8, StillAdmins DEF Admins

LEMMA InsertKeepsAdmins ==
    ASSUME AcctInv, NEW u \in Users, NEW role, user[u].status = "absent", InsertUser(u, role)
    PROVE  Admins \subseteq Admins'
<1>1. PICK row : row = UserOf(role, FALSE)
    OBVIOUS
<1>2. user' = [user EXCEPT ![u] = row] /\ user \in [Users -> UserRow]
    BY <1>1 DEF InsertUser, AcctInv, AcctTypeOK
<1>3. \A v \in Admins : v \in Users /\ v # u
    BY DEF Admins, Present
<1>4. \A v \in Admins : user'[v] = user[v]
    BY <1>2, <1>3
<1> QED
    BY <1>4, StillAdmins

\* The requests that may take the last administrator away.
Takes(c) ==
    \E r \in request[c] \ request'[c] :
        \/ r.pc \in {"oidc.update", "patchUser.keep"}
        \/ r.actor \intersect Admins = {}

LEMMA OIDCTakes ==
    ASSUME AcctInv, NEW c \in Clients, OIDC_Write(c), Admins # {}, Admins' = {}
    PROVE  Takes(c)
<1>1. PICK r \in request[c] : \E u \in r.target :
          /\ \/ r.pc = "oidc.update"
             \/ user[u].status = "absent" /\ InsertUser(u, r.role)
          /\ Continue(c, [r EXCEPT !.pc = "createSession"])
    BY DEF OIDC_Write
<1>2. PICK u \in r.target :
          /\ \/ r.pc = "oidc.update"
             \/ user[u].status = "absent" /\ InsertUser(u, r.role)
          /\ Continue(c, [r EXCEPT !.pc = "createSession"])
    BY <1>1
<1>3. r \in Request /\ u \in Users
    BY <1>2, RequestIs
<1>4. r.pc = "oidc.update"
    BY <1>2, <1>3, InsertKeepsAdmins
<1>5. PICK q : q = [r EXCEPT !.pc = "createSession"]
    OBVIOUS
<1>6. q.pc = "createSession"
    BY <1>3, <1>5 DEF Request
<1>7. request' = [request EXCEPT ![c] = {q}] /\ request \in [Clients -> SUBSET Request]
    BY <1>2, <1>5 DEF Continue, AcctInv, AcctTypeOK
<1>8. request'[c] = {q}
    BY <1>7
<1>9. r \notin request'[c]
    BY <1>4, <1>6, <1>8
<1> QED
    BY <1>4, <1>9 DEF Takes

LEMMA AnsweredIsGone ==
    ASSUME AcctInv, NEW c \in Clients, Answer(c) PROVE request'[c] = {}
BY DEF AcctInv, AcctTypeOK, Answer

LEMMA ProfileTakes ==
    ASSUME AcctInv, NEW c \in Clients, CreateUser_Insert(c) \/ PatchUser_UpdateProfile(c),
           Admins # {}, Admins' = {}
    PROVE  Takes(c)
<1>1. Answer(c) /\ user \in [Users -> UserRow]
    BY DEF CreateUser_Insert, PatchUser_UpdateProfile, AcctInv, AcctTypeOK
<1>2. CASE CreateUser_Insert(c)
    <2>1. PICK r \in request[c] : \E u \in r.target :
              user[u].status = "absent" /\ InsertUser(u, r.role)
        BY <1>2 DEF CreateUser_Insert
    <2>2. PICK u \in r.target : user[u].status = "absent" /\ InsertUser(u, r.role)
        BY <2>1
    <2>3. u \in Users
        BY <2>2, RequestIs
    <2> QED
        BY <2>2, <2>3, InsertKeepsAdmins
<1>3. CASE PatchUser_UpdateProfile(c)
    <2>1. PICK r \in request[c] : \E u \in r.target :
              r.pc \in {"patchUser.keep", "patchUser.update"} /\ UpdateProfile(u, r.role)
        BY <1>3 DEF PatchUser_UpdateProfile
    <2>2. PICK u \in r.target :
              r.pc \in {"patchUser.keep", "patchUser.update"} /\ UpdateProfile(u, r.role)
        BY <2>1
    <2>3. u \in Users /\ r.role \in Roles /\ RequestOK(r)
        BY <2>2, RequestIs
    <2>4. PICK row : user' = [user EXCEPT ![u] = row] \/ user' = user
        <3>1. PICK row : row = [user[u] EXCEPT !.role = r.role]
            OBVIOUS
        <3>2. [user EXCEPT ![u].role = r.role] = [user EXCEPT ![u] = row]
            BY <3>1
        <3> QED
            BY <2>2, <3>2 DEF UpdateProfile
    <2>5. Admins = {u}
        BY <1>1, <2>3, <2>4, OneUserWritten
    <2>6. r \notin request'[c]
        BY <1>1, AnsweredIsGone
    <2>7. r.pc = "patchUser.update" => r.actor \intersect Admins = {}
        BY <2>2, <2>3, <2>5 DEF RequestOK
    <2> QED
        BY <2>2, <2>6, <2>7 DEF Takes
<1> QED
    BY <1>2, <1>3

LEMMA DeleteTakes ==
    ASSUME AcctInv, NEW c \in Clients, DeleteUser_Delete(c), Admins # {}, Admins' = {}
    PROVE  Takes(c)
<1>1. Answer(c) /\ user \in [Users -> UserRow]
    BY DEF DeleteUser_Delete, AcctInv, AcctTypeOK
<1>2. PICK r \in request[c] : \E u \in r.target :
          /\ r.pc = "deleteUser.delete"
          /\ user' = IF Present(u) THEN [user EXCEPT ![u].status = "deleted"] ELSE user
    BY DEF DeleteUser_Delete
<1>3. PICK u \in r.target :
          /\ r.pc = "deleteUser.delete"
          /\ user' = IF Present(u) THEN [user EXCEPT ![u].status = "deleted"] ELSE user
    BY <1>2
<1>4. u \in Users /\ RequestOK(r)
    BY <1>3, RequestIs
<1>5. PICK row : user' = [user EXCEPT ![u] = row] \/ user' = user
    <2>1. PICK row : row = [user[u] EXCEPT !.status = "deleted"]
        OBVIOUS
    <2>2. [user EXCEPT ![u].status = "deleted"] = [user EXCEPT ![u] = row]
        BY <2>1
    <2> QED
        BY <1>3, <2>2
<1>6. Admins = {u}
    BY <1>1, <1>4, <1>5, OneUserWritten
<1>7. r \notin request'[c]
    BY <1>1, AnsweredIsGone
<1>8. r.actor \intersect Admins = {}
    BY <1>3, <1>4, <1>6 DEF RequestOK
<1> QED
    BY <1>7, <1>8 DEF Takes

LEMMA LastAdminStep ==
    AcctInv /\ [AcctNext]_acctVars =>
        [Admins # {} /\ Admins' = {} => \E c \in Clients : Takes(c)]_acctVars
<1> SUFFICES ASSUME AcctInv, AcctNext, Admins # {}, Admins' = {}
             PROVE  \E c \in Clients : Takes(c)
    OBVIOUS
<1>1. user' # user
    BY DEF Admins, Present
<1>2. PICK c \in Clients :
          \/ OIDC_Write(c) \/ CreateUser_Insert(c) \/ PatchUser_UpdateProfile(c)
          \/ DeleteUser_Delete(c) \/ SetMFATOTP(c)
          \/ ResetUserPassword_Update(c) \/ ChangeOwnPassword_Update(c)
    BY <1>1 DEF AcctNext, Expire, LoginWithMetadata, OIDC_FindByEmail, CreateSessionForUser,
        FindActive, ValidateToken, AuthenticateAPIKey, CreateUser_FindByEmail,
        PatchUser_FindByID, DeleteUser_FindByID, ResetUserPassword_FindByID,
        ChangeOwnPassword_FindByID, RevokeAllForUser, SetupOwnTOTP_FindByID,
        EnableOwnTOTP_FindByID, DisableOwnTOTP_FindByID, Logout,
        RevokeSession_FindByPublicID, RevokeSession_Revoke, CreateServiceAccount,
        CreateAPIKey, RevokeAPIKey, RequestFails, tables
<1>3. ~(SetMFATOTP(c) \/ ResetUserPassword_Update(c) \/ ChangeOwnPassword_Update(c))
    BY FactorKeepsAdmins, PasswordKeepsAdmins
<1> QED
    BY <1>2, <1>3, OIDCTakes, ProfileTakes, DeleteTakes

-----------------------------------------------------------------------------
LEMMA AccountsInvariant == AcctSpec => []AcctInv
<1>1. AcctInv /\ [AcctNext]_acctVars => AcctInv'
    BY AccountsStep
<1> QED
    BY <1>1, InitAccounts, PTL DEF AcctSpec

\* Users, sessions, keys and the requests in progress stay well formed: a
\* client has one request at a time, about one user, on behalf of at most one.
THEOREM AccountsTyped == AcctSpec => []AcctTypeOK
<1>1. AcctInv => AcctTypeOK
    BY DEF AcctInv
<1> QED
    BY <1>1, AccountsInvariant, PTL

\* Setups, enables and disables of any number of requests may overlap between
\* their two statements (handleSetupOwnTOTP, handleEnableOwnTOTP): a second
\* factor in force has a secret that its user has shown to hold.
THEOREM SecretsAreProved == AcctSpec => []EnabledSecretIsConfirmed
<1>1. AcctInv => EnabledSecretIsConfirmed
    BY DEF AcctInv, UsersOK, EnabledSecretIsConfirmed
<1> QED
    BY <1>1, AccountsInvariant, PTL

\* When a password change has been answered (RevokeAllSessionsForUser), the
\* only sessions left that an older password opened are those inserted after
\* the new one was written, by a login that had begun before.
THEOREM PasswordsEndSessions == AcctSpec => []OldSessionsEnd
<1>1. AcctInv => OldSessionsEnd
    <2> SUFFICES ASSUME AcctInv, NEW s \in Sessions, NEW u \in session[s].owner,
                        session[s].status = "active", session[s].pw < settled[u]
                 PROVE  session[s].at > session[s].pw
        BY DEF OldSessionsEnd
    <2>1. session[s] \in SessionRow
        BY DEF AcctInv, AcctTypeOK
    <2>2. u \in Users /\ session[s].at \in Nat /\ session[s].pw \in Nat
        BY <2>1 DEF SessionRow
    <2>3. settled[u] \in Nat /\ settled[u] <= session[s].at
        BY <2>2 DEF AcctInv, AcctTypeOK, SessionsOK
    <2> QED
        BY <2>2, <2>3
<1> QED
    BY <1>1, AccountsInvariant, PTL

\* No request of an administrator who still is one takes the last one away,
\* save by the role an OIDC login maps or a role written back as it was read.
THEOREM AdminsFallByOthers == AcctSpec => LastAdminFalls
<1>1. AcctInv /\ [AcctNext]_acctVars =>
          [Admins # {} /\ Admins' = {} =>
               \E c \in Clients : \E r \in request[c] \ request'[c] :
                   \/ r.pc \in {"oidc.update", "patchUser.keep"}
                   \/ r.actor \intersect Admins = {}]_acctVars
    BY LastAdminStep DEF Takes
<1> QED
    BY <1>1, AccountsInvariant, PTL DEF AcctSpec, LastAdminFalls
==============================================================================
