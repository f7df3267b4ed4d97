------------------------------- MODULE Accounts -------------------------------
(***************************************************************************)
(* Users, sessions, second factors and API keys (internal/auth,            *)
(* internal/apikey, api/sessions.go, api/users.go, api/auth_oidc.go,       *)
(* api/service_accounts.go, internal/bootstrap).                           *)
(*                                                                         *)
(* A step is one SQL statement of one request, together with the checks    *)
(* that follow it; the first statement also chooses what is asked.         *)
(* Requests that are refused leave nothing and end by RequestFails.        *)
(* A password, or a TOTP secret, is the number of times it has been set; a *)
(* client knows the ones it needs.  A user is known by one address.  Time  *)
(* is abstracted: a session may expire at any moment.                      *)
(***************************************************************************)
EXTENDS Naturals, FiniteSets

CONSTANTS
    Users,        \* user ids that newUserID may draw
    Sessions,     \* session ids that generateToken may draw
    Keys,         \* API keys that generateAPIKeyMaterial may draw
    Clients,      \* requests in progress at the same time
    AutoCreate,   \* OIDCConfig.AutoCreateUsers
    MaxChanges,   \* bound: passwords, and secrets, set per user
    MaxRequests   \* bound: requests admitted past their first statement

ASSUME AccountsAssumption ==
    /\ AutoCreate \in BOOLEAN
    /\ MaxChanges \in Nat
    /\ MaxRequests \in Nat

VARIABLES
    user,         \* users
    session,      \* sessions
    account,      \* service_accounts: the roles that have one
    key,          \* service_account_keys
    request,      \* the request each client has in progress, if any
    \* History, read by no handler.
    settled,      \* the newest password whose setting has been answered
    drawn,        \* TOTP secrets generated so far
    confirmed,    \* secrets a user has proved to hold
    made          \* requests made so far

acctVars == <<user, session, account, key, request, settled, drawn, confirmed, made>>

\* Readonly users are to these handlers what operators are.
Roles    == {"admin", "operator"}
UserRow  == [status: {"absent", "present", "deleted"}, role: Roles, must: BOOLEAN,
             password: Nat, secret: Nat, mfa: BOOLEAN]
NoUser   == [status |-> "absent", role |-> "operator", must |-> FALSE,
             password |-> 0, secret |-> 0, mfa |-> FALSE]

\* pw, at: the password of the user when the login read it and when the row
\* was inserted, both history.
SessionRow == [status: {"absent", "active", "expired", "revoked"},
               owner: SUBSET Users, pw: Nat, at: Nat]
NoSession  == [status |-> "absent", owner |-> {}, pw |-> 0, at |-> 0]

UserOf(role, must) == [NoUser EXCEPT !.status = "present", !.role = role, !.must = must]
SessionOf(u)       == [NoSession EXCEPT !.status = "active", !.owner = {u}]

KeyRow == [status: {"absent", "active", "expired", "revoked"}, role: Roles]

\* What is asked for, and the steps on the way.
AdminOps == {"createUser", "patchUser", "resetPassword", "deleteUser",
             "createAccount", "createKey", "revokeKey"}
OwnOps   == {"changePassword", "setupTOTP", "enableTOTP", "disableTOTP", "logout"}
Ops      == AdminOps \union OwnOps \union {"revokeSession"}
Stages   == Ops \union
    {"createSession", "oidc.insert", "oidc.update", "validate", "createUser.insert",
     "patchUser.keep", "patchUser.update", "deleteUser.delete",
     "resetPassword.update", "changePassword.update", "revokeAll",
     "setMFA.on", "setMFA.off", "revokeSession.revoke"}

\* actor is empty for an API key and for a login; role is the one of the
\* claims until a handler has read its target, then the one to write; value
\* is the password or secret read or written.
Request == [pc: Stages, actor: SUBSET Users, target: SUBSET Users,
            session: SUBSET Sessions, role: Roles, value: Nat]

Present(u) == user[u].status = "present"
Admins     == {u \in Users : Present(u) /\ user[u].role = "admin"}

\* MaybeCreateAdmin, or any users and sessions of an earlier life.
AcctInit ==
    /\ user \in [Users -> {NoUser} \union {UserOf(r, m) : r \in Roles, m \in BOOLEAN}]
    /\ Admins # {}
    /\ session \in [Sessions ->
           {NoSession} \union {SessionOf(u) : u \in {v \in Users : Present(v)}}]
    /\ account \in {{}, {"admin"}}
    /\ key = [k \in Keys |-> [status |-> "absent", role |-> "operator"]]
    /\ request = [c \in Clients |-> {}]
    /\ settled = [u \in Users |-> 0]
    /\ drawn = [u \in Users |-> 0]
    /\ confirmed = [u \in Users |-> {}]
    /\ made = 0

-----------------------------------------------------------------------------
Begin(c, r) ==
    /\ request[c] = {}
    /\ made < MaxRequests
    /\ made' = made + 1
    /\ request' = [request EXCEPT ![c] = {r}]

Continue(c, r) == request' = [request EXCEPT ![c] = {r}] /\ UNCHANGED made
Answer(c)      == request' = [request EXCEPT ![c] = {}] /\ UNCHANGED made

tables  == <<user, session, account, key>>
history == <<settled, drawn, confirmed>>

Fresh(pc, actor, target, s, role, value) ==
    [pc |-> pc, actor |-> actor, target |-> target, session |-> s,
     role |-> role, value |-> value]

-----------------------------------------------------------------------------
(* Logging in.                                                             *)

\* The password, and the code where user[u].mfa asks for one, are right.
LoginWithMetadata(c) ==
    \E u \in Users :
        /\ Present(u)
        /\ Begin(c, Fresh("createSession", {}, {u}, {}, user[u].role,
                          user[u].password))
        /\ UNCHANGED <<tables, history>>

\* Mutant: an identity none of whose groups maps to a role is let in, with
\* the empty role that resolveRole returns beside its error.
OIDC_FindByEmail_Unmapped(c) ==
    \E u \in Users, role \in Roles \union {""} :
        /\ \/ user[u].status = "absent" /\ AutoCreate
           \/ Present(u)
        /\ Begin(c, Fresh(IF ~Present(u) THEN "oidc.insert"
                          ELSE IF user[u].role # role THEN "oidc.update"
                          ELSE "createSession",
                          {}, {u}, {}, role, user[u].password))
        /\ UNCHANGED <<tables, history>>

\* handleOIDCCallback with an identity whose groups map to a role; the
\* identity provider vouches for the second factor.
OIDC_FindByEmail(c) ==
    \E u \in Users, role \in Roles :
        /\ \/ user[u].status = "absent" /\ AutoCreate
           \/ Present(u)
        /\ Begin(c, Fresh(IF ~Present(u) THEN "oidc.insert"
                          ELSE IF user[u].role # role THEN "oidc.update"
                          ELSE "createSession",
                          {}, {u}, {}, role, user[u].password))
        /\ UNCHANGED <<tables, history>>

\* UpdateProfile and Insert change one row; users.email is UNIQUE.
UpdateProfile(u, role) ==
    user' = IF Present(u) THEN [user EXCEPT ![u].role = role] ELSE user
InsertUser(u, role) ==
    user' = [user EXCEPT ![u] = UserOf(role, FALSE)]

OIDC_Write(c) ==
    \E r \in request[c] : \E u \in r.target :
        /\ \/ r.pc = "oidc.update" /\ UpdateProfile(u, r.role)
           \/ r.pc = "oidc.insert" /\ user[u].status = "absent" /\ InsertUser(u, r.role)
        /\ Continue(c, [r EXCEPT !.pc = "createSession"])
        /\ UNCHANGED <<session, account, key, history>>

\* Where foreign keys are not enforced the owner may be gone by now.
CreateSessionForUser(c) ==
    \E r \in request[c], s \in Sessions : \E u \in r.target :
        /\ r.pc = "createSession"
        /\ session[s].status = "absent"
        /\ session' = [session EXCEPT ![s] =
               [status |-> "active", owner |-> {u}, pw |-> r.value,
                at |-> user[u].password]]
        /\ Answer(c)
        /\ UNCHANGED <<user, account, key, history>>

Expire ==
    /\ \/ \E s \in Sessions :
              /\ session[s].status = "active"
              /\ session' = [session EXCEPT ![s].status = "expired"]
              /\ UNCHANGED key
       \/ \E k \in Keys :
              /\ key[k].status = "active"
              /\ key' = [key EXCEPT ![k].status = "expired"]
              /\ UNCHANGED session
    /\ UNCHANGED <<user, account, request, history, made>>

-----------------------------------------------------------------------------
(* authenticate: by session in two reads, or by API key in one.            *)

FindActive(c) ==
    \E s \in Sessions : \E u \in session[s].owner :
        /\ session[s].status = "active"
        /\ Present(u)
        /\ Begin(c, Fresh("validate", {u}, {}, {s}, "operator", 0))
        /\ UNCHANGED <<tables, history>>

\* isPasswordChangeAllowedPath
IsPasswordChangeAllowed(op) == op \in {"changePassword", "logout"}

ValidateToken(c) ==
    \E r \in request[c], op \in Ops : \E u \in r.actor :
        /\ r.pc = "validate"
        /\ Present(u)
        /\ user[u].must => IsPasswordChangeAllowed(op)
        /\ op \in AdminOps => user[u].role = "admin"
        /\ Continue(c, [r EXCEPT !.pc = op, !.role = user[u].role])
        /\ UNCHANGED <<tables, history>>

\* A key has no user row, hence nothing of its own.
AuthenticateAPIKey(c) ==
    \E k \in Keys, op \in Ops \ OwnOps :
        /\ key[k].status = "active"
        /\ op \in AdminOps => key[k].role = "admin"
        /\ Begin(c, Fresh(op, {}, {}, {}, key[k].role, 0))
        /\ UNCHANGED <<tables, history>>

-----------------------------------------------------------------------------
(* api/users.go                                                            *)

CreateUser_FindByEmail(c) ==
    \E r \in request[c], u \in Users, role \in Roles :
        /\ r.pc = "createUser"
        /\ user[u].status = "absent"
        /\ Continue(c, [r EXCEPT !.pc = "createUser.insert", !.target = {u},
                                 !.role = role])
        /\ UNCHANGED <<tables, history>>

CreateUser_Insert(c) ==
    \E r \in request[c] : \E u \in r.target :
        /\ r.pc = "createUser.insert"
        /\ user[u].status = "absent"
        /\ InsertUser(u, r.role)
        /\ Answer(c)
        /\ UNCHANGED <<session, account, key, history>>

\* Mutant: administrators may change their own role.
MayPatch_Own(r, u, role) == TRUE

MayPatch(r, u, role) == u \in r.actor => role = user[u].role

PatchUser_FindByID(c) ==
    \E r \in request[c], u \in Users, role \in Roles :
        /\ r.pc = "patchUser"
        /\ Present(u)
        /\ MayPatch(r, u, role)
        /\ Continue(c, [r EXCEPT !.pc = IF role = user[u].role
                                         THEN "patchUser.keep" ELSE "patchUser.update",
                                 !.target = {u}, !.role = role])
        /\ UNCHANGED <<tables, history>>

\* A role that is to stay is written back as it was read.
PatchUser_UpdateProfile(c) ==
    \E r \in request[c] : \E u \in r.target :
        /\ r.pc \in {"patchUser.keep", "patchUser.update"}
        /\ UpdateProfile(u, r.role)
        /\ Answer(c)
        /\ UNCHANGED <<session, account, key, history>>

\* The user to delete must be another one, and exist.
DeleteUser_FindByID(c) ==
    \E r \in request[c] : \E u \in Users \ r.actor :
        /\ r.pc = "deleteUser"
        /\ Present(u)
        /\ Continue(c, [r EXCEPT !.pc = "deleteUser.delete", !.target = {u}])
        /\ UNCHANGED <<tables, history>>

\* Session rows, which nothing deletes, refer to their user: the statement
\* fails where foreign keys are enforced and they have one.
DeleteUser_Delete(c) ==
    \E r \in request[c] : \E u \in r.target :
        /\ r.pc = "deleteUser.delete"
        /\ user' = IF Present(u) THEN [user EXCEPT ![u].status = "deleted"] ELSE user
        /\ Answer(c)
        /\ UNCHANGED <<session, account, key, history>>

\* An administrator resets a password, or a user changes his own, whose
\* current one is right.
ResetUserPassword_FindByID(c) ==
    \E r \in request[c], u \in Users :
        /\ r.pc = "resetPassword"
        /\ Present(u)
        /\ Continue(c, [r EXCEPT !.pc = "resetPassword.update", !.target = {u}])
        /\ UNCHANGED <<tables, history>>

ChangeOwnPassword_FindByID(c) ==
    \E r \in request[c] : \E u \in r.actor :
        /\ r.pc = "changePassword"
        /\ Present(u)
        /\ Continue(c, [r EXCEPT !.pc = "changePassword.update", !.target = {u}])
        /\ UNCHANGED <<tables, history>>

UpdatePassword(c, pc, must) ==
    \E r \in request[c] : \E u \in r.target :
        /\ r.pc = pc
        /\ user[u].password < MaxChanges
        /\ user' = IF Present(u)
                   THEN [user EXCEPT ![u].password = @ + 1, ![u].must = must]
                   ELSE user
        /\ Continue(c, [r EXCEPT !.pc = "revokeAll", !.value = user'[u].password])
        /\ UNCHANGED <<session, account, key, history>>

ResetUserPassword_Update(c) == UpdatePassword(c, "resetPassword.update", TRUE)
ChangeOwnPassword_Update(c) == UpdatePassword(c, "changePassword.update", FALSE)

\* Mutant: only the session the request came with is revoked.
RevokeAllForUser_Current(c) ==
    \E r \in request[c] : \E u \in r.target :
        /\ r.pc = "revokeAll"
        /\ session' = [s \in Sessions |->
               IF s \in r.session THEN [session[s] EXCEPT !.status = "revoked"]
               ELSE session[s]]
        /\ settled' = [settled EXCEPT ![u] = IF @ < r.value THEN r.value ELSE @]
        /\ Answer(c)
        /\ UNCHANGED <<user, account, key, drawn, confirmed>>

\* RevokeAllSessionsForUser, after which the request is answered.
RevokeAllForUser(c) ==
    \E r \in request[c] : \E u \in r.target :
        /\ r.pc = "revokeAll"
        /\ session' = [s \in Sessions |->
               IF u \in session[s].owner THEN [session[s] EXCEPT !.status = "revoked"]
               ELSE session[s]]
        /\ settled' = [settled EXCEPT ![u] = IF @ < r.value THEN r.value ELSE @]
        /\ Answer(c)
        /\ UNCHANGED <<user, account, key, drawn, confirmed>>

-----------------------------------------------------------------------------
(* The second factor.                                                      *)

SetupOwnTOTP_FindByID(c) ==
    \E r \in request[c] : \E u \in r.actor :
        /\ r.pc = "setupTOTP"
        /\ Present(u)
        /\ drawn[u] < MaxChanges
        /\ drawn' = [drawn EXCEPT ![u] = @ + 1]
        /\ Continue(c, [r EXCEPT !.pc = "setMFA.off", !.value = drawn[u] + 1])
        /\ UNCHANGED <<tables, settled, confirmed>>

\* ValidateTOTP against the secret in the row.
EnableOwnTOTP_FindByID(c) ==
    \E r \in request[c] : \E u \in r.actor :
        /\ r.pc = "enableTOTP"
        /\ Present(u)
        /\ user[u].secret # 0
        /\ confirmed' = [confirmed EXCEPT ![u] = @ \union {user[u].secret}]
        /\ Continue(c, [r EXCEPT !.pc = "setMFA.on", !.value = user[u].secret])
        /\ UNCHANGED <<tables, settled, drawn>>

DisableOwnTOTP_FindByID(c) ==
    \E r \in request[c] : \E u \in r.actor :
        /\ r.pc = "disableTOTP"
        /\ Present(u)
        /\ user[u].mfa
        /\ confirmed' = [confirmed EXCEPT ![u] = @ \union {user[u].secret}]
        /\ Continue(c, [r EXCEPT !.pc = "setMFA.off", !.value = 0])
        /\ UNCHANGED <<tables, settled, drawn>>

\* Mutant: enabling writes the flag and leaves the secret as it finds it.
SetMFATOTP_FlagOnly(c) ==
    \E r \in request[c] : \E u \in r.actor :
        /\ r.pc \in {"setMFA.on", "setMFA.off"}
        /\ user' = IF ~Present(u) THEN user
                   ELSE IF r.pc = "setMFA.on" THEN [user EXCEPT ![u].mfa = TRUE]
                   ELSE [user EXCEPT ![u].secret = r.value, ![u].mfa = FALSE]
        /\ Answer(c)
        /\ UNCHANGED <<session, account, key, history>>

SetMFATOTP(c) ==
    \E r \in request[c] : \E u \in r.actor :
        /\ r.pc \in {"setMFA.on", "setMFA.off"}
        /\ user' = IF Present(u)
                   THEN [user EXCEPT ![u].secret = r.value,
                                     ![u].mfa = (r.pc = "setMFA.on")]
                   ELSE user
        /\ Answer(c)
        /\ UNCHANGED <<session, account, key, history>>

-----------------------------------------------------------------------------
(* Single sessions, service accounts and API keys.                         *)

Revoke(s) == session' = [session EXCEPT ![s].status = "revoked"]

Logout(c) ==
    \E r \in request[c] : \E s \in r.session :
        /\ r.pc = "logout"
        /\ Revoke(s)
        /\ Answer(c)
        /\ UNCHANGED <<user, account, key, history>>

\* FindByPublicID finds rows that are not revoked, expired or not.
RevokeSession_FindByPublicID(c) ==
    \E r \in request[c], s \in Sessions :
        /\ r.pc = "revokeSession"
        /\ session[s].status \in {"active", "expired"}
        /\ r.role # "admin" => session[s].owner = r.actor
        /\ Continue(c, [r EXCEPT !.pc = "revokeSession.revoke", !.session = {s}])
        /\ UNCHANGED <<tables, history>>

RevokeSession_Revoke(c) ==
    \E r \in request[c] : \E s \in r.session :
        /\ r.pc = "revokeSession.revoke"
        /\ Revoke(s)
        /\ Answer(c)
        /\ UNCHANGED <<user, account, key, history>>

CreateServiceAccount(c) ==
    \E r \in request[c], role \in Roles :
        /\ r.pc = "createAccount"
        /\ account' = account \union {role}
        /\ Answer(c)
        /\ UNCHANGED <<user, session, key, history>>

\* Accounts stay, and stay active, so the read before it makes no difference.
CreateAPIKey(c) ==
    \E r \in request[c], k \in Keys, role \in account :
        /\ r.pc = "createKey"
        /\ key[k].status = "absent"
        /\ key' = [key EXCEPT ![k] = [status |-> "active", role |-> role]]
        /\ Answer(c)
        /\ UNCHANGED <<user, session, account, history>>

RevokeAPIKey(c) ==
    \E r \in request[c], k \in Keys :
        /\ r.pc = "revokeKey"
        /\ key[k].status # "absent"
        /\ key' = [key EXCEPT ![k].status = "revoked"]
        /\ Answer(c)
        /\ UNCHANGED <<user, session, account, history>>

\* A check or a statement fails, or the client goes away.
RequestFails(c) ==
    /\ request[c] # {}
    /\ Answer(c)
    /\ UNCHANGED <<tables, history>>

AcctNext ==
    \/ Expire
    \/ \E c \in Clients :
        \/ LoginWithMetadata(c) \/ OIDC_FindByEmail(c) \/ OIDC_Write(c)
        \/ CreateSessionForUser(c)
        \/ FindActive(c) \/ ValidateToken(c) \/ AuthenticateAPIKey(c)
        \/ CreateUser_FindByEmail(c) \/ CreateUser_Insert(c)
        \/ PatchUser_FindByID(c) \/ PatchUser_UpdateProfile(c)
        \/ DeleteUser_FindByID(c) \/ DeleteUser_Delete(c)
        \/ ResetUserPassword_FindByID(c) \/ ResetUserPassword_Update(c)
        \/ ChangeOwnPassword_FindByID(c) \/ ChangeOwnPassword_Update(c)
        \/ RevokeAllForUser(c)
        \/ SetupOwnTOTP_FindByID(c) \/ EnableOwnTOTP_FindByID(c)
        \/ DisableOwnTOTP_FindByID(c) \/ SetMFATOTP(c)
        \/ Logout(c) \/ RevokeSession_FindByPublicID(c) \/ RevokeSession_Revoke(c)
        \/ CreateServiceAccount(c) \/ CreateAPIKey(c) \/ RevokeAPIKey(c)
        \/ RequestFails(c)

AcctSpec == AcctInit /\ [][AcctNext]_acctVars

-----------------------------------------------------------------------------
AcctTypeOK ==
    /\ user \in [Users -> UserRow]
    /\ session \in [Sessions -> SessionRow]
    /\ account \subseteq Roles
    /\ key \in [Keys -> KeyRow]
    /\ request \in [Clients -> SUBSET Request]
    /\ \A c \in Clients : Cardinality(request[c]) <= 1
    /\ settled \in [Users -> Nat]
    /\ drawn \in [Users -> Nat]
    /\ confirmed \in [Users -> SUBSET Nat]
    /\ made \in 0..MaxRequests

\* Once a password reset or change is answered, a session opened under an
\* older password is over, unless its login was under way meanwhile: it had
\* read the user before the password was written and inserted its row after
\* (handleResetUserPassword, handleChangeOwnPassword, LoginWithMetadata).
OldSessionsEnd ==
    \A s \in Sessions : \A u \in session[s].owner :
        /\ session[s].status = "active"
        /\ session[s].pw < settled[u]
        => session[s].at > session[s].pw

\* Whatever the order of the two statements of overlapping setups, enables
\* and disables, a second factor is only ever required with a secret that its
\* user has proved to hold (handleSetupOwnTOTP, handleEnableOwnTOTP).
EnabledSecretIsConfirmed ==
    \A u \in Users : user[u].mfa => user[u].secret \in confirmed[u]

\* The checks against changing or deleting oneself keep an administrator: the
\* last one goes only by a request of somebody who has stopped being one since
\* it was authenticated, by an API key, by a role mapped at an OIDC login, or
\* by a change of address alone that writes back the role it had read
\* (handlePatchUser, handleDeleteUser, handleOIDCCallback).
LastAdminFalls ==
    [][Admins # {} /\ Admins' = {} =>
           \E c \in Clients : \E r \in request[c] \ request'[c] :
               \/ r.pc \in {"oidc.update", "patchUser.keep"}
               \/ r.actor \intersect Admins = {}]_acctVars
=============================================================================
