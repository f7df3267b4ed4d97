# WireGate in TLA+

WireGate is a WireGuard control plane: a Go server with a SQLite or PostgreSQL
database, agents on Linux and Windows hosts that enroll with a token and then
check in periodically, and a web console. This directory holds TLA+ modules of
its core logic, TLC configurations that check them on small instances, and
proofs of their main properties for every instance.

Run a configuration with `tlc -config <Run>.cfg <Module>.tla`; the table under
Runs names the module of each. Check the proofs with `tlapm <Module>.tla` for the
modules whose names end in `_proofs`, and for `ControlPlaneTypes`. Every invariant
and action property that a passing run checks is also proved; what remains to TLC
alone is liveness.

## Inventory

| Component | State | Operations | What is hard | What makes it correct |
|---|---|---|---|---|
| enrollment (`internal/enrollment`, first half) | `enrollment_tokens`, `agents`, `peers` | create, revoke, expire, reissue a token; `PerformEnrollment` | eight SQL statements without a transaction; no UNIQUE column beyond the ids and the token hash; addresses are chosen from a listing of at most 200 peers | a token enrolls what it was issued for, keys and (within a listing) addresses do not collide, a failure leaves nothing that is served |
| access policies (`internal/policy`) | `access_policies`, `policy_assignments`, `peers.allowed_ips` | assign, unassign, traffic mode, policy update, refresh of the peer intent | the refresh is read, render, write; one update fans out to many agents | stored AllowedIPs are what the policies render to |
| agent lifecycle (`internal/enrollment`, second half; `internal/api/agents.go`, `bulk.go`) | status and secret of an agent, status of its peer | disable, enable, revoke, check-in, rotation | the status is checked on an old read; writes have no condition | a revocation is final; nobody revoked is served |
| reconcile (`internal/reconcile`, `internal/wgcontrol`, `pkg/wgadapter`) | the WireGuard interface of the server | apply or remove one peer; compare intent and runtime | the row may change while the interface is configured; the id mapping is in memory | the interface carries the current keys of enabled peers |
| security approvals (`internal/security`, `internal/api/security*.go`) | `security_approvals`, `security_policies` | request, approve (which executes), reject | executing comes before marking; two deciders | one decision per approval, executed iff approved, never by its requester |
| agents (`agent/`) | state file, key files, local interface | `SyncOnce`, `RunLoop`, self-update | lost replies, crashes between file writes, rotation across two hosts | a rotation completes; agent and server agree on a key |
| accounts (`internal/auth`, `internal/apikey`, `internal/api/users.go`, `sessions.go`, `auth_oidc.go`, `service_accounts.go`) | `users`, `sessions`, `service_accounts` and their keys | log in by password or OIDC, authenticate, manage users, passwords, second factors, keys | every request reads, checks and then writes, on claims and rows read earlier; no statement has a condition | a password change ends the sessions of the old one, a second factor is never demanded with a secret nobody holds, somebody is left to administer |
| audit log (`internal/audit`) | `audit_events`, a hash chain | `Record`, paging, export | the time is taken before the lock, its text does not sort like time, several servers share the table | the chain forks only for known reasons; an export misses nothing and repeats nothing |
| log export (`internal/logging`) | sinks and routes with a cached copy, a bounded queue, one worker, counters, dead letters | `Emit`, test delivery, editing sinks and routes, reload | full queue, retries, reload during delivery, half-done and overlapping edits, restart | each event is settled once and in order; a lone edit makes routing follow the tables; counters never exceed what happened |
| updater (`internal/updater`) | one status in memory, Docker containers | check, start, background run, restart of the own process | a check overwrites the status of a run; the process replaces itself | a running update is shown and alone; every update lets go of the status |
| cluster lease (`internal/cluster`) | `cluster_leases`, `cluster_nodes`, cached leadership | tick | whole seconds, cached answers, restarts | at most one node holds an unexpired lease |
| rate limiting (`internal/api/rate_limit*.go`) | `rate_limit_entries`, or memory | allow, cleanup | count and record are two statements, instants are compared as texts, a failure lets through | the overshoot is bounded by the overlap |
| address management (`internal/ipam`) | `ipam_pools`, `ipam_reservations` | create and delete a pool, allocate, release | two allocations, a pool deleted meanwhile, edges of a range | addresses are unique, and neither network, broadcast nor gateway |
| events (`internal/events`) | subscriber channels | subscribe, publish | slow readers | not modelled |
| migrations (`internal/persistence/migrate`) | `schema_migrations` | apply all | a stop between run and record | not modelled |

How they interact: each HTTP request runs on its own goroutine and calls the
services, which call repositories one SQL statement at a time; nothing but the
database, the WireGuard interface and a few in-memory objects is shared. Agents
talk to the server over HTTP only. `internal/persistence/db` opens no
transaction for any of the services above.

## Modules

| Module | Models | EXTENDS |
|---|---|---|
| `Store` | the tables, the WireGuard interface, the requests in flight, `Abort` | |
| `PolicyIntent` | `internal/policy/service.go` | `Store` |
| `Enrollment` | tokens and `PerformEnrollment` | `PolicyIntent` |
| `AgentLifecycle` | `ChangeAgentState`, check-in, rotation, with their handlers | `Store` |
| `Reconcile` | `ReconcilePeer` | `Store` |
| `ControlPlane` | all requests together, `Spec`, the properties | the four above |
| `ControlPlaneInvariant` | the inductive invariant, and what a step may never do | `ControlPlane` |
| `ControlPlaneSequential` | the inductive invariants for requests that come one at a time | `ControlPlaneInvariant` |
| `MCControlPlane` | symmetry and the request sets of the configurations | `ControlPlaneSequential` |
| `ControlPlaneTypes`, `ControlPlane_proofs` | the proofs for concurrent requests | `ControlPlaneInvariant` |
| `ControlPlaneSequential_proofs` | the proofs for requests one at a time | `ControlPlaneSequential`, `ControlPlane_proofs` |
| `AgentSync` | one agent (`agent/linux/sync.go`, `runtime_state.go`, `agent/shared/client`) and its rows on the server; its properties | |
| `AgentSync_proofs` | the proofs | `AgentSync` |
| `Approvals` | dual approval and its three sensitive actions | instantiates `Decision` |
| `Decision` | what dual approval promises of one request | |
| `Accounts` | users, sessions, second factors, service accounts and API keys | |
| `MCSecurity` | `Accounts` or `Approvals` for TLC | both |
| `LogExport` | `internal/logging`, its repository and handlers | instantiates `LogDelivery` |
| `LogDelivery` | what the log export promises of an event and a sink | |
| `Updater`, `AuditTrail`, `ClusterLease`, `AddressPool`, `RateLimiter` | the package of that name and its repository | |
| `MCServices` | one of these six services at a time for TLC, the log export twice | the six |
| `Approvals_proofs`, `Accounts_proofs`, `LogExport_proofs` | the proofs | the module they are about |
| `Services_proofs` | the proofs about the other five services | the five |

`ControlPlane` is the server, with the agents reduced to the requests they send;
`AgentSync` is the agent, with the handlers of the server reduced to one step
each. The two halves meet in the check-in: `ControlPlane` shows who gets an answer
whatever overlaps, `AgentSync` what becomes of the answer. `Approvals` meets
`AgentLifecycle` in the three actions it executes, each one step there.
The services share no state with any of this nor with each other, so that
interleaving them would multiply states and show nothing: the MC modules choose
one at the beginning of a behaviour.

### State

A row is a record and a table a function from ids to rows, with status
`"absent"` where there is no row. An agent has at most one peer, inserted right
after it, so peers are indexed by agent. A token's three ways of being used up
are its three columns `status`, `used_at` and `revoked_at`, because
`effectiveStatus` combines them and different statements write different ones.
Addresses are `1..PoolSize` in the order in which `allocatePeerAddress` tries
them. `runtime` is the set of public keys configured on the interface.

Five history variables record what clients have been told or what was left
undone, which the properties are about: the secrets handed out (`handed`), the
token an agent enrolled with, the agents and tokens whose revocation has been
answered, and the agents whose last disable or revoke did not touch the interface
(`kept`). No handler reads them; the only guards on `handed` say that a client
cannot present a secret nobody has sent it.

`allocatePeerAddress` lists the peers with an empty filter, which returns the
newest 200 only (`peerrepo.List`): `ListLimit` is that number, and `older` of a peer
are the peers inserted before it. The code orders by `created_at`, in whole seconds
and taken before the insertion, and breaks ties by a random id; the model orders by
insertion, which is one of these orders.

`handlePatchAgent` passes the trimmed action to `ChangeAgentState` and compares the
untrimmed one before it removes the peer from the interface, so an action with
blanks around it succeeds and removes nothing. `AfterChange` has both cases; which one
it is is chosen where the handler first compares.

### Requests

`req[w]` is the request that worker `w` handles: the operation, the call it
makes next, and the locals it will still use. One step is one repository or
adapter call with the computation up to the next. A request refused at its first
read changes nothing and is not a step. `Abort` (with `Faults = TRUE`) ends a
request between two calls: a statement that fails, a cancelled context, a killed
server. Then the calls made stay made and the answer is never sent.

Where the model is coarser than the code:

* `Refresh_Render` is one step, the code reads override, assignments and
  policies in turn; `Enroll_InsertPeer` includes the read of the token's bound
  policies; `RevokeToken_Revoke` includes the answer.
* The interface is a set of keys. AllowedIPs on it, and the in-memory map from
  key to peer id, are left out.
* A new policy is one of the initial ones; names, gateway mode, telemetry of a
  check-in and the runtime sync table are left out.
* An agent id or a token id is used once; when they are exhausted the instance
  has nothing left to do, so the configurations do not check for deadlock. The
  server never waits for another request, there is nothing to deadlock on.

The bulk handler runs the same `ChangeAgentState` and interface removal per
agent as the single one; it is covered by the same actions.

### The agent

`AgentSync` follows `SyncOnce` from one file operation, HTTP exchange or run of
wg-quick to the next; `pc` names the call that comes next, `mem` and `resp` are
its locals. The files are variables of their own (`stateFile`, `primary`,
`pending`, `conf`), so that a stop of the agent (`Stop`) may fall between any two
of them, or inside a `WriteFile`, which leaves a truncated file (`Torn`):
`os.WriteFile` truncates first, and nothing renames a complete file into place.
A stop takes the local interface along (the host restarts) or not.

A key is a number standing for both its halves. A configuration is the AllowedIPs
and whether the managed DNS settings are on, because the fingerprint of the
*running* interface leaves out the DNS settings (`Observed`), and an empty
AllowedIPs can neither be rendered nor fingerprinted.

The exchange is lossy: a connection may fail before or after the server got the
request, a late answer is dropped. One assumption is made of it: a request the
agent gave up is handled, if at all, before the agent's next check-in. The
client waits 5 s or more before it, and the server cancels the context of a
request whose client has gone.

Coarser than the code: each handler of the server is one step (`ControlPlane`
takes them apart); the interface of the server and the rows of a revoked agent
beyond their status are left out; `--apply=false`, self-update and errors of
file operations other than an unreadable file are left out; the length of the
backoff is time, which is not modelled. The Windows loop
(`agent/windows/sync.go`) is the same code; its commands are not modelled.

### Properties of the control plane

Under any interleaving and any lost request (`Tokens`, `Lifecycle`, and proved):

* `RevokedAgentNotServed`: a check-in made after a revocation was answered is
  refused, although a racing enable can put the status back, because
  `ClearAuthToken` writes a column that nothing ever sets again.
* `WithdrawnTokenAdmitsNobody`, `WithdrawnTokenIsRevoked`: the same for tokens,
  although `MarkUsed` may overwrite the status column.
* `SpentTokenHasPeer`: a token is spent only once its agent and peer are in the
  tables. An enrollment that fails before `MarkUsed` leaves the token usable; one that
  fails after it, on the way to its answer, has spent the token although nobody
  received the agent's secret.
* `BoundHostname`: a model B token enrolls its hostname only.
* `ServedAgentHasPeer`: a half-inserted agent is never served (checked as a
  consequence of `Inv`).
* `RowsStay`: no step loses a row, renames it, or undoes a revocation.

One request at a time, over long sequences (`Inventory`, `Intent`, and proved):

* `UniquePeers`: keys do not collide though nothing in the schema says so, and two
  unrevoked peers share an address, reclaimed by a revoke or not, only if a whole
  listing of peers was created between them (`LeftOut`). That exception is real: with
  more than 200 peers an older one's address is handed out again. No document
  promises otherwise, so there is no finding.
* `RevokedLeavesNothing`: a revoked agent keeps no secret and no address, and its
  peer's current key is not on the interface, unless the action had blanks around
  it (`kept`). Keys that a rotation replaced are not covered: they stay (`RotatedKey`).
* `SingleUse`: a token enrolls one agent.
* `IntentIsRendered`: stored AllowedIPs are what the policies render to.

What the documentation says and the code does not keep (each a run that must
find a counterexample): `SharedToken` (`BoundTokenIsSingleUse`: two overlapping
enrollments with one model B token both succeed), `RotateDisabled`, `RotatedKey`. Two
of these need no concurrency at all: rotating a disabled agent makes its peer
reconcilable, and a rotation leaves the old key on the interface. Further differences
met while modelling that have no run of their own:

* a revoke and an enable that overlap leave a revoked agent whose status is
  active (`internal/enrollment/service.go:1076` against
  `web/app/src/pages/GuidePage.tsx:627`); it is not served, as said above;
* after a reissue a hostname can have two unrevoked agents
  since `FindByHostname` looks at one arbitrary row;
* a reconcile or a policy refresh discards a pending rotation, and two overlapping
  policy changes can leave the older AllowedIPs (`IntentIsRendered` with two
  workers).

### Properties of the agent

* `KeyHeld`: the private half of the key the server admits is always in one of
  the two key files, wherever the agent stops while it promotes a key and
  whatever answer is lost.
* `KeyCustody`: the reason (see Proofs).
* `AppliesServersKey`: the interface never comes up with another key than the
  server's, although it is configured several steps after the answer.
* `PlannedIsApplied`: while the server has the peer `planned`, the agent comes to
  run the server's key and configuration.
* `RotationArrives`: a rotation nobody cancels reaches the server.
* `DisabledGoesDown`: a disabled agent takes its interface down.

The last three hold unless the agent is *wedged*, in one of three ways that the
code itself provides no way out of:

* `Damaged`: a truncated `state.json` or new key file, which every later
  `SyncOnce` fails to parse; or a stop between the removal of the pending key file and the
  save of the state, after which the state names a file that is gone. (In all of
  these the key itself is still there: `KeyHeld`.)
* `Refused`: a second rotation while the agent still offers the key of the first
  (its answer was lost): `completeRotation` answers 409 to every check-in from
  then on.
* `Ended`: a timeout ended the daemon.

What the documentation says and the code does not keep: `EnabledAgent`, an agent
enabled and reconciled before its next check-in never brings its interface up
again: it reports `disabled`, which asks for nothing, and skips its own drift
detection. Met while modelling, without a run: `RunLoop` takes the
`DeadlineExceeded` of one HTTP request for the end of its context
(`agent/linux/sync.go:176`), returns nil, and systemd's `Restart=on-failure`
(`agent/linux/README.md:10`) sees a success. That the timeout error of `net/http`
matches `context.DeadlineExceeded` is a fact about Go's library, from 1.21 on.
`RotationReplacesKey`, the agent uses the rotated key in the end, is stated
without a run: a lost answer followed by a reconcile leaves the old key in use for
good, because the peer is then `active` and the fingerprint contains no key.

### Approvals

A request of a member of the staff is a direct action, a bulk action, an approval
or a rejection; `handling[c]` holds what handler `c` has read and the call it makes
next. `dual` may be switched at any moment by one administrator, and every call
may fail.

* `DecidedOnce`: approvals implement `Decision`. Each is decided at most once, by
  somebody who did not ask for it, and for ever, although two deciders may both
  execute the action before either marks it: the `UPDATE` of `MarkApproved` and
  `MarkRejected` is conditional on the status.
* `ApprovedIsDone`: what is marked approved has been executed to the end, the
  removal of a revoked peer from the interface included.
* `AloneOnlyInBulk`: while dual approval is on from the beginning of a request to its
  end, nobody changes an agent alone, except by `handleBulkAgentState`, which
  never asks (`web/app/src/pages/GuidePage.tsx:573` has no exception).

An approval whose execution was refused half way, after the row was written and
before the interface was changed, stays pending and can only be rejected; an action
can be executed and its approval rejected, by two deciders at once. Neither
contradicts the properties and both are reachable.

### Accounts

A step is one SQL statement of one request with the checks that follow it, so
every handler that reads, checks and writes is two steps. Passwords and TOTP
secrets are counters of how often they were set. Whoever holds a session has been
read by `FindActive` and `ValidateToken` in two steps, and a request then acts on
those claims whatever happens to the user. Foreign keys are enforced on one of
the SQLite connections only (`internal/persistence/db/db.go:38` runs the PRAGMA
once through the pool), so a user with sessions can be deleted, or not: `RequestFails`
and `DeleteUser_Delete` are both possible.

* `OldSessionsEnd`: after an answered password change or reset, a session opened
  under an older password is over, unless its login had read the user before and
  inserted its row after. That exception is real: nothing ends such a session.
* `EnabledSecretIsConfirmed`: a second factor is only demanded with a secret its
  user has shown a code of, although setup, enable and disable overlap: each
  writes flag and secret together.
* `LastAdminFalls`: the last administrator goes only by somebody who no longer is one
  (two administrators demote each other), by an API key, by a role an OIDC login maps, or by a
  change of address that writes back the role it had read.

### Services

* Log export. `DeliveryIsImplemented`: per event and sink, `LogExport` implements
  `LogDelivery`: taken or dropped, settled once and in order, lost only by a
  restart, and settled in the end. `CacheFollowsTables`: after an administrative request
  that ran alone and was answered with success, events are routed by the tables,
  whatever earlier requests left behind that overlapped or failed half way. Nothing
  makes one request wait for another: the reload that read the tables first may
  replace the cache last, and then the cache stays stale, though both were answered
  with success, until the next request that runs alone (`calm`). `CountersNeverExceed`: counters may lose updates (a reload that
  read older rows, a failed write, a restart), never invent one. The queue depth
  is a counter that really drifts after a reload; no property is claimed of it.
* Updater. `RunningIsShown`: a running update is shown and is the only one, unless a
  check was asked for meanwhile, which overwrites the status
  (`openapi/openapi.yaml:184` promises "Update already in progress." without
  exception). `UpdateLetsGo`: every update lets go of the status in the end.
* Audit log. `ForksAreExplained`: two events follow the same one only if different
  servers recorded them or the order of their texts is not that of insertion.
  RFC3339Nano drops trailing zeros, so the second can happen within one server, one
  call after the other. `ExportIsComplete`: an export contains everything recorded
  before it began, once, whatever is recorded between its pages.
* Cluster lease. `OneUnexpiredLeader`: two nodes may both think they lead, but not
  both by a lease that has not run out. The clocks of the nodes agree in the model.
* Address pools. `ReservationsAreUsable`: unique addresses, none of them the network,
  broadcast or gateway one. `PoolFills` must fail: the second allocation from a
  pool is refused, because stored addresses carry a prefix length that
  `ParseAddr` does not take (`internal/ipam/service.go:172`) and the UNIQUE index then
  refuses the insertion. The broadcast address stays free only because of that:
  `lastAddr` sets bits at the wrong end of the 16-byte form.
* Rate limiter. `OvershootIsBounded`: in the whole seconds of any window, the attempts
  recorded, or counted and about to be, are no more than the limit plus those that
  overlap. Instants are stored as RFC3339Nano texts and compared as such
  (`attempted_at > ?`, `< ?`): texts of one second sort in an order that is not time's
  (`TextPlace`), so the first part of a second in a window may go uncounted, and the
  window is taken from the first whole second in it. An attempt let through because
  a statement failed or took two seconds leaves no record and is not bounded by
  anything (`AllowFailsOpen`). The rows of one instant are numbered, because the table
  keeps both of two attempts at the same time.

## Runs

| Run | Module | Bounds | Distinct states |
|---|---|---|---|
| `Tokens` | `MCControlPlane` | 2 workers, faults, 2 tokens, 2 agents, 2 hostnames, 1 address | 334,006 |
| `Lifecycle` | `MCControlPlane` | 2 workers, faults, 1 agent, 2 keys, 1 token, view `ButKept` | 2,189,061 |
| `Inventory` | `MCControlPlane` | 1 worker, 3 agents, keys and tokens, 2 hostnames and addresses, a listing of 1 peer, constraint `TwoAgentsUnlessOnboarding` | 977,964 |
| `Intent` | `MCControlPlane` | 1 worker, 2 agents, 2 policies, 2 networks, constraint `OneTokenOrPolicy` | 451,112 |
| `SharedToken`, `RotateDisabled`, `RotatedKey` | `MCControlPlane` | as small as the counterexample allows | violated |
| `AgentSync` | `AgentSync` | 3 administrative actions of 7 kinds, 1 stop, 1 network or none, all failures | 132,541 |
| `EnabledAgent` | `AgentSync` | 3 administrative actions, no failures | violated |
| `Security` | `MCSecurity` | accounts: 2 users, 2 sessions, 1 key, 3 requests, 2 at a time, 2 passwords and secrets each; approvals: 3 staff, 1 agent, 1 approval, 2 handlers | 1,696,534 |
| `Services` | `MCServices` | log delivery: 3 events, 2 emitters, 1 sink, queue of 2, 2 attempts, 1 edit, 1 fault (`DeliveryBounds`); log routing: 2 sinks, 2 administrators, 3 edits, 1 fault (`RoutingNext`); 2 updates, 2 checks; 3 events by 2 recorders on 1 or 2 servers; 2 nodes, 5 half seconds; 1 pool of 4 addresses, 3 reservations; limit 2 of 2 callers, 8 half seconds, a window of one second | 482,634 |
| `PoolFills` | `AddressPool` | 1 pool of 4 addresses, 1 caller | violated |

Why the bounds are enough for what is asked: every conflict in the code is
between two requests on one row (two workers), between two rows of one table
(two agents, keys, tokens), or needs one row to be revoked and taken again by
others (three agents on two addresses, so that an address is reclaimed, refused
and reused, or is left out of a listing of one peer). All sets but the addresses are symmetric. No variable is a counter, so the
constants are bounds enough, but two runs are cut further by a constraint.
`OneTokenOrPolicy` cuts `Intent` to histories
with one token, or with one policy in use while the others are as they were: two agents
sharing a policy, and an agent with two policies, both occur.
`TwoAgentsUnlessOnboarding` cuts `Inventory` to two agents on one hostname, except
where agents only enroll, check in, rotate, and are revoked or reissued: an address depends
on nothing else. `Lifecycle` does not tell states apart by `kept`, which no handler reads
and none of its properties is about.

In `Security`, three requests are what it takes for a login and a password change to
overlap a third, or for two administrators to demote each other. In `Services` the
log export is looked at twice. For routing, there are no events; two edits overlap, or one
fails half way, in any of their steps, and a third comes when they are over; two sinks let a
route to one that is gone survive, which makes the validation of a deletion fail. For
delivery, a queue of two with one task in the worker's hands tells the head of the queue from
its last; three events, retries, a fault and no edit, or one edit and fewer events: one edit
with one fault reaches every reload over counters that have moved on. What is cut there
are only behaviours with an edit, so that liveness is shown of all others. Three
events are the least for a fork whose cause is the order of texts (`TextOrder`), and five half
seconds are enough for a lease of one second to run out and be taken by the
other node.

No liveness is claimed of the control plane, accounts and approvals: the server
has no background work there, whether something happens is up to the clients.
There is no fairness. `LogFairness` says that the worker goroutine goes on when it can
(its loop waits for the channel, the delays of its retries and the sinks; every
dial has a timeout, a write has none, so it is assumed of a sink that accepted a
connection that it keeps reading or closes it); `UpdFairness` that each Docker call of an update ends (its client has a
timeout). Nothing is assumed of a check for updates: `http.DefaultClient` has no
timeout, and a check that hangs leaves the status at `checking`.

In `AgentSync`, three actions are what it takes to disturb a rotation twice
(rotate, reconcile or policy change, rotate) or to disable, enable and reconcile;
one stop reaches every point where a file is half-written or two files disagree;
failing connections, answers and wg-quick runs are not bounded. Keys are numbers, but
each new one needs a rotation, so `MaxAdmin` bounds them.

Fairness there: the loop never stops by itself while the daemon runs, and every call in it returns,
so a step of the agent that stays possible is taken (weak fairness of `Agent`).
A check-in that is tried for ever is answered now and then, and wg-quick
succeeds now and then (strong fairness of the answer, and of each wg-quick call
doing its work): the backoff retries for ever, which is of use only if what
fails is not broken for good. Nothing obliges an administrator to act, a host to
restart or an agent to stop.

## Proofs

### Control plane

`ControlPlane_proofs` proves, for every value of the constants that satisfies
`StoreAssumption` (the sets of ids do not overlap, `None` and `Internet` are
distinct from them, the pool size is a natural number), that `Inv` is an
invariant of `Spec`, and from it every property of the first list above.
`Inv` is checked by the run `Lifecycle` too.

None of the properties is inductive by itself: what a request does next depends
on locals it read long ago. The argument has two halves.

1. `RowsKept`: no step loses a row, changes the identity of a row, or sets what a
   revocation cleared. Proved by going through the writers of each table; the
   type invariant and, for writes to a peer, the locals of the request are
   needed to know that the row written exists.
2. `RequestOK(w)`: what request `w` relies on (its token exists and admits its
   hostname; the agent it works on was enrolled by that token; once past the
   clearing of a secret, the secret is still cleared; ...) speaks only of rows
   kept by 1, so a step of another worker preserves it (`RequestKept`). For a
   step of `w` itself it is shown call by call.

The remaining parts of `Inv` (rows, secrets handed out, answered revocations)
then follow for each action from the locals of the request that takes it.
`ControlPlaneTypes` proves that steps keep the types, assuming `Inv` before the
step, because an update of an absent row would break them.

### Control plane, one request at a time

`UniquePeers`, `RevokedLeavesNothing`, `SingleUse` and `IntentIsRendered` are false when
requests overlap: `SharedToken` finds one token used twice by two workers, and
the other three have the same shape (two lookups before either insertion, a check of
a status before another request changes it, two refreshes that render and then
write). What the code does promise is that no *sequence* of requests breaks them. That is
what `ControlPlaneSequential_proofs` states, with the hypothesis in the theorem:

* `OneAtATime` (there is at most one worker) for `UniquePeers`, which holds wherever
  requests are cut short;
* `Uninterrupted` (`OneAtATime` and `Faults = FALSE`) for the other three, which a
  request lost half way really breaks: a revocation that ends before
  `RemovePeer` leaves the key on the interface.

The constants of `Inventory` and `Intent` satisfy both, so
the theorems say for any number of agents, keys, tokens, policies and addresses, and any
length of the listing, what these runs show for two or three, and the first of requests that are
cut short as well. The runs check the inductive invariants `FinishedInv` (which contains `UniqueInv`) and
`RenderedInv` as well.

One worker is not enough to make the properties inductive, since a request is still many
steps and the tables are half written between them. The invariants say, call by
call, how far the request has got:

* `UniqueInv`: what is listed as older than a peer is a peer (`OlderPeers`), and what the request has read is still so (`ChangeReads`, `PeerReads`,
  `EnrollReads`, `RotationReads`): when the peer is inserted, the key looked up is still
  free, and the address among the peers of the listing, the key of a rotation belongs to nobody else, and a peer
  whose status was read as not revoked is not revoked.
* `FinishedInv`: an agent whose status is revoked has nothing left, or the request is still
  clearing it (`Revoking`); a token that enrolled an agent is spent, or that
  enrollment goes on (`Enrolling`); and a token under lookup has enrolled nobody.
* `RenderedInv`: every stored intent is what would be rendered now, or the request
  still owes it to that peer (`Owes`): the agent is the one it works on, or is on the
  list of those bound to the policy it has changed.

### Agent

`AgentSync_proofs` proves `TypeOK`, `KeyCustody`, `KeyHeld` and
`AppliesServersKey` for any set of networks, number of administrative actions and
number of stops, from `AgentSyncAssumption` (`None` and `Torn` differ from each
other, from the networks and from the keys).

`KeyHeld` is not inductive: a promotion overwrites the primary key, so one has to
know that nobody refers to the overwritten one. `KeyCustody` says who may refer to
what: the saved state and the state in memory name a pending key only if its
file, or the primary one, holds it; if they name none, the server admits the
primary key; a request under way carries what the state names; an answer carries
the server's key; while a configuration is applied no request is under way, so
the server cannot move on to another key; and a promotion promotes the key
the server has. Each lemma of the module shows it for one action.

### Approvals

`Approvals_proofs` proves `ApprTypeOK`, `ApprovedIsDone`, `AloneOnlyInBulk` and
the refinement `DecidedOnce` for any staff, agents, handlers and approvals.
`ApprInv` says what a request may rely on when it goes on: how far it has got
with the agent (`Progress`; what was done is never undone), and what entitles it
(`Warrant`; an approval never changes what it is about or who asked for it). For the refinement each step that
changes the table is shown to be an `Ask` or a `Decide` of `Decision`.

### Accounts

`Accounts_proofs` proves `AcctTypeOK`, `OldSessionsEnd`,
`EnabledSecretIsConfirmed` and `LastAdminFalls` for any users, sessions, keys,
clients and numbers of requests. `AcctInv` adds three parts: passwords are only replaced by newer
ones, and the password a request is about to answer is not newer than the row
(`UsersOK`, `RequestOK`); an active session was inserted under a password no
older than the last one answered (`SessionsOK`), which is stronger than
`OldSessionsEnd`; and an enable carries a confirmed secret. For `LastAdminFalls`, a
change of role or a deletion is never about the user who asks.

### Services

* Log export, routing. `CacheFollowsTables`, by what remains of the plan of an edit that
  has run alone so far (`calm`): if it has written, it still has a reload before it, and what a
  reload under way has read is what the tables say. About edits that overlap or fail
  nothing is assumed, except that they end.
* Log export, delivery. `DeliverySafety`, the safety part of `DeliveryIsImplemented`,
  for any queue size and number of attempts: each step of queue and worker is a
  step of `LogDelivery` or a stutter. The invariant relates the queue and the
  worker's task with what has become of each event, and says that no event is
  queued twice for a sink.
* Log export, counters. `CountersNeverExceed` (and with it `LogTypeOK`) is not
  inductive, because old values come back: a reload puts the rows it read some time ago
  into memory, and a write puts a snapshot taken some time ago into the table.
  `CountsFit` therefore bounds every copy, wherever it is (memory, table, the reload
  under way, the snapshot about to be written), and by less than what has
  happened: what the worker and the emitters have done and still have to count
  (`Debt`, `Dropping`) is kept free, so that the increment to come fits (`DeliveredRoom`,
  `FailedRoom`, `LetterRoom`, `DroppedRoom`). What happened only ever grows.
* Cluster lease. `OneUnexpiredLeader`, for any nodes, lease time and clock.
  What a node remembers is backed by the row or has run out, and the row's owner
  only writes later times.
* Audit chain. `ForksAreExplained`. A recorder that has read the latest
  event holds the mutex, so no event of its server follows the same one unless
  an older text hid it.
* Audit export. `ExportIsComplete`, for any page size, any order of the texts, and any
  number of events recorded between two pages. What has been written is strictly descending
  (`NewestFirst`), which is why nothing is written twice; its last event is the cursor
  (`CursorIsLast`); and each event the export began with is written or lies beyond
  the cursor (`NoneIsSkipped`). A page that leaves rows behind is not empty, so that there is a
  next cursor: that is where the table has to be finite and `PageSize` positive.
* Rate limiter. `OvershootIsBounded`, for any callers, limit and window and any order of the
  texts within a second (`TextAssumption`). A caller that counts below the limit adds at
  most one row to any window; the whole seconds of every window that its instant
  lies in are among what it has counted (`WholeSecondsCount`). New rows must be new
  (`RowsAreNumbered`), or counting them would be wrong.
* Address pools. `ReservationsAreUsable`, for every number of addresses but 3, which no prefix
  has. The only address `AllocateAddress` ever finds in use is the gateway
  (`OnlyGatewayIsUsed`), so that the lowest candidate is the first or second address and never the broadcast one, and a pool
  keeps its gateway after it is deleted, which matters for reservations that outlive it.
* Updater. `RunningIsShown`: without a check in between, the status is that of the
  update that runs, and keeps others out (`OneRuns`).

### Not proved

Liveness under fairness is beyond the prover and only model-checked:
`PlannedIsApplied`, `RotationArrives` and `DisabledGoesDown` of the agent,
`UpdateLetsGo`, and the part of `DeliveryIsImplemented` that says events are settled
in the end. What the runs with a violation show are counterexamples, not theorems.

## Not modelled

* Password and token hashing, TOTP codes, CSRF, the exchange with the OIDC
  provider: cryptography and calls of a provider. That one failed discovery is
  remembered for ever (`sync.Once`) is seen in the code and not modelled.
* Drift detection and the listing of peers; AllowedIPs on the interface; the
  in-memory map from key to peer id, which is empty after a restart.
* The events broker: a map of channels under one read-write mutex, whose slow
  subscribers miss events by design.
* Migrations: run, then recorded, without a transaction. Whether a second run does harm
  depends on the SQL text of each.
* The rate limiter in memory: one mutex around the whole operation.
* In `LogExport`, message formats, TLS and redaction, and that `UpdateRoutes` reads
  the map of sinks outside its lock (the map is replaced as a whole, so the model reads the one of
  that moment); in `AuditTrail`, the move of a finished export and its upload.
* DNS, network, capacity, analytics, metrics and notification (reports over
  the tables, counters and mail), configuration and process wiring, the web console,
  agent platform code beyond the files and commands of `SyncOnce`, self-update of
  agents.

## Plan

1. Drift detection in `Reconcile`, with the id mapping and AllowedIPs on the
   interface; status agreement of agent and peer.
2. The queue depth in `LogExport` as it drifts.
3. An abstract specification of admission (who may be served, when) that
   `ControlPlane` implements, checked and then proved: `Inv` already has what the
   mapping of each step needs.
4. The self-update of agents, with a stop between download and replacement.
