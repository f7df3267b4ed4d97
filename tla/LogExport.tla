------------------------------ MODULE LogExport ------------------------------
(***************************************************************************)
(* The log export (internal/logging): events are matched against a cached  *)
(* copy of the sinks and routes, queued on a bounded channel, and          *)
(* delivered to syslog by one worker that retries.  Administrators edit    *)
(* sinks and routes in the database and reload the cache; counters are     *)
(* kept in memory and written through to log_delivery_status.              *)
(*                                                                         *)
(* A step is one critical section, channel operation, delivery attempt or  *)
(* SQL statement.  Categories, severities and the syslog message are       *)
(* abstracted: a route is the sink it sends every event to.  Nothing makes *)
(* one administrative request wait for another.                            *)
(***************************************************************************)
EXTENDS Integers, Sequences, FiniteSets

CONSTANTS
    Sinks,       \* sink ids that uuid.NewString may draw
    Events,      \* log events
    Emitters,    \* goroutines that emit at the same time
    Admins,      \* administrative requests in progress at the same time
    QueueSize,   \* Options.QueueSize
    Attempts,    \* 1 + Len(Options.RetrySchedule)
    DeadLetterLimit,
    MaxEdits,    \* bound: administrative requests
    MaxFaults    \* bound: restarts of the server and statements that fail

ASSUME LogAssumption ==
    /\ QueueSize \in Nat \ {0}
    /\ Attempts \in Nat \ {0}
    /\ DeadLetterLimit \in Nat \ {0}
    /\ MaxFaults \in Nat

VARIABLES
    table,       \* log_sinks and log_route_configs
    statusRows,  \* log_delivery_status, a row per sink in its domain
    deadLetters, \* rows of log_delivery_dead_letters per sink
    cache,       \* Service.sinks and Service.routes
    statuses,    \* Service.statuses
    queue,       \* Service.queue
    worker,      \* the goroutine Service.worker
    emitter,     \* Emit calls in progress
    editor,      \* the administrative requests in progress
    \* History, read by no handler.
    calm,        \* the newest administrative request has run alone, and not failed
    emitted,     \* events emitted so far
    created,     \* sink ids drawn so far
    outcome,     \* what has become of each event at each sink
    spent        \* how much of the two bounds is used

Tasks   == Events \X Sinks
Config  == [sinks: SUBSET Sinks, enabled: SUBSET Sinks, routes: SUBSET Sinks]
Status  == [depth: Nat, dropped: Nat, delivered: Nat, failed: Nat]
NoStatus == [depth |-> 0, dropped |-> 0, delivered |-> 0, failed |-> 0]

\* The entries of f, and those of g for what f does not have.
Over(f, g) == [x \in DOMAIN f \union DOMAIN g |-> IF x \in DOMAIN f THEN f[x] ELSE g[x]]
Put(g, s, v) == Over([x \in {s} |-> v], g)

volatile == <<cache, statuses, queue, worker, emitter, editor, calm>>
logVars  == <<table, statusRows, deadLetters, volatile,
              emitted, created, outcome, spent>>

Idle        == [pc |-> "idle", task |-> <<>>, attempt |-> 0, snapshot |-> NoStatus]
NotEmitting == [todo |-> {}, owed |-> {}]
NoConfig    == [sinks |-> {}, enabled |-> {}, routes |-> {}]
\* The statements still to come and what they need; config and read are what a
\* reload has read of the tables.
NoEdit      == [plan |-> <<>>, sink |-> {}, on |-> FALSE, routes |-> {},
                config |-> NoConfig, read |-> <<>>]

\* NewService over a database configured earlier.
LogInit ==
    /\ table \in {[sinks |-> S, enabled |-> S, routes |-> S] : S \in SUBSET Sinks}
    /\ statusRows = [s \in table.sinks |-> NoStatus]
    /\ deadLetters = [s \in Sinks |-> 0]
    /\ cache = table
    /\ statuses = statusRows
    /\ queue = <<>>
    /\ worker = Idle
    /\ emitter = [m \in Emitters |-> NotEmitting]
    /\ editor = [d \in Admins |-> NoEdit]
    /\ calm = TRUE
    /\ emitted = {}
    /\ created = table.sinks
    /\ outcome = [t \in Tasks |-> "none"]
    /\ spent = [edits |-> 0, faults |-> 0]

-----------------------------------------------------------------------------
(* Counters: memory under statusMu, then the row, whose error is ignored.  *)

\* A statement fails: the database is busy or the request was cancelled.
Fault ==
    /\ spent.faults < MaxFaults
    /\ spent' = [spent EXCEPT !.faults = @ + 1]

StatusOf(s) == IF s \in DOMAIN statuses THEN statuses[s] ELSE NoStatus

AdjustQueueDepth(st, delta) ==
    [st EXCEPT !.depth = IF @ + delta > 0 THEN @ + delta ELSE 0]

\* The row of a sink that has been deleted: the foreign key is enforced on
\* PostgreSQL and on the one SQLite connection that ran the PRAGMA.
UpsertStatus(s, st) ==
    \/ /\ statusRows' = Put(statusRows, s, st)
       /\ UNCHANGED spent
    \/ s \notin table.sinks /\ UNCHANGED <<statusRows, spent>>
    \/ Fault /\ UNCHANGED statusRows

SetStatus(s, st) ==
    /\ statuses' = Put(statuses, s, st)
    /\ UpsertStatus(s, st)

-----------------------------------------------------------------------------
(* Emit and TestDelivery.                                                  *)

MatchingSinks == cache.routes \intersect cache.sinks \intersect cache.enabled

StartEmit(m, e, sinks) ==
    /\ emitter[m] = NotEmitting
    /\ e \in Events \ emitted
    /\ emitted' = emitted \union {e}
    /\ emitter' = [emitter EXCEPT ![m].todo = {e} \X sinks]
    /\ UNCHANGED <<table, statusRows, deadLetters, cache, statuses, queue,
                   worker, editor, calm, created, outcome, spent>>

Emit(m) == \E e \in Events : StartEmit(m, e, MatchingSinks)

\* The cache is asked before the database.
FindSink == cache.sinks \union table.sinks

\* A sink is tested enabled or not, routed or not.
TestDelivery(m) == \E e \in Events, s \in FindSink : StartEmit(m, e, {s})

\* Mutant: the queue grows without a bound.
Offer_Unbounded(m, t) ==
    /\ emitter[m].owed = {}
    /\ t \in emitter[m].todo
    /\ queue' = Append(queue, t)
    /\ outcome' = [outcome EXCEPT ![t] = "waiting"]
    /\ emitter' = [emitter EXCEPT ![m] =
           [todo |-> @.todo \ {t}, owed |-> {<<t[2], "depth">>}]]
    /\ UNCHANGED <<table, statusRows, deadLetters, cache, statuses,
                   worker, editor, calm, emitted, created, spent>>

\* The select statement of Emit: the channel has room, or the event is dropped.
Offer(m, t) ==
    /\ emitter[m].owed = {}
    /\ t \in emitter[m].todo
    /\ \/ /\ Len(queue) < QueueSize
          /\ queue' = Append(queue, t)
          /\ outcome' = [outcome EXCEPT ![t] = "waiting"]
          /\ emitter' = [emitter EXCEPT ![m] =
                 [todo |-> @.todo \ {t}, owed |-> {<<t[2], "depth">>}]]
       \/ /\ Len(queue) >= QueueSize
          /\ outcome' = [outcome EXCEPT ![t] = "dropped"]
          /\ emitter' = [emitter EXCEPT ![m] =
                 [todo |-> @.todo \ {t}, owed |-> {<<t[2], "dropped">>}]]
          /\ UNCHANGED queue
    /\ UNCHANGED <<table, statusRows, deadLetters, cache, statuses,
                   worker, editor, calm, emitted, created, spent>>

CountOffer(m) ==
    /\ \E o \in emitter[m].owed :
           LET st == StatusOf(o[1]) IN
           SetStatus(o[1], IF o[2] = "depth" THEN AdjustQueueDepth(st, 1)
                           ELSE [st EXCEPT !.dropped = @ + 1])
    /\ emitter' = [emitter EXCEPT ![m].owed = {}]
    /\ UNCHANGED <<table, deadLetters, cache, queue, worker, editor, calm,
                   emitted, created, outcome>>

-----------------------------------------------------------------------------
(* The worker.                                                             *)

Task == Head(worker.task)
Now(pc) == worker' = [worker EXCEPT !.pc = pc]

Worker_Receive ==
    /\ worker.pc = "idle"
    /\ queue # <<>>
    /\ queue' = Tail(queue)
    /\ worker' = [Idle EXCEPT !.pc = "depth", !.task = <<Head(queue)>>]
    /\ UNCHANGED <<table, statusRows, deadLetters, cache, statuses, emitter,
                   editor, calm, emitted, created, outcome, spent>>

Worker_Depth ==
    /\ worker.pc = "depth"
    /\ SetStatus(Task[2], AdjustQueueDepth(StatusOf(Task[2]), -1))
    /\ Now("deliver")
    /\ UNCHANGED <<table, deadLetters, cache, queue, emitter, editor, calm,
                   emitted, created, outcome>>

\* Mutant: a retry goes back to the queue, behind the events that came later.
DeliverSyslog_Requeues ==
    /\ worker.pc = "deliver"
    /\ \/ /\ Now("success")
          /\ outcome' = [outcome EXCEPT ![Task] = "delivered"]
          /\ UNCHANGED queue
       \/ /\ Len(queue) < QueueSize
          /\ queue' = Append(queue, Task)
          /\ worker' = Idle
          /\ UNCHANGED outcome
    /\ UNCHANGED <<table, statusRows, deadLetters, cache, statuses,
                   emitter, editor, calm, emitted, created, spent>>

\* Mutant: every attempt that fails is counted as a failed delivery.
DeliverSyslog_CountsAttempts ==
    /\ worker.pc = "deliver"
    /\ worker.attempt + 1 < Attempts
    /\ worker' = [worker EXCEPT !.attempt = @ + 1]
    /\ SetStatus(Task[2], [StatusOf(Task[2]) EXCEPT !.failed = @ + 1])
    /\ UNCHANGED <<table, deadLetters, cache, queue, emitter, editor, calm,
                   emitted, created, outcome>>

\* deliverSyslog succeeds, or fails and is retried or given up.
DeliverSyslog ==
    /\ worker.pc = "deliver"
    /\ \/ /\ Now("success")
          /\ outcome' = [outcome EXCEPT ![Task] = "delivered"]
       \/ /\ worker.attempt + 1 < Attempts
          /\ worker' = [worker EXCEPT !.attempt = @ + 1]
          /\ UNCHANGED outcome
       \/ /\ worker.attempt + 1 >= Attempts
          /\ Now("failure")
          /\ outcome' = [outcome EXCEPT ![Task] = "failed"]
    /\ UNCHANGED <<table, statusRows, deadLetters, cache, statuses, queue,
                   emitter, editor, calm, emitted, created, spent>>

RecordDeliverySuccess ==
    /\ worker.pc = "success"
    /\ SetStatus(Task[2], [StatusOf(Task[2]) EXCEPT !.delivered = @ + 1])
    /\ worker' = Idle
    /\ UNCHANGED <<table, deadLetters, cache, queue, emitter, editor, calm,
                   emitted, created, outcome>>

\* Unlike the others it writes the row after it has released statusMu.
RecordDeliveryFailure ==
    /\ worker.pc = "failure"
    /\ LET st == [StatusOf(Task[2]) EXCEPT !.failed = @ + 1] IN
       /\ statuses' = Put(statuses, Task[2], st)
       /\ worker' = [worker EXCEPT !.pc = "save", !.snapshot = st]
    /\ UNCHANGED <<table, statusRows, deadLetters, cache, queue, emitter,
                   editor, calm, emitted, created, outcome, spent>>

RecordDeliveryFailure_Save ==
    /\ worker.pc = "save"
    /\ UpsertStatus(Task[2], worker.snapshot)
    /\ Now("letter")
    /\ UNCHANGED <<table, deadLetters, cache, statuses, queue, emitter, editor, calm,
                   emitted, created, outcome>>

InsertDeadLetter ==
    /\ worker.pc = "letter"
    /\ \/ /\ deadLetters' = [deadLetters EXCEPT ![Task[2]] = @ + 1]
          /\ Now("prune")
          /\ UNCHANGED spent
       \/ /\ Fault \/ (Task[2] \notin table.sinks /\ UNCHANGED spent)
          /\ worker' = Idle
          /\ UNCHANGED deadLetters
    /\ UNCHANGED <<table, statusRows, cache, statuses, queue, emitter, editor, calm,
                   emitted, created, outcome>>

PruneDeadLetters ==
    /\ worker.pc = "prune"
    /\ \/ /\ deadLetters' = [deadLetters EXCEPT
                 ![Task[2]] = IF @ > DeadLetterLimit THEN DeadLetterLimit ELSE @]
          /\ UNCHANGED spent
       \/ Fault /\ UNCHANGED deadLetters
    /\ worker' = Idle
    /\ UNCHANGED <<table, statusRows, cache, statuses, queue, emitter, editor, calm,
                   emitted, created, outcome>>

WorkerNext ==
    \/ Worker_Receive \/ Worker_Depth \/ DeliverSyslog
    \/ RecordDeliverySuccess \/ RecordDeliveryFailure \/ RecordDeliveryFailure_Save
    \/ InsertDeadLetter \/ PruneDeadLetters

-----------------------------------------------------------------------------
(* Administrative requests: the statements still to come, in order.        *)

Reload == <<"ListSinks", "LoadRoutes", "LoadConfig", "ListStatuses", "LoadStatuses">>

CreatePlan == <<"UpsertSink", "EnsureStatus">> \o Reload
UpdatePlan == <<"UpsertSink">> \o Reload

\* Mutant: the routes are stored and not loaded.
RoutesPlan_NotLoaded == <<"UpsertRoutes">>

RoutesPlan == <<"UpsertRoutes">> \o Reload

\* UpdateRoutes, called with the routes that remain, reloads as well.
DeletePlan == <<"DeleteSink", "DeleteStatus", "FilterRoutes", "ValidateRoutes">>
                  \o RoutesPlan \o Reload

NoEdits == \A d \in Admins : editor[d].plan = <<>>

\* Handler prefixes that fail change nothing and are not steps.
StartEdit(d, plan, s, on, routes) ==
    /\ editor[d].plan = <<>>
    /\ spent.edits < MaxEdits
    /\ spent' = [spent EXCEPT !.edits = @ + 1]
    /\ editor' = [editor EXCEPT ![d] =
           [plan |-> plan, sink |-> s, on |-> on, routes |-> routes,
            config |-> NoConfig, read |-> <<>>]]
    /\ calm' = NoEdits
    /\ UNCHANGED <<table, statusRows, deadLetters, cache, statuses, queue,
                   worker, emitter, emitted, outcome>>

CreateSink(d) ==
    \E s \in Sinks \ created, on \in BOOLEAN :
        /\ created' = created \union {s}
        /\ StartEdit(d, CreatePlan, {s}, on, {})

UpdateSink(d) ==
    \E s \in FindSink, on \in BOOLEAN :
        /\ StartEdit(d, UpdatePlan, {s}, on, {})
        /\ UNCHANGED created

DeleteSink(d) ==
    \E s \in FindSink :
        /\ StartEdit(d, DeletePlan, {s}, FALSE, {})
        /\ UNCHANGED created

\* validateRouteRule: every route names a sink in the cache.
UpdateRoutes(d) ==
    \E routes \in SUBSET cache.sinks :
        /\ StartEdit(d, RoutesPlan, {}, FALSE, routes)
        /\ UNCHANGED created

Doing(d, call) == editor[d].plan # <<>> /\ Head(editor[d].plan) = call

\* The request after its next statement; the last one answers it.
Advance(d) ==
    IF Len(editor[d].plan) = 1 THEN NoEdit
    ELSE [editor[d] EXCEPT !.plan = Tail(@)]

Edits(d, e)  == editor' = [editor EXCEPT ![d] = e] /\ UNCHANGED calm
Advanced(d)  == Edits(d, Advance(d))
Fails(d)     == editor' = [editor EXCEPT ![d] = NoEdit] /\ calm' = FALSE

EditsOnly == UNCHANGED <<queue, worker, emitter, emitted, created, outcome>>

\* It inserts the row again if it has been deleted since findSink.
UpsertSink(d) ==
    /\ Doing(d, "UpsertSink")
    /\ table' = [table EXCEPT !.sinks = @ \union editor[d].sink,
                     !.enabled = IF editor[d].on THEN @ \union editor[d].sink
                                 ELSE @ \ editor[d].sink]
    /\ Advanced(d)
    /\ EditsOnly /\ UNCHANGED <<spent, statusRows, deadLetters, cache, statuses>>

EnsureStatus(d) ==
    /\ Doing(d, "EnsureStatus")
    /\ \E s \in editor[d].sink :
           IF s \in DOMAIN statuses THEN UNCHANGED <<statuses, statusRows, spent>>
           ELSE SetStatus(s, NoStatus)
    /\ Advanced(d)
    /\ EditsOnly /\ UNCHANGED <<table, deadLetters, cache>>

Without(f, S) == [x \in DOMAIN f \ S |-> f[x]]

\* ON DELETE CASCADE, where the connection enforces foreign keys.
DeleteSinkRow(d) ==
    /\ Doing(d, "DeleteSink")
    /\ table' = [table EXCEPT !.sinks = @ \ editor[d].sink,
                              !.enabled = @ \ editor[d].sink]
    /\ \/ /\ statusRows' = Without(statusRows, editor[d].sink)
          /\ deadLetters' = [s \in Sinks |->
                                 IF s \in editor[d].sink THEN 0 ELSE deadLetters[s]]
       \/ UNCHANGED <<statusRows, deadLetters>>
    /\ Advanced(d)
    /\ EditsOnly /\ UNCHANGED <<spent, cache, statuses>>

DeleteStatus(d) ==
    /\ Doing(d, "DeleteStatus")
    /\ statusRows' = Without(statusRows, editor[d].sink)
    /\ Advanced(d)
    /\ EditsOnly /\ UNCHANGED <<spent, table, deadLetters, cache, statuses>>

\* The remaining routes come from the cache.
FilterRoutes(d) ==
    /\ Doing(d, "FilterRoutes")
    /\ Edits(d, [Advance(d) EXCEPT !.routes = cache.routes \ editor[d].sink])
    /\ EditsOnly /\ UNCHANGED <<spent, table, statusRows, deadLetters, cache, statuses>>

\* And are validated against it: a route left over from an unfinished deletion
\* fails the request.
ValidateRoutes(d) ==
    /\ Doing(d, "ValidateRoutes")
    /\ \/ editor[d].routes \subseteq cache.sinks /\ Advanced(d)
       \/ ~(editor[d].routes \subseteq cache.sinks) /\ Fails(d)
    /\ EditsOnly /\ UNCHANGED <<spent, table, statusRows, deadLetters, cache, statuses>>

UpsertRoutes(d) ==
    /\ Doing(d, "UpsertRoutes")
    /\ table' = [table EXCEPT !.routes = editor[d].routes]
    /\ Advanced(d)
    /\ EditsOnly /\ UNCHANGED <<spent, statusRows, deadLetters, cache, statuses>>

\* A reload reads the two tables one after the other and keeps what it has
\* read until it takes the lock.
ListSinks(d) ==
    /\ Doing(d, "ListSinks")
    /\ Edits(d, [Advance(d) EXCEPT !.config = [table EXCEPT !.routes = {}]])
    /\ EditsOnly /\ UNCHANGED <<spent, table, statusRows, deadLetters, cache, statuses>>

LoadRoutes(d) ==
    /\ Doing(d, "LoadRoutes")
    /\ Edits(d, [Advance(d) EXCEPT !.config = [@ EXCEPT !.routes = table.routes]])
    /\ EditsOnly /\ UNCHANGED <<spent, table, statusRows, deadLetters, cache, statuses>>

LoadConfig(d) ==
    /\ Doing(d, "LoadConfig")
    /\ cache' = editor[d].config
    /\ Advanced(d)
    /\ EditsOnly /\ UNCHANGED <<spent, table, statusRows, deadLetters, statuses>>

ListStatuses(d) ==
    /\ Doing(d, "ListStatuses")
    /\ Edits(d, [Advance(d) EXCEPT !.read = statusRows])
    /\ EditsOnly /\ UNCHANGED <<spent, table, statusRows, deadLetters, cache, statuses>>

Loaded(read, known, sinks) == Over(Over(read, known), [s \in sinks |-> NoStatus])

\* The rows replace the counters in memory, which may have moved on since.
LoadStatuses(d) ==
    /\ Doing(d, "LoadStatuses")
    /\ statuses' = Loaded(editor[d].read, statuses, editor[d].config.sinks)
    /\ \/ /\ statusRows' = Over(Without(statuses', DOMAIN editor[d].read \union DOMAIN statuses),
                                statusRows)
          /\ UNCHANGED spent
       \/ Fault /\ UNCHANGED statusRows
    /\ Advanced(d)
    /\ EditsOnly /\ UNCHANGED <<table, deadLetters, cache>>

EditFails(d) ==
    /\ Fault
    /\ editor[d].plan # <<>>
    /\ Fails(d)
    /\ EditsOnly /\ UNCHANGED <<table, statusRows, deadLetters, cache, statuses>>

EditorNext(d) ==
    \/ CreateSink(d) \/ UpdateSink(d) \/ DeleteSink(d) \/ UpdateRoutes(d)
    \/ UpsertSink(d) \/ EnsureStatus(d) \/ DeleteSinkRow(d) \/ DeleteStatus(d)
    \/ FilterRoutes(d) \/ ValidateRoutes(d) \/ UpsertRoutes(d)
    \/ ListSinks(d) \/ LoadRoutes(d) \/ LoadConfig(d)
    \/ ListStatuses(d) \/ LoadStatuses(d) \/ EditFails(d)

-----------------------------------------------------------------------------
\* The server stops and NewService reloads: the queue, which main does not
\* drain, and every call in progress are lost.
Restart ==
    /\ Fault
    /\ cache' = table
    /\ statuses' = Loaded(statusRows, <<>>, table.sinks)
    /\ statusRows' = statuses'
    /\ queue' = <<>>
    /\ worker' = Idle
    /\ emitter' = [m \in Emitters |-> NotEmitting]
    /\ editor' = [d \in Admins |-> NoEdit]
    /\ calm' = TRUE
    /\ outcome' = [t \in Tasks |->
                       IF outcome[t] = "waiting" THEN "lost" ELSE outcome[t]]
    /\ UNCHANGED <<table, deadLetters, emitted, created>>

LogNext ==
    \/ \E m \in Emitters :
        \/ Emit(m) \/ TestDelivery(m) \/ CountOffer(m)
        \/ \E t \in Tasks : Offer(m, t)
    \/ WorkerNext
    \/ \E d \in Admins : EditorNext(d)
    \/ Restart

\* The worker is a goroutine of its own and every dial has a timeout.
LogFairness == WF_logVars(WorkerNext)
LogSpec == LogInit /\ [][LogNext]_logVars /\ LogFairness

-----------------------------------------------------------------------------
\* Type correctness: the queue holds what the channel can, and the worker makes
\* no more attempts than the schedule has (NewService, deliverWithRetry).
LogTypeOK ==
    /\ table \in Config /\ cache \in Config
    /\ \A d \in Admins : editor[d].config \in Config
    /\ \A f \in {statusRows, statuses} \union {editor[d].read : d \in Admins} :
           DOMAIN f \subseteq Sinks /\ \A s \in DOMAIN f : f[s] \in Status
    /\ deadLetters \in [Sinks -> Nat]
    /\ \A i \in DOMAIN queue : queue[i] \in Tasks
    /\ Len(queue) <= QueueSize
    /\ \A i \in DOMAIN worker.task : worker.task[i] \in Tasks
    /\ worker.attempt \in 0..Attempts - 1
    /\ outcome \in [Tasks -> {"none", "waiting", "dropped", "delivered",
                              "failed", "lost"}]

\* Each event is settled at most once per sink and in the order it was
\* queued, is dropped only when the channel is full, and is settled in the
\* end unless the server stops, whatever administrators do meanwhile (Emit,
\* worker, deliverWithRetry).
AtWork == worker.pc \in {"depth", "deliver"}
Delivery == INSTANCE LogDelivery WITH
    Capacity <- QueueSize,
    waiting <- (IF AtWork THEN worker.task ELSE <<>>) \o queue
DeliveryIsImplemented == Delivery!Spec

\* An administrative request that runs alone and is answered with success
\* leaves Emit routing by what the tables say, whatever earlier ones have left
\* behind that overlapped or failed half way (UpdateRoutes, DeleteSink, reload).
CacheFollowsTables == calm /\ NoEdits => cache = table

\* What an administrator sees: the counters in memory with the number of dead
\* letters in the database.
GetStatus == [s \in DOMAIN statuses |-> [counters |-> statuses[s], letters |-> deadLetters[s]]]

Become(s, o) == {t \in Tasks : t[2] = s /\ outcome[t] = o}
HasBecome(s, o) == Cardinality(Become(s, o))
HasHappened(st, s) ==
    /\ st.delivered <= HasBecome(s, "delivered")
    /\ st.failed <= HasBecome(s, "failed")
    /\ st.dropped <= HasBecome(s, "dropped")

\* The counters lose updates, to a reload that read older rows, to a failed
\* write and to a restart, and dead letters are pruned; but what GetStatus
\* shows, or will after a restart, never exceeds what has happened.
CountersNeverExceed ==
    /\ \A s \in DOMAIN GetStatus :
           /\ HasHappened(GetStatus[s].counters, s)
           /\ GetStatus[s].letters <= HasBecome(s, "failed")
    /\ \A s \in DOMAIN statusRows : HasHappened(statusRows[s], s)
=============================================================================
