-------------------------------- MODULE Updater --------------------------------
(***************************************************************************)
(* In-app updates (internal/updater, api/system.go): a status guarded by a *)
(* mutex, checks of the release manifest that borrow it, and goroutines    *)
(* that drive the Docker daemon and at last restart their own process.     *)
(*                                                                         *)
(* A step is one critical section, or a Docker call together with the      *)
(* status set after it.  Image names and messages are abstracted.          *)
(***************************************************************************)
EXTENDS Naturals, FiniteSets

CONSTANTS
    Updates,     \* goroutines runUpdate at the same time
    Checks       \* calls of CheckForUpdate at the same time

VARIABLES
    deployment,  \* what the labels and the container list of Docker say
    phase,       \* Service.status.State
    update,      \* the Docker call each update is at
    helper,      \* the container an update runs docker compose in
    checking,    \* checks that wait for the manifest
    checked      \* history: a check was made while an update ran

updVars == <<deployment, phase, update, helper, checking, checked>>

Phases == {"idle", "checking", "pulling", "restarting", "failed"}

UpdInit ==
    /\ deployment \in {"plain", "backend", "frontend"}
    /\ phase = "idle"
    /\ update = [u \in Updates |-> "none"]
    /\ helper = [u \in Updates |-> "none"]
    /\ checking = {}
    /\ checked = FALSE

Running == {u \in Updates : update[u] # "none"}

-----------------------------------------------------------------------------
(* CheckForUpdate: the deferred function gives the status back.            *)

CheckForUpdate(k) ==
    /\ k \notin checking
    /\ checking' = checking \union {k}
    /\ phase' = "checking"
    /\ checked' = (checked \/ Running # {})
    /\ UNCHANGED <<deployment, update, helper>>

CheckForUpdate_Done(k) ==
    /\ k \in checking
    /\ checking' = checking \ {k}
    /\ phase' = IF phase = "checking" THEN "idle" ELSE phase
    /\ UNCHANGED <<deployment, update, helper, checked>>

-----------------------------------------------------------------------------
\* Mutant: the status is left to the goroutine.
StartUpdate_Late(u) ==
    /\ update[u] = "none"
    /\ helper[u] = "none"
    /\ phase \in {"idle", "failed"}
    /\ update' = [update EXCEPT ![u] = "inspect"]
    /\ checked' = (checked /\ Running # {})
    /\ UNCHANGED <<deployment, phase, helper, checking>>

\* Each update has a helper name of its own.
StartUpdate(u) ==
    /\ update[u] = "none"
    /\ helper[u] = "none"
    /\ phase \in {"idle", "failed"}
    /\ phase' = "pulling"
    /\ update' = [update EXCEPT ![u] = "inspect"]
    /\ checked' = (checked /\ Running # {})
    /\ UNCHANGED <<deployment, helper, checking>>

\* runUpdate: the call that follows each, and the status set before it.
Compose == deployment # "plain"
Follows ==
    [inspect      |-> "pullBackend",
     pullBackend  |-> IF Compose THEN "discover" ELSE "restart",
     discover     |-> IF deployment = "frontend" THEN "pullFrontend" ELSE "pullHelper",
     pullFrontend |-> "pullHelper",
     pullHelper   |-> "create",
     create       |-> "start",
     start        |-> "wait"]
Announced ==
    [pullBackend |-> "pulling", pullFrontend |-> "pulling",
     pullHelper |-> "restarting", restart |-> "restarting"]

Docker(u) ==
    /\ update[u] \in DOMAIN Follows
    /\ LET next == Follows[update[u]] IN
       /\ update' = [update EXCEPT ![u] = next]
       /\ phase' = IF next \in DOMAIN Announced THEN Announced[next] ELSE phase
       /\ helper' = IF next = "wait" THEN [helper EXCEPT ![u] = "running"] ELSE helper
    /\ UNCHANGED <<deployment, checking, checked>>

Ends(u, status) ==
    /\ update' = [update EXCEPT ![u] = "none"]
    /\ phase' = status

\* Mutant: the error of the container list is only logged.
DockerFails_Silent(u) ==
    /\ update[u] # "none"
    /\ Ends(u, IF update[u] = "discover" THEN phase ELSE "failed")
    /\ helper' = [helper EXCEPT ![u] = "none"]
    /\ UNCHANGED <<deployment, checking, checked>>

\* A call fails or takes five minutes; the helper is removed, running or not.
DockerFails(u) ==
    /\ update[u] # "none"
    /\ Ends(u, "failed")
    /\ helper' = [helper EXCEPT ![u] = "none"]
    /\ UNCHANGED <<deployment, checking, checked>>

WaitContainer(u) ==
    /\ update[u] = "wait"
    /\ helper[u] \in {"succeeded", "broke"}
    /\ Ends(u, IF helper[u] = "succeeded" THEN "idle" ELSE "failed")
    /\ helper' = [helper EXCEPT ![u] = "none"]
    /\ UNCHANGED <<deployment, checking, checked>>

\* This process, with its goroutines, gives way to a new one.
Replaced ==
    /\ phase' = "idle"
    /\ update' = [u \in Updates |-> "none"]
    /\ checking' = {}
    /\ checked' = FALSE

\* Docker restarts the container, before or instead of answering.
RestartSelf(u) ==
    /\ update[u] = "restart"
    /\ Replaced
    /\ UNCHANGED <<deployment, helper>>

\* docker compose may replace this process and go on with the frontend; the
\* helper is then a container that nobody waits for or removes.
ComposeEnds(u) ==
    /\ helper[u] = "running"
    /\ helper' = [helper EXCEPT ![u] =
           IF u \notin Running THEN "none" ELSE "succeeded"]
    /\ UNCHANGED <<deployment, phase, update, checking, checked>>

ComposeBreaks(u) ==
    /\ helper[u] = "running"
    /\ helper' = [helper EXCEPT ![u] = IF u \notin Running THEN "none" ELSE "broke"]
    /\ UNCHANGED <<deployment, phase, update, checking, checked>>

ComposeReplaces(u) ==
    /\ helper[u] = "running"
    /\ u \in Running
    /\ Replaced
    /\ helper' = [v \in Updates |-> IF helper[v] = "running" THEN "running" ELSE "none"]
    /\ UNCHANGED deployment

UpdateSteps(u) == Docker(u) \/ DockerFails(u) \/ WaitContainer(u) \/ RestartSelf(u)

UpdNext ==
    \/ \E k \in Checks : CheckForUpdate(k) \/ CheckForUpdate_Done(k)
    \/ \E u \in Updates :
        \/ StartUpdate(u)
        \/ Docker(u) \/ DockerFails(u) \/ WaitContainer(u) \/ RestartSelf(u)
        \/ ComposeEnds(u) \/ ComposeBreaks(u) \/ ComposeReplaces(u)

\* Every Docker call ends: the client has a timeout.  A check need not, since
\* http.DefaultClient has none.
UpdFairness == \A u \in Updates : WF_updVars(UpdateSteps(u))
UpdSpec == UpdInit /\ [][UpdNext]_updVars /\ UpdFairness

-----------------------------------------------------------------------------
\* While an update runs it is shown, and is the only one, unless somebody has
\* asked for a check meanwhile, which overwrites the status and may give it
\* back as idle (StartUpdate, CheckForUpdate).
RunningIsShown ==
    Running # {} /\ ~checked =>
        /\ phase \in {"pulling", "restarting"}
        /\ Cardinality(Running) = 1

\* Every update lets go of the status, however Docker fails and whatever is
\* checked meanwhile: another one can be started (runUpdate).
UpdateLetsGo ==
    \A u \in Updates : update[u] # "none" ~> phase \in {"idle", "failed"}
=============================================================================
