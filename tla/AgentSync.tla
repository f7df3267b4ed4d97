------------------------------ MODULE AgentSync ------------------------------
(***************************************************************************)
(* One enrolled agent (agent/linux, agent/shared/client) and its rows on   *)
(* the server.  The daemon runs SyncOnce for ever: load the state file,    *)
(* inspect the local interface, check in, do what the answer asks for and  *)
(* save the state file.  The key of the agent is rotated across the two    *)
(* hosts: the server asks, the agent makes a key, the next check-in brings *)
(* the public half, and the agent switches its interface and its files.    *)
(*                                                                         *)
(* A step of the agent is one HTTP exchange, one file operation or one run *)
(* of wg-quick; between any two of them, and in the middle of a            *)
(* WriteFile, the agent may stop.  The handlers of the server are single   *)
(* steps here: ControlPlane takes them apart.                              *)
(*                                                                         *)
(* A key is a number that stands for both of its halves; keys are drawn in *)
(* the order 1, 2, ..., which makes each new one different from all        *)
(* before.  A configuration is the AllowedIPs of the peer and whether the  *)
(* managed DNS settings are on; the rest of it never changes.              *)
(***************************************************************************)
EXTENDS Naturals

CONSTANTS
    Nets,        \* non-empty values of a peer's AllowedIPs
    Admin,       \* what administrators do in this instance
    MaxAdmin,    \* bound: number of administrative actions
    MaxCrashes,  \* bound: number of times the agent stops
    Lossy,       \* TRUE: connections may fail before the answer
    Slow,        \* TRUE: an answer may take longer than the client waits
    Faulty,      \* TRUE: wg-quick may fail
    None,        \* no key, file, network, interface or message
    Torn         \* content of a file truncated and not yet written

ASSUME AgentSyncAssumption ==
    /\ None \notin Nets \union Nat /\ Torn \notin Nets \union Nat
    /\ None # Torn
    /\ MaxAdmin \in Nat /\ MaxCrashes \in Nat
    /\ Lossy \in BOOLEAN /\ Slow \in BOOLEAN /\ Faulty \in BOOLEAN

VARIABLES
    srv,         \* the server: agent status; peer status, key, configuration
    stateFile,   \* state.json
    primary,     \* private.key
    pending,     \* private.key.pending
    conf,        \* wiregate.conf: key and configuration
    iface,       \* the local WireGuard interface: key and configuration
    pc,          \* the call SyncOnce makes next
    mem,         \* its copy of the state
    resp,        \* the answer it is working on
    request,     \* the check-in on its way to the server
    reply,       \* the answer on its way back
    minted,      \* keys drawn so far
    admins, crashes

files == <<stateFile, primary, pending, conf>>
local == <<pc, mem, resp>>
wire  == <<request, reply>>
bounds == <<admins, crashes>>
vars == <<srv, files, iface, local, wire, minted, bounds>>

ApplyStatus == {"applied", "apply_failed", "drifted", "disabled"}
PeerStatus  == {"planned", "active", "disabled", "revoked", "rotation_pending"}
Config      == [nets : Nets \union {None}, dns : BOOLEAN]

\* An empty AllowedIPs has no fingerprint, and RenderConfig refuses it.
Renderable(c)  == c.nets # None
Fingerprint(c) == IF Renderable(c) THEN c ELSE None

\* The fingerprint InspectRuntime computes knows nothing of DNS settings.
Observed(i) == [i.cfg EXCEPT !.dns = FALSE]

-----------------------------------------------------------------------------
\* RefreshLocalRuntimeState: is what the last apply left still there?
RefreshLocalRuntimeState(s) ==
    IF s.hash = None \/ s.status = "disabled" THEN s
    ELSE IF conf # s.hash THEN [s EXCEPT !.status = "drifted"]
    ELSE IF s.fp = None THEN s
    ELSE [s EXCEPT !.status = IF iface # None /\ Observed(iface) = s.fp
                              THEN "applied" ELSE "drifted"]

\* A state file that does not parse fails every SyncOnce before it starts.
\* A new check-in ends the handler of an abandoned one, if it still runs.
SyncOnce_CheckIn ==
    /\ pc = "idle"
    /\ stateFile # Torn
    /\ mem' = RefreshLocalRuntimeState(stateFile)
    /\ request' = [pending |-> mem'.pending, fp |-> mem'.fp,
                   status |-> mem'.status]
    /\ reply' = None
    /\ pc' = "wait"
    /\ UNCHANGED <<srv, files, iface, resp, minted, bounds>>

\* The state is saved after a check-in that failed, too.
CheckInFails(next) ==
    /\ pc = "wait"
    /\ pc' = next
    /\ reply' = None
    /\ request' \in {request, None}
    /\ UNCHANGED <<srv, files, iface, mem, resp, minted, bounds>>

\* The connection fails before or after the server got the request.
SyncOnce_ConnectionFails == Lossy /\ CheckInFails("save")

\* The Timeout of the HTTP client: its error is a DeadlineExceeded, which
\* RunLoop takes for the end of its own context.
SyncOnce_Timeout == Slow /\ CheckInFails("saveAndEnd")

-----------------------------------------------------------------------------
\* Server: completeRotation, refused with a conflict for the current key.
Conflicts(m) == /\ srv.peer = "rotation_pending"
                /\ m.pending = srv.key

\* Mutant: a check-in without a new key completes the rotation too.
CompleteRotation_NoKey(m) ==
    IF srv.peer = "rotation_pending"
    THEN [srv EXCEPT !.key = m.pending, !.peer = "planned"]
    ELSE srv

CompleteRotation(m) ==
    IF srv.peer = "rotation_pending" /\ m.pending # None
    THEN [srv EXCEPT !.key = m.pending, !.peer = "planned"]
    ELSE srv

\* Mutant: only the fingerprint decides.
RequiresReconfigure_FingerprintOnly(s, m) ==
    IF s.status = "disabled" THEN m.status # "disabled"
    ELSE Fingerprint(s.cfg) # None /\ m.fp # Fingerprint(s.cfg)

RequiresReconfigure(s, m) ==
    IF s.status = "disabled" THEN m.status # "disabled"
    ELSE \/ s.peer # "active"
         \/ m.status \in {"apply_failed", "drifted"}
         \/ Fingerprint(s.cfg) # None /\ m.fp # Fingerprint(s.cfg)

Refusal == [ok |-> FALSE]
Answer(s, m) ==
    [ok |-> TRUE, disabled |-> s.status = "disabled",
     rotate |-> s.peer = "rotation_pending",
     reconfigure |-> RequiresReconfigure(s, m), key |-> s.key, cfg |-> s.cfg]

\* CheckInAgent; the answer of an abandoned request reaches nobody.
CheckInAgent ==
    /\ request # None
    /\ request' = None
    /\ IF srv.status = "revoked" \/ Conflicts(request)
       THEN srv' = srv /\ reply' = IF pc = "wait" THEN Refusal ELSE None
       ELSE /\ srv' = CompleteRotation(request)
            /\ reply' = IF pc = "wait" THEN Answer(srv', request) ELSE None
    /\ UNCHANGED <<files, iface, local, minted, bounds>>

-----------------------------------------------------------------------------
\* resolvePrivateKeyForApply: the pending key, once the server has it.
\* Mutants: the pending key is never used, or before the server has it.
UsesPending_Never(s, r) == FALSE
UsesPending_Always(s, r) == s.pending # None

UsesPending(s, r) == s.pending # None /\ r.key = s.pending

\* The key file the configuration will be made from.
KeyFile(s, r) == IF UsesPending(s, r) THEN pending ELSE primary

\* Mutant: the order of the tests is swapped.
NextCall_ReconfigureFirst(r) ==
    IF ~r.ok THEN "save"
    ELSE IF r.reconfigure /\ ~r.rotate THEN "writeConf"
    ELSE IF r.disabled THEN "disable"
    ELSE IF r.rotate THEN IF mem.pending = None THEN "ensureKey" ELSE "save"
    ELSE "save"

\* What SyncOnce does with the answer r, in the order of its tests.
NextCall(r) ==
    IF ~r.ok THEN "save"
    ELSE IF r.disabled THEN "disable"
    ELSE IF r.rotate THEN IF mem.pending = None THEN "ensureKey" ELSE "save"
    ELSE IF r.reconfigure THEN "writeConf"
    ELSE "save"

\* A key file that cannot be read ends SyncOnce without saving the state.
NoKey(r) == NextCall(r) = "writeConf" /\ KeyFile(mem, r) \in {None, Torn}

SyncOnce_Receive ==
    /\ pc = "wait"
    /\ reply # None
    /\ reply' = None
    /\ IF NoKey(reply)
       THEN pc' = "idle" /\ mem' = None /\ resp' = None
       ELSE /\ pc' = NextCall(reply)
            /\ mem' = mem
            /\ resp' = IF pc' = "writeConf" THEN reply ELSE None
    /\ UNCHANGED <<srv, files, iface, request, minted, bounds>>

\* disableLocalConfig: wg-quick down fails on an interface that is gone.
SyncOnce_Disable ==
    /\ pc = "disable"
    /\ \/ /\ iface # None
          /\ iface' = None
          /\ mem' = [mem EXCEPT !.status = "disabled"]
       \/ /\ Faulty \/ iface = None
          /\ iface' = iface
          /\ mem' = [mem EXCEPT !.status = "apply_failed"]
    /\ pc' = "save"
    /\ UNCHANGED <<srv, files, resp, wire, minted, bounds>>

\* Mutant: the key is made but not recorded in the state.
SyncOnce_EnsurePrivateKey_Unnamed ==
    /\ pc = "ensureKey"
    /\ IF pending = None
       THEN /\ minted' = minted + 1
            /\ pending' = minted'
       ELSE UNCHANGED <<minted, pending>>
    /\ pc' = "save"
    /\ UNCHANGED <<srv, stateFile, primary, conf, iface, mem, resp, wire,
                   bounds>>

\* ensurePendingRotationKey: a key file left by an earlier attempt is used.
SyncOnce_EnsurePrivateKey ==
    /\ pc = "ensureKey"
    /\ IF pending = None
       THEN /\ minted' = minted + 1
            /\ pending' = minted'
       ELSE UNCHANGED <<minted, pending>>
    /\ mem' = IF pending = Torn THEN mem
              ELSE [mem EXCEPT !.pending = pending']
    /\ pc' = "save"
    /\ UNCHANGED <<srv, stateFile, primary, conf, iface, resp, wire, bounds>>

\* WriteAndApplyConfig, up to the configuration file.
SyncOnce_WriteConfig ==
    LET body == [key |-> KeyFile(mem, resp), cfg |-> resp.cfg] IN
    /\ pc = "writeConf"
    /\ IF Renderable(resp.cfg)
       THEN /\ conf' = body
            /\ mem' = [mem EXCEPT !.fp = Fingerprint(resp.cfg), !.hash = body]
            /\ pc' = "down"
       ELSE /\ conf' = conf
            /\ mem' = [mem EXCEPT !.fp = Fingerprint(resp.cfg),
                                  !.status = "apply_failed"]
            /\ pc' = "save"
    /\ resp' = IF pc' = "save" THEN None ELSE resp
    /\ UNCHANGED <<srv, stateFile, primary, pending, iface, wire,
                   minted, bounds>>

\* ApplyConfig: an error of wg-quick down is ignored.
SyncOnce_Down ==
    /\ pc = "down"
    /\ iface' \in {None} \union (IF Faulty THEN {iface} ELSE {})
    /\ pc' = "up"
    /\ UNCHANGED <<srv, files, mem, resp, wire, minted, bounds>>

\* wg-quick up configures what the file says, if there is no interface yet.
SyncOnce_Up ==
    /\ pc = "up"
    /\ iface = None
    /\ iface' = conf
    /\ mem' = [mem EXCEPT !.status = "applied"]
    /\ pc' = IF UsesPending(mem, resp) THEN "promote" ELSE "save"
    /\ resp' = None
    /\ UNCHANGED <<srv, files, wire, minted, bounds>>

SyncOnce_UpFails ==
    /\ pc = "up"
    /\ Faulty \/ iface # None
    /\ mem' = [mem EXCEPT !.status = "apply_failed"]
    /\ pc' = "save"
    /\ resp' = None
    /\ UNCHANGED <<srv, files, iface, wire, minted, bounds>>

\* PromotePendingPrivateKey: the new key is written over the primary one,
\* then the pending file is removed.
PromotePending_Write ==
    /\ pc = "promote"
    /\ primary' = pending
    /\ pc' = "remove"
    /\ UNCHANGED <<srv, stateFile, pending, conf, iface, mem, resp, wire,
                   minted, bounds>>

PromotePending_Remove ==
    /\ pc = "remove"
    /\ pending' = None
    /\ mem' = [mem EXCEPT !.pending = None]
    /\ pc' = "save"
    /\ UNCHANGED <<srv, stateFile, primary, conf, iface, resp, wire,
                   minted, bounds>>

Saving == {"save", "saveAndEnd"}

\* The daemon that ends here ends with exit code 0.
SaveState ==
    /\ pc \in Saving
    /\ stateFile' = mem
    /\ pc' = IF pc = "save" THEN "idle" ELSE "ended"
    /\ mem' = None
    /\ UNCHANGED <<srv, primary, pending, conf, iface, resp, wire, minted,
                   bounds>>

-----------------------------------------------------------------------------
\* The agent is killed, with or without its host, and is started again
\* (Restart=on-failure: a daemon that ended by itself only with the host).
\* A file it was just writing may be left truncated.
WhileWriting(at, content) ==
    {content} \union (IF pc \in at THEN {Torn} ELSE {})

Stop ==
    /\ crashes < MaxCrashes
    /\ crashes' = crashes + 1
    /\ pc' = "idle" /\ mem' = None /\ resp' = None
    /\ stateFile' \in WhileWriting(Saving, stateFile)
    /\ conf' \in WhileWriting({"writeConf"}, conf)
    /\ primary' \in WhileWriting({"promote"}, primary)
    /\ pending' \in IF pending = None THEN WhileWriting({"ensureKey"}, None)
                    ELSE {pending}
    /\ iface' \in {iface, None}
    /\ pc = "ended" => iface' = None
    /\ reply' = None
    /\ UNCHANGED <<srv, request, minted, admins>>

-----------------------------------------------------------------------------
\* Administrators, each handler as one step.
Administer(op, s) ==
    /\ op \in Admin
    /\ admins < MaxAdmin
    /\ admins' = admins + 1
    /\ srv' = s
    /\ UNCHANGED <<files, iface, local, wire, minted, crashes>>

Disable == /\ srv.status = "enrolled"
           /\ Administer("disable", [srv EXCEPT !.status = "disabled",
                                                !.peer = "disabled"])

Enable == /\ srv.status = "disabled"
          /\ Administer("enable", [srv EXCEPT !.status = "enrolled",
                                              !.peer = "planned"])

Revoke == /\ srv.status # "revoked"
          /\ Administer("revoke", [srv EXCEPT !.status = "revoked",
                                              !.peer = "revoked"])

MarkAgentRotationPending ==
    /\ srv.status # "revoked"
    /\ Administer("rotate", [srv EXCEPT !.peer = "rotation_pending"])

ReconcilePeer ==
    /\ srv.peer \notin {"disabled", "revoked"}
    /\ Administer("reconcile", [srv EXCEPT !.peer = "active"])

\* A policy change renders AllowedIPs, the same or others, into the peer.
RefreshPeerIntent ==
    \E n \in Nets \union {None} :
        Administer("policy", [srv EXCEPT
            !.cfg.nets = n,
            !.peer = IF @ \in {"active", "rotation_pending"}
                     THEN "planned" ELSE @])

\* The DNS settings are read at each check-in; no peer is touched.
UpdateDNS == Administer("dns", [srv EXCEPT !.cfg.dns = ~@])

-----------------------------------------------------------------------------
\* The outcomes of runEnroll once it has saved the state: configured, or
\* with a wg-quick that failed, or with nothing to render yet.
Enrolled(c) == [status |-> "enrolled", peer |-> "planned", key |-> 1, cfg |-> c]

Init ==
    /\ srv \in {Enrolled(c) : c \in {d \in Config : ~d.dns}}
    /\ primary = 1 /\ pending = None /\ minted = 1
    /\ conf = IF Renderable(srv.cfg)
              THEN [key |-> 1, cfg |-> srv.cfg] ELSE None
    /\ iface \in IF Faulty THEN {conf, None} ELSE {conf}
    /\ stateFile = [pending |-> None, fp |-> Fingerprint(srv.cfg),
                    hash |-> conf,
                    status |-> IF iface = None THEN "apply_failed"
                               ELSE "applied"]
    /\ pc = "idle" /\ mem = None /\ resp = None
    /\ request = None /\ reply = None
    /\ admins = 0 /\ crashes = 0

Agent ==
    \/ SyncOnce_CheckIn \/ SyncOnce_ConnectionFails \/ SyncOnce_Timeout
    \/ SyncOnce_Receive
    \/ SyncOnce_Disable \/ SyncOnce_EnsurePrivateKey
    \/ SyncOnce_WriteConfig \/ SyncOnce_Down
    \/ SyncOnce_Up \/ SyncOnce_UpFails
    \/ PromotePending_Write \/ PromotePending_Remove
    \/ SaveState

Administrator ==
    \/ Disable \/ Enable \/ Revoke \/ MarkAgentRotationPending
    \/ ReconcilePeer \/ RefreshPeerIntent \/ UpdateDNS

Next == Agent \/ CheckInAgent \/ Stop \/ Administrator

Spec == Init /\ [][Next]_vars

(***************************************************************************)
(* As long as the daemon runs, every step of it takes bounded time, and a  *)
(* check-in that is retried for ever is answered now and then, as wg-quick *)
(* succeeds now and then.  Nothing obliges an administrator to act, the    *)
(* host to restart, or the agent to be killed.                             *)
(***************************************************************************)
Fairness ==
    /\ WF_vars(Agent)
    /\ SF_vars(pc = "wait" /\ CheckInAgent)
    /\ SF_vars(SyncOnce_Receive)
    /\ SF_vars(SyncOnce_Disable /\ iface' = None)
    /\ SF_vars(SyncOnce_Down /\ iface' = None)
    /\ SF_vars(SyncOnce_Up)

FairSpec == Spec /\ Fairness

-----------------------------------------------------------------------------
StateRow == [pending : Nat \union {None}, fp : Config \union {None},
             hash : [key : Nat, cfg : Config] \union {None},
             status : ApplyStatus]

Answers == [ok : {TRUE}, disabled : BOOLEAN, rotate : BOOLEAN,
            reconfigure : BOOLEAN, key : Nat, cfg : Config] \union {Refusal}

\* Files, interface, messages and the daemon keep their types.
TypeOK ==
    /\ srv \in [status : {"enrolled", "disabled", "revoked"},
                peer : PeerStatus, key : Nat, cfg : Config]
    /\ stateFile \in StateRow \union {Torn}
    /\ pc \in {"idle", "wait", "disable", "ensureKey", "writeConf", "down",
              "up", "promote", "remove", "save", "saveAndEnd", "ended"}
    /\ primary \in Nat \union {Torn}
    /\ pending \in Nat \union {None, Torn}
    /\ conf \in [key : Nat, cfg : Config] \union {None, Torn}
    /\ iface \in [key : Nat, cfg : Config] \union {None}
    /\ mem \in StateRow \union {None}
    /\ request = None \/
       request \in [pending : Nat \union {None},
                    fp : Config \union {None}, status : ApplyStatus]
    /\ reply \in Answers \union {None} /\ resp \in Answers \union {None}
    /\ minted \in Nat /\ admins \in 0..MaxAdmin /\ crashes \in 0..MaxCrashes

\* The private half of the key the server admits is always in a key file of
\* the agent, wherever the daemon stops in promotion and whatever is lost.
KeyHeld == srv.key \in {primary, pending}

\* What the agent brings its interface up with is the key the server admits
\* at that moment, not one of an earlier or of an unfinished rotation.
AppliesServersKey ==
    [][iface' \notin {iface, None} => iface'.key = srv.key]_vars

(***************************************************************************)
(* The inductive invariant behind both.  In words: the file of a key is    *)
(* never overwritten or removed while the server, the saved state or a     *)
(* check-in that may still be handled refers to it.                        *)
(***************************************************************************)
Applying == {"writeConf", "down", "up"}

\* A named pending key is in one of the two files, in the pending one if
\* that is readable.
NamedKeyHeld(s) ==
    s.pending # None => /\ s.pending \in {primary, pending}
                        /\ pending \in Nat => s.pending = pending

KeyCustody ==
    /\ KeyHeld
    /\ pc \notin {"idle", "ended"} => mem \in StateRow
    /\ pc \in Applying => /\ resp \in Answers /\ resp.ok /\ resp.key = srv.key
                         /\ KeyFile(mem, resp) \in Nat
    /\ reply # None => /\ pc = "wait" /\ request = None
                       /\ reply.ok => reply.key = srv.key
    /\ pc \notin {"idle", "ended", "wait"} \union Saving => request = None
    /\ pc \notin {"idle", "ended"} \union Saving =>
          stateFile # Torn /\ mem.pending = stateFile.pending
    /\ stateFile # Torn =>
          /\ NamedKeyHeld(stateFile)
          /\ stateFile.pending = None => srv.key = primary
          /\ request # None => request.pending = stateFile.pending
    /\ request # None /\ request.pending # None =>
          request.pending \in {primary, pending}
    /\ pc \in Saving => /\ NamedKeyHeld(mem)
                        /\ mem.pending = None => srv.key = primary
                        /\ request # None => request.pending = mem.pending
    /\ pc = "ensureKey" => mem.pending = None
    /\ pc \in {"down", "up"} => /\ conf \in [key : Nat, cfg : Config]
                                /\ conf.key = srv.key
    /\ pc = "promote" => mem.pending = srv.key /\ pending = srv.key
    /\ pc = "remove" => mem.pending = srv.key /\ primary = srv.key

\* What a stop can leave behind that SyncOnce never repairs: an unreadable
\* state file, an unreadable new key, or a state that names the pending key
\* although its file has been promoted and removed.
Damaged ==
    \/ stateFile = Torn
    \/ pending = Torn
    \/ /\ pc \in {"idle", "ended"} /\ stateFile # Torn
       /\ stateFile.pending # None /\ pending = None

\* A second rotation asked for while the agent still offers the key of the
\* first, which the server has: every check-in is refused as a conflict.
Refused == srv.peer = "rotation_pending" /\ stateFile.pending = srv.key

\* The daemon ended after a check-in that timed out.
Ended == pc = "ended"

Wedged == Damaged \/ Refused \/ Ended

InSync == /\ iface # None
          /\ iface.key = srv.key
          /\ iface.cfg = srv.cfg

Planned == /\ srv.status = "enrolled" /\ srv.peer = "planned"
           /\ Renderable(srv.cfg)

\* While the server waits for the agent (peer planned), the agent ends up
\* with the key and the configuration of the server on its interface, over
\* lost messages, failures of wg-quick and stops that damage nothing.
PlannedIsApplied == Planned ~> (InSync \/ ~Planned \/ Wedged)

Rotating == srv.status = "enrolled" /\ srv.peer = "rotation_pending"

\* A rotation that nobody cancels reaches the server: the new key is
\* admitted, whatever is lost on the way.  (A disabled agent makes no key.)
RotationArrives == Rotating ~> (~Rotating \/ Wedged)

\* A disabled agent takes its interface down.
DisabledGoesDown ==
    (srv.status = "disabled") ~>
        (iface = None \/ srv.status # "disabled" \/ Wedged)

\* "Enable to restore it later": an agent that stays enabled gets its
\* interface back.
EnableRestores ==
    (srv.status = "enrolled" /\ Renderable(srv.cfg)) ~>
        (iface # None \/ srv.status # "enrolled")

\* "Rotate key replaces the WireGuard key pair": the agent comes to use the
\* key the server admits.  (Not so after a lost answer and a reconcile or a
\* second rotation; see Refused.)
RotationReplacesKey ==
    (srv.status = "enrolled" /\ Renderable(srv.cfg)) ~>
        (InSync \/ srv.status # "enrolled")
=============================================================================
