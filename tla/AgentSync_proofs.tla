--------------------------- MODULE AgentSync_proofs ---------------------------
(***************************************************************************)
(* The agent never loses the private half of the key the server admits,    *)
(* and never configures another one: for every set of networks, any number *)
(* of administrative actions and any number of stops, at any step.         *)
(*                                                                         *)
(* Each lemma takes one group of actions and shows that it preserves       *)
(* TypeOK and KeyCustody.                                                  *)
(***************************************************************************)
EXTENDS AgentSync, TLAPS

\* What an agent step relies on and preserves.
Safe == TypeOK /\ KeyCustody

USE AgentSyncAssumption

\* The outcomes of runEnroll satisfy the invariant.
LEMMA InitSafe == Init => Safe
BY DEF Init, Enrolled, Safe, TypeOK, KeyCustody, KeyHeld, NamedKeyHeld,
       StateRow, Config, PeerStatus, ApplyStatus, Renderable, Fingerprint,
       Applying, Saving

\* A check-in leaves with the pending key of the state file it loaded.
LEMMA CheckInSafe == Safe /\ SyncOnce_CheckIn => Safe'
<1> SUFFICES ASSUME Safe, SyncOnce_CheckIn PROVE Safe'
    OBVIOUS
<1> USE DEF Safe, SyncOnce_CheckIn, files, bounds
<1>1. stateFile \in StateRow
    BY DEF TypeOK
<1>2. /\ mem' \in StateRow
      /\ mem'.pending = stateFile.pending
    BY <1>1 DEF RefreshLocalRuntimeState, StateRow, ApplyStatus
<1>3. TypeOK'
    BY <1>2 DEF TypeOK, StateRow
<1>4. KeyCustody'
    BY <1>1, <1>2 DEF TypeOK, KeyCustody, KeyHeld, NamedKeyHeld, Applying, Saving, StateRow
<1> QED
    BY <1>3, <1>4

\* A check-in whose answer never comes: the state is saved as it was loaded.
LEMMA CheckInFailsSafe ==
    Safe /\ (SyncOnce_ConnectionFails \/ SyncOnce_Timeout) => Safe'
<1> SUFFICES ASSUME Safe, SyncOnce_ConnectionFails \/ SyncOnce_Timeout
             PROVE  Safe'
    OBVIOUS
<1> USE DEF Safe, SyncOnce_ConnectionFails, SyncOnce_Timeout, CheckInFails,
            files, wire, local, bounds
<1>1. TypeOK'
    BY DEF TypeOK, KeyCustody, KeyHeld, NamedKeyHeld, Applying, Saving, StateRow
<1>2. KeyCustody'
    BY DEF TypeOK, KeyCustody, KeyHeld, NamedKeyHeld, Applying, Saving, StateRow
<1> QED
    BY <1>1, <1>2

\* Taking the interface down touches no key.
LEMMA DisableSafe == Safe /\ SyncOnce_Disable => Safe'
<1> SUFFICES ASSUME Safe, SyncOnce_Disable PROVE Safe'
    OBVIOUS
<1> USE DEF Safe, SyncOnce_Disable, files, wire, local, bounds, ApplyStatus
<1>1. TypeOK'
    BY DEF TypeOK, KeyCustody, KeyHeld, NamedKeyHeld, Applying, Saving, StateRow
<1>2. KeyCustody'
    BY DEF TypeOK, KeyCustody, KeyHeld, NamedKeyHeld, Applying, Saving, StateRow
<1> QED
    BY <1>1, <1>2

\* A new key is drawn only where no pending file is, and none is named.
LEMMA EnsureKeySafe == Safe /\ SyncOnce_EnsurePrivateKey => Safe'
<1> SUFFICES ASSUME Safe, SyncOnce_EnsurePrivateKey PROVE Safe'
    OBVIOUS
<1> USE DEF Safe, SyncOnce_EnsurePrivateKey, files, wire, local, bounds
<1>1. TypeOK'
    BY DEF TypeOK, KeyCustody, KeyHeld, NamedKeyHeld, Applying, Saving, StateRow
<1>2. KeyCustody'
    BY DEF TypeOK, KeyCustody, KeyHeld, NamedKeyHeld, Applying, Saving, StateRow
<1> QED
    BY <1>1, <1>2

\* An answer that is no refusal carries a configuration.
LEMMA AnswerHasConfig ==
    ASSUME NEW r \in Answers, r.ok PROVE r.cfg \in Config
<1>1. r # Refusal
    BY DEF Refusal
<1> QED
    BY <1>1 DEF Answers

\* The configuration file gets the key the server admits.
LEMMA WriteConfigSafe == Safe /\ SyncOnce_WriteConfig => Safe'
<1> SUFFICES ASSUME Safe, SyncOnce_WriteConfig PROVE Safe'
    OBVIOUS
<1> DEFINE key == KeyFile(mem, resp)
<1> USE DEF Safe, SyncOnce_WriteConfig, wire, bounds
<1>1. /\ pc \in Applying /\ mem \in StateRow
      /\ key \in Nat /\ resp \in Answers /\ resp.ok /\ resp.key = srv.key
    BY DEF KeyCustody, Applying, Saving
<1>2. resp.cfg \in Config
    BY <1>1, AnswerHasConfig
<1>3. key = srv.key
  <2>1. CASE UsesPending(mem, resp)
    BY <2>1, <1>1 DEF KeyCustody, NamedKeyHeld, KeyFile, UsesPending
  <2>2. CASE ~UsesPending(mem, resp)
    BY <2>2, <1>1 DEF KeyCustody, KeyHeld, NamedKeyHeld, KeyFile, UsesPending,
                      TypeOK
  <2> QED
    BY <2>1, <2>2
<1>4. /\ mem' \in StateRow
      /\ mem'.pending = mem.pending
  <2>1. Fingerprint(resp.cfg) \in Config \union {None}
    BY <1>2 DEF Fingerprint
  <2>2. [key |-> key, cfg |-> resp.cfg] \in [key : Nat, cfg : Config]
    BY <1>1, <1>2
  <2> QED
    BY <1>1, <2>1, <2>2 DEF StateRow, ApplyStatus
<1>5. \/ /\ pc' = "down" /\ resp' = resp
         /\ conf' = [key |-> key, cfg |-> resp.cfg]
      \/ pc' = "save" /\ conf' = conf /\ resp' = None
    OBVIOUS
<1> HIDE DEF key
<1>6. conf' \in [key : Nat, cfg : Config] \union {None, Torn}
    BY <1>1, <1>2, <1>5 DEF TypeOK
<1>7. TypeOK'
    BY <1>4, <1>5, <1>6 DEF TypeOK
<1>8. pc' = "down" => conf' \in [key : Nat, cfg : Config] /\ conf'.key = srv.key
    BY <1>1, <1>2, <1>3, <1>5
<1>9. pc' = "down" => KeyFile(mem', resp') = KeyFile(mem, resp)
    BY <1>4, <1>5 DEF KeyFile, UsesPending
<1>10. KeyCustody'
    BY <1>1, <1>4, <1>5, <1>8, <1>9
       DEF TypeOK, KeyCustody, KeyHeld, NamedKeyHeld, Applying, Saving, key, KeyFile, UsesPending
<1> QED
    BY <1>7, <1>10

\* wg-quick down touches no file.
LEMMA DownSafe == Safe /\ SyncOnce_Down => Safe'
<1> SUFFICES ASSUME Safe, SyncOnce_Down PROVE Safe'
    OBVIOUS
<1> USE DEF Safe, SyncOnce_Down, files, wire, bounds, KeyFile, UsesPending
<1>1. TypeOK'
    BY DEF TypeOK
<1>2. KeyCustody'
    BY DEF TypeOK, KeyCustody, KeyHeld, NamedKeyHeld, Applying, Saving
<1> QED
    BY <1>1, <1>2

\* The interface comes up with the key of the configuration file; the pending
\* key is promoted only if it is that one.
LEMMA UpSafe == Safe /\ SyncOnce_Up => Safe'
<1> SUFFICES ASSUME Safe, SyncOnce_Up PROVE Safe'
    OBVIOUS
<1> USE DEF Safe, SyncOnce_Up, files, wire, local, bounds, KeyFile, UsesPending, ApplyStatus
<1>1. TypeOK'
    BY DEF TypeOK, KeyCustody, KeyHeld, NamedKeyHeld, Applying, Saving, StateRow
<1>2. KeyCustody'
    BY DEF TypeOK, KeyCustody, KeyHeld, NamedKeyHeld, Applying, Saving, StateRow
<1> QED
    BY <1>1, <1>2

\* A failed wg-quick leaves the rotation to the next check-in.
LEMMA UpFailsSafe == Safe /\ SyncOnce_UpFails => Safe'
<1> SUFFICES ASSUME Safe, SyncOnce_UpFails PROVE Safe'
    OBVIOUS
<1> USE DEF Safe, SyncOnce_UpFails, files, wire, local, bounds, KeyFile, UsesPending, ApplyStatus
<1>1. TypeOK'
    BY DEF TypeOK, KeyCustody, KeyHeld, NamedKeyHeld, Applying, Saving, StateRow
<1>2. KeyCustody'
    BY DEF TypeOK, KeyCustody, KeyHeld, NamedKeyHeld, Applying, Saving, StateRow
<1> QED
    BY <1>1, <1>2

\* Nothing refers to the primary key that the promotion overwrites.
LEMMA PromoteSafe == Safe /\ PromotePending_Write => Safe'
<1> SUFFICES ASSUME Safe, PromotePending_Write PROVE Safe'
    OBVIOUS
<1> USE DEF Safe, PromotePending_Write, files, wire, local, bounds
<1>1. TypeOK'
    BY DEF TypeOK, KeyCustody, KeyHeld, NamedKeyHeld, Applying, Saving, StateRow
<1>2. KeyCustody'
    BY DEF TypeOK, KeyCustody, KeyHeld, NamedKeyHeld, Applying, Saving, StateRow
<1> QED
    BY <1>1, <1>2

\* The pending file is removed when the primary one has its content.
LEMMA RemoveSafe == Safe /\ PromotePending_Remove => Safe'
<1> SUFFICES ASSUME Safe, PromotePending_Remove PROVE Safe'
    OBVIOUS
<1> USE DEF Safe, PromotePending_Remove, files, wire, local, bounds
<1>1. TypeOK'
    BY DEF TypeOK, KeyCustody, KeyHeld, NamedKeyHeld, Applying, Saving, StateRow
<1>2. KeyCustody'
    BY DEF TypeOK, KeyCustody, KeyHeld, NamedKeyHeld, Applying, Saving, StateRow
<1> QED
    BY <1>1, <1>2

\* The state saved names a key that is held.
LEMMA SaveSafe == Safe /\ SaveState => Safe'
<1> SUFFICES ASSUME Safe, SaveState PROVE Safe'
    OBVIOUS
<1> USE DEF Safe, SaveState, files, wire, local, bounds
<1>1. TypeOK'
    BY DEF TypeOK, KeyCustody, KeyHeld, NamedKeyHeld, Applying, Saving, StateRow
<1>2. KeyCustody'
    BY DEF TypeOK, KeyCustody, KeyHeld, NamedKeyHeld, Applying, Saving, StateRow
<1> QED
    BY <1>1, <1>2

\* A stop truncates only the file being written, which nothing refers to.
LEMMA StopSafe == Safe /\ Stop => Safe'
<1> SUFFICES ASSUME Safe, Stop PROVE Safe'
    OBVIOUS
<1> USE DEF Safe, Stop, files, wire, local, bounds, WhileWriting
<1>1. TypeOK'
    BY DEF TypeOK, KeyCustody, KeyHeld, NamedKeyHeld, Applying, Saving, StateRow
<1>2. KeyCustody'
    BY DEF TypeOK, KeyCustody, KeyHeld, NamedKeyHeld, Applying, Saving, StateRow
<1> QED
    BY <1>1, <1>2

\* The server admits only a key it was sent, and that key is still held.
LEMMA ServerSafe == Safe /\ CheckInAgent => Safe'
<1> SUFFICES ASSUME Safe, CheckInAgent PROVE Safe'
    OBVIOUS
<1> USE DEF Safe, CheckInAgent, files, local, bounds
<1>1. /\ srv' \in [status : {"enrolled", "disabled", "revoked"},
                   peer : PeerStatus, key : Nat, cfg : Config]
      /\ srv'.key \in {primary, pending}
  <2>1. CASE srv' = srv
    BY <2>1 DEF TypeOK, KeyCustody, KeyHeld
  <2>2. CASE srv' = CompleteRotation(request)
    BY <2>2 DEF CompleteRotation, TypeOK, PeerStatus, KeyCustody, KeyHeld
  <2> QED
    BY <2>1, <2>2
<1>2. /\ reply' \in Answers \union {None}
      /\ reply' # None => pc = "wait" /\ (reply'.ok => reply'.key = srv'.key)
  <2>1. Answer(srv', request) \in Answers /\ Answer(srv', request).key = srv'.key
    BY <1>1 DEF Answer, Answers, RequiresReconfigure
  <2>2. Refusal \in Answers /\ ~Refusal.ok
    BY DEF Answers, Refusal
  <2> QED
    BY <2>1, <2>2
<1>3. TypeOK'
    BY <1>1, <1>2 DEF TypeOK
<1>4. pc \in {"idle", "ended", "wait"} \union Saving
    BY DEF TypeOK, KeyCustody
<1>5. /\ stateFile # Torn /\ stateFile.pending = None => srv'.key = srv.key
      /\ pc \in Saving /\ mem.pending = None => srv'.key = srv.key
    BY DEF CompleteRotation, KeyCustody
<1>6. KeyCustody'
    BY <1>1, <1>2, <1>4, <1>5
       DEF KeyCustody, KeyHeld, NamedKeyHeld, Applying, Saving
<1> QED
    BY <1>3, <1>6

\* The file the configuration will be made from holds the key of the server.
LEMMA ReceiveSafe == Safe /\ SyncOnce_Receive => Safe'
<1> SUFFICES ASSUME Safe, SyncOnce_Receive PROVE Safe'
    OBVIOUS
<1> USE DEF Safe, SyncOnce_Receive, files, bounds
<1>1. /\ pc = "wait" /\ request = None /\ reply \in Answers
      /\ mem \in StateRow /\ mem.pending = stateFile.pending
      /\ stateFile # Torn
      /\ reply.ok => reply.key = srv.key
    BY DEF TypeOK, KeyCustody, Saving
<1>2. /\ NextCall(reply) \in {"save", "disable", "ensureKey", "writeConf"}
      /\ NextCall(reply) = "writeConf" => reply.ok
      /\ NextCall(reply) = "ensureKey" => mem.pending = None
    BY DEF NextCall
<1>3. TypeOK'
    BY <1>1, <1>2 DEF TypeOK
<1>4. KeyFile(mem, reply) \in Nat \union {None, Torn}
    BY DEF KeyFile, TypeOK
<1>5. KeyCustody'
  <2>1. CASE NoKey(reply)
    BY <1>1, <2>1 DEF KeyCustody, KeyHeld, NamedKeyHeld, Applying, Saving
  <2>2. CASE ~NoKey(reply) /\ NextCall(reply) = "writeConf"
    <3>1. /\ pc' = "writeConf" /\ resp' = reply /\ mem' = mem
          /\ KeyFile(mem, reply) \in Nat
      BY <1>4, <2>2 DEF NoKey
    <3> QED
      BY <1>1, <1>2, <2>2, <3>1
         DEF KeyCustody, KeyHeld, NamedKeyHeld, Applying, Saving, KeyFile, UsesPending
  <2>3. CASE ~NoKey(reply) /\ NextCall(reply) # "writeConf"
    BY <1>1, <1>2, <2>3 DEF KeyCustody, KeyHeld, NamedKeyHeld, Applying, Saving
  <2> QED
    BY <2>1, <2>2, <2>3
<1> QED
    BY <1>3, <1>5

\* No administrative handler touches a key or the agent.
LEMMA AdministratorSafe == Safe /\ Administrator => Safe'
<1> SUFFICES ASSUME Safe, Administrator PROVE Safe'
    OBVIOUS
<1>0. /\ srv \in [status : {"enrolled", "disabled", "revoked"},
                  peer : PeerStatus, key : Nat, cfg : Config]
      /\ admins \in 0..MaxAdmin
    BY DEF Safe, TypeOK
<1>1. /\ srv' \in [status : {"enrolled", "disabled", "revoked"},
                   peer : PeerStatus, key : Nat, cfg : Config]
      /\ srv'.key = srv.key
  <2> USE <1>0 DEF Administer, PeerStatus
  <2>1. CASE Disable
    BY <2>1 DEF Disable
  <2>2. CASE Enable
    BY <2>2 DEF Enable
  <2>3. CASE Revoke
    BY <2>3 DEF Revoke
  <2>4. CASE MarkAgentRotationPending
    BY <2>4 DEF MarkAgentRotationPending
  <2>5. CASE ReconcilePeer
    BY <2>5 DEF ReconcilePeer
  <2>6. CASE RefreshPeerIntent
    <3>1. PICK n \in Nets \union {None} :
            srv' = [srv EXCEPT !.cfg.nets = n,
                      !.peer = IF @ \in {"active", "rotation_pending"}
                               THEN "planned" ELSE @]
      BY <2>6 DEF RefreshPeerIntent
    <3> QED
      BY <3>1 DEF Config
  <2>7. CASE UpdateDNS
    BY <2>7 DEF UpdateDNS, Config
  <2> QED
    BY <2>1, <2>2, <2>3, <2>4, <2>5, <2>6, <2>7 DEF Administrator
<1>2. \E op \in Admin, s \in {srv'} : Administer(op, s)
    BY DEF Administrator, Disable, Enable, Revoke, RefreshPeerIntent,
           MarkAgentRotationPending, ReconcilePeer, UpdateDNS, Administer
<1>3. /\ admins' \in 0..MaxAdmin
      /\ UNCHANGED <<files, iface, local, wire, minted, crashes>>
    BY <1>0, <1>2 DEF Administer
<1>4. TypeOK'
    BY <1>1, <1>3 DEF Safe, TypeOK, files, local, wire
<1>5. KeyCustody'
    BY <1>1, <1>3 DEF Safe, KeyCustody, KeyHeld, NamedKeyHeld, Applying, Saving,
                      KeyFile, UsesPending, files, local, wire
<1> QED
    BY <1>4, <1>5 DEF Safe

\* A step that changes nothing.
LEMMA StutterSafe == Safe /\ UNCHANGED vars => Safe'
BY DEF Safe, TypeOK, KeyCustody, KeyHeld, NamedKeyHeld, Applying, Saving, KeyFile,
       UsesPending, vars, files, local, wire, bounds

\* Every step of the agent, the server and the administrators.
LEMMA NextSafe == Safe /\ [Next]_vars => Safe'
BY CheckInSafe, CheckInFailsSafe, ReceiveSafe, DisableSafe, EnsureKeySafe,
   WriteConfigSafe, DownSafe, UpSafe, UpFailsSafe, PromoteSafe, RemoveSafe,
   SaveSafe, ServerSafe, StopSafe, AdministratorSafe, StutterSafe
   DEF Next, Agent

\* Types and key custody are invariants of the agent.
THEOREM Custody == Spec => [](TypeOK /\ KeyCustody)
<1>1. Spec => []Safe
    BY InitSafe, NextSafe, PTL DEF Spec
<1>2. Safe => TypeOK /\ KeyCustody
    BY DEF Safe
<1> QED
    BY <1>1, <1>2, PTL

\* The files, the interface, the answers under way and the server's record
\* keep their types through every stop and every late answer.
THEOREM AgentIsTyped == Spec => []TypeOK
BY Custody, PTL

\* Whatever is lost and wherever the agent stops, it still has the private
\* half of the key the server admits.
THEOREM KeyNeverLost == Spec => []KeyHeld
<1>1. KeyCustody => KeyHeld
    BY DEF KeyCustody
<1> QED
    BY <1>1, Custody, PTL

\* SyncOnce_Up is the only step that configures the interface, and the file
\* it reads was made with the key the server still admits.
THEOREM OnlyServedKeys == Spec => AppliesServersKey
<1>1. Safe /\ [Next]_vars => [iface' \notin {iface, None} =>
                                iface'.key = srv.key]_vars
  <2> SUFFICES ASSUME Safe, Next, iface' \notin {iface, None}
               PROVE  iface'.key = srv.key
      OBVIOUS
  <2>1. SyncOnce_Up
      BY DEF Next, Agent, Administrator, SyncOnce_CheckIn, SyncOnce_ConnectionFails,
             SyncOnce_Timeout, CheckInFails,
             SyncOnce_Receive, SyncOnce_Disable, SyncOnce_EnsurePrivateKey,
             SyncOnce_WriteConfig, SyncOnce_Down, SyncOnce_UpFails,
             PromotePending_Write, PromotePending_Remove, SaveState,
             CheckInAgent, Stop, Disable, Enable, Revoke,
             MarkAgentRotationPending, ReconcilePeer, RefreshPeerIntent,
             UpdateDNS, Administer
  <2> QED
      BY <2>1 DEF Safe, KeyCustody, SyncOnce_Up
<1>2. Spec => []Safe
    BY InitSafe, NextSafe, PTL DEF Spec
<1> QED
    BY <1>1, <1>2, PTL DEF Spec, AppliesServersKey
=============================================================================
