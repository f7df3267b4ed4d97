------------------------------ MODULE Reconcile ------------------------------
(***************************************************************************)
(* internal/reconcile: ReconcilePeer reads the peer, configures its key on *)
(* the WireGuard interface and then marks the row active, whatever it has  *)
(* become in between.                                                      *)
(***************************************************************************)
EXTENDS Store

\* Mutant: only disabled peers are refused.
Reconcilable_Revoked(status) == status \notin {"absent", "disabled"}

Reconcilable(status) == status \notin {"absent", "disabled", "revoked"}

ReconcilePeer_FindByID(w) ==
    \E a \in Agents :
        /\ Reconcilable(peer[a].status)
        /\ Begin(w, [OpenFor("reconcile", "ApplyPeer", a)
                         EXCEPT !.key = peer[a].key])
        /\ UNCHANGED <<tables, history>>

\* The kernel adapter adds one key; it removes no other key of the peer.
ReconcilePeer_ApplyPeer(w) ==
    /\ At(w, "reconcile", "ApplyPeer")
    /\ runtime' = runtime \union {req[w].key}
    /\ Continue(w, "UpdatePeerStatus")
    /\ UNCHANGED <<agent, peer, token, policy, assigned, history>>

ReconcilePeer_UpdateStatus(w) ==
    /\ At(w, "reconcile", "UpdatePeerStatus")
    /\ peer' = [peer EXCEPT ![req[w].agent].status = "active"]
    /\ Answer(w)
    /\ UNCHANGED <<agent, token, policy, assigned, runtime, history>>

ReconcileNext(w) ==
    \/ ReconcilePeer_FindByID(w)
    \/ ReconcilePeer_ApplyPeer(w)
    \/ ReconcilePeer_UpdateStatus(w)
=============================================================================
