-------------------------------- MODULE Store --------------------------------
(***************************************************************************)
(* The tables of the WireGate control plane, the WireGuard interface it    *)
(* drives, and the HTTP requests in flight against them.                   *)
(*                                                                         *)
(* No handler of the server uses a transaction or a lock: a request is a   *)
(* sequence of single SQL statements and adapter calls, and every          *)
(* net/http request runs on a goroutine of its own.  So one step of this   *)
(* specification is one repository (or adapter) call together with the     *)
(* local computation that follows it, and requests interleave between      *)
(* steps.  A request that the code refuses at its first read changes       *)
(* nothing and is not a step.                                              *)
(***************************************************************************)
EXTENDS Naturals, FiniteSets

CONSTANTS
    Agents,      \* agent ids newID() may draw; a peer has its agent's index
    Hosts,       \* hostnames
    Keys,        \* WireGuard public keys
    Tokens,      \* enrollment token ids
    Policies,    \* access policy ids
    Nets,        \* destination CIDRs
    Internet,    \* "0.0.0.0/0", rendered for a full tunnel
    PoolSize,    \* client addresses 1..PoolSize, in allocation order
    ListLimit,   \* rows a listing of peers returns at most
    Workers,     \* requests the server handles at the same time
    Ops,         \* the requests clients send in this instance
    Faults,      \* TRUE: a request may end between two of its calls
    None         \* an empty column or argument

ASSUME StoreAssumption ==
    /\ None \notin Agents \union Hosts \union Keys \union Tokens \union Policies
    /\ Agents \intersect Tokens = {}
    /\ Internet \notin Nets
    /\ PoolSize \in Nat
    /\ ListLimit \in Nat \ {0}
    /\ Faults \in BOOLEAN
    /\ IsFiniteSet(Agents)

VARIABLES
    agent,       \* agents: one row per id, "absent" where there is no row
    peer,        \* peers, indexed by the agent the peer belongs to
    token,       \* enrollment_tokens and their policy bindings
    policy,      \* access_policies
    assigned,    \* active rows of policy_assignments
    runtime,     \* public keys configured on the WireGuard interface
    req,         \* the request each worker is handling
    \* History: what has been answered to clients, read by no handler.
    handed,      \* agents and tokens whose secret has been handed out
    enrolledBy,  \* the token each agent was enrolled with
    cut,         \* agents whose revocation has been answered
    withdrawn,   \* tokens whose revocation has been answered
    kept         \* agents whose last disable or revoke left the interface alone

tables  == <<agent, peer, token, policy, assigned, runtime>>
history == <<handed, enrolledBy, cut, withdrawn, kept>>
vars    == <<tables, req, history>>

-----------------------------------------------------------------------------
AgentStatus == {"absent", "enrolled", "disabled", "revoked"}
PeerStatus  == {"absent", "planned", "active", "disabled", "revoked",
                "rotation_pending"}
TokenStatus == {"absent", "issued", "used", "revoked"}
Modes       == {"standard", "full_tunnel"}
Addresses   == 1..PoolSize
NoAddress   == 0
AllowedIPs  == SUBSET (Nets \union {Internet})

AgentRow == [host: Hosts \union {None}, status: AgentStatus, auth: BOOLEAN,
             override: Modes \union {"inherit"}]
PeerRow  == [key: Keys \union {None}, addr: {NoAddress} \union Addresses,
             ips: AllowedIPs, status: PeerStatus,
             older: SUBSET Agents]  \* peers created before it (created_at)
TokenRow == [model: {"A", "B"}, bound: Hosts \union {None}, status: TokenStatus,
             usedAt: BOOLEAN, revokedAt: BOOLEAN, expired: BOOLEAN,
             policies: SUBSET Policies]
PolicyRow == [dests: SUBSET Nets, mode: Modes]

NoAgent == [host |-> None, status |-> "absent", auth |-> FALSE,
            override |-> "inherit"]
NoPeer  == [key |-> None, addr |-> NoAddress, ips |-> {}, status |-> "absent",
            older |-> {}]
NoToken == [model |-> "A", bound |-> None, status |-> "absent",
            usedAt |-> FALSE, revokedAt |-> FALSE, expired |-> FALSE,
            policies |-> {}]

HasAgent(a) == agent[a].status # "absent"
HasPeer(a)  == peer[a].status # "absent"
HasToken(t) == token[t].status # "absent"

-----------------------------------------------------------------------------
(* Requests: the operation, the call it makes next, and its locals.        *)

AllOps == {"createToken", "revokeToken", "reissue", "enroll", "checkIn",
           "disable", "enable", "revoke", "rotate", "reconcile",
           "assign", "unassign", "trafficMode", "updatePolicy"}

Calls == {"idle", "ListPolicies", "InsertToken", "BindPolicies", "Revoke",
          "FindByHostname", "FindByPublicKey", "AllocateAddress",
          "InsertAgent", "InsertPeer", "AssignPolicies", "MarkUsed", "BuildConfig",
          "FindPeer", "UpdateAgentStatus", "ClearAuthToken",
          "UpdatePeerStatus", "ClearAssignedAddress", "RemovePeer",
          "UpdatePublicKeyAndStatus", "ApplyPeer",
          "InsertAssignment", "ListByPolicyID",
          "refresh.FindPeer", "refresh.Render", "refresh.UpdateIntent"}

Request == [op: AllOps \union {"idle"}, pc: Calls,
            agent: Agents \union {None}, token: Tokens \union {None},
            host: Hosts \union {None}, key: Keys \union {None},
            addr: {NoAddress} \union Addresses, policy: Policies \union {None},
            status: PeerStatus, ips: AllowedIPs,
            todoPolicies: SUBSET Policies, todoAgents: SUBSET Agents,
            late: BOOLEAN]

\* late: when the request was made, its agent or token had already been
\* revoked and the revocation answered.
NoRequest == [op |-> "idle", pc |-> "idle", agent |-> None, token |-> None,
              host |-> None, key |-> None, addr |-> NoAddress, policy |-> None,
              status |-> "absent", ips |-> {}, todoPolicies |-> {},
              todoAgents |-> {}, late |-> FALSE]

At(w, op, pc) == req[w].op = op /\ req[w].pc = pc

\* A request after its first call, with pc the call that comes next.
Open(op, pc) == [NoRequest EXCEPT !.op = op, !.pc = pc]

OpenFor(op, pc, a) == [Open(op, pc) EXCEPT !.agent = a]

Step(w, r) == req' = [req EXCEPT ![w] = r]

\* Worker w takes up a request; r has the locals that its first call set.
Begin(w, r) ==
    /\ r.op \in Ops
    /\ req[w] = NoRequest
    /\ Step(w, r)

Continue(w, pc) == Step(w, [req[w] EXCEPT !.pc = pc])

Answer(w) == Step(w, NoRequest)

-----------------------------------------------------------------------------
\* A statement fails, the client goes away and cancels the request context,
\* or the server is killed: the calls already made stay, the others are lost.
Abort(w) ==
    /\ Faults
    /\ req[w] # NoRequest
    /\ Answer(w)
    /\ UNCHANGED <<tables, history>>

Init ==
    /\ agent = [a \in Agents |-> NoAgent]
    /\ peer = [a \in Agents |-> NoPeer]
    /\ token = [t \in Tokens |-> NoToken]
    /\ policy \in [Policies -> [dests: SUBSET Nets \ {{}}, mode: Modes]]
    /\ assigned = {}
    /\ runtime = {}
    /\ req = [w \in Workers |-> NoRequest]
    /\ handed = {}
    /\ enrolledBy = [a \in Agents |-> None]
    /\ cut = {}
    /\ withdrawn = {}
    /\ kept = {}

TypeOK ==
    /\ agent \in [Agents -> AgentRow]
    /\ peer \in [Agents -> PeerRow]
    /\ token \in [Tokens -> TokenRow]
    /\ policy \in [Policies -> PolicyRow]
    /\ assigned \subseteq Agents \X Policies
    /\ runtime \subseteq Keys
    /\ req \in [Workers -> Request]
    /\ handed \subseteq Agents \union Tokens
    /\ enrolledBy \in [Agents -> Tokens \union {None}]
    /\ cut \subseteq Agents
    /\ withdrawn \subseteq Tokens
    /\ kept \subseteq Agents
=============================================================================
