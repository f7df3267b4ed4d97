------------------------------ MODULE AddressPool ------------------------------
(***************************************************************************)
(* IP address management (internal/ipam, ipamrepo, api/ipam.go): pools,    *)
(* and addresses reserved from them, by concurrent requests.               *)
(*                                                                         *)
(* A step is one SQL statement.  An address of a pool is its offset from   *)
(* the network address; the stored text has a prefix length behind it.     *)
(***************************************************************************)
EXTENDS Naturals, FiniteSets

CONSTANTS
    Pools,          \* pool ids that generateID may draw
    ReservationIds, \* reservation ids that generateID may draw
    AddressCount,   \* of every pool: 2^(32 - Bits()) for its IPv4 prefix
    Allocators      \* calls of AllocateAddress at the same time

\* That it is a power of two matters only in that it is not 3.
ASSUME PoolAssumption == AddressCount \in Nat \ {0, 3}

VARIABLES
    pool,           \* ipam_pools
    reservation,    \* ipam_reservations
    allocator       \* calls in progress and the answer to the last one

poolVars == <<pool, reservation, allocator>>

Offsets  == 0..AddressCount - 1
PoolRow  == [status: {"absent", "present", "deleted"}, gateway: SUBSET Offsets]

Answered(a) == [pc |-> "none", id |-> {}, pool |-> {}, used |-> {}, answer |-> a]

PoolInit ==
    /\ pool = [p \in Pools |-> [status |-> "absent", gateway |-> {}]]
    /\ reservation = {}
    /\ allocator = [c \in Allocators |-> Answered("none")]

Existing == {p \in Pools : pool[p].status = "present"}

\* The gateway, if any, must lie in the prefix.
CreatePool ==
    \E p \in Pools, gateway \in {{}} \union {{o} : o \in Offsets} :
        /\ pool[p].status = "absent"
        /\ pool' = [pool EXCEPT ![p] = [status |-> "present", gateway |-> gateway]]
        /\ UNCHANGED <<reservation, allocator>>

\* ON DELETE CASCADE, where the connection enforces foreign keys.
DeletePool ==
    \E p \in Existing :
        /\ pool' = [pool EXCEPT ![p].status = "deleted"]
        /\ reservation' \in {reservation, {r \in reservation : r.pool # p}}
        /\ UNCHANGED allocator

ReleaseReservation ==
    \E r \in reservation :
        /\ reservation' = reservation \ {r}
        /\ UNCHANGED <<pool, allocator>>

-----------------------------------------------------------------------------
(* AllocateAddress.                                                        *)

Allocate_FindPool(c) ==
    \E p \in Existing, id \in ReservationIds :
        /\ allocator[c].pc = "none"
        /\ id \notin {r.id : r \in reservation}
                     \union UNION {allocator[d].id : d \in Allocators}
        /\ allocator' = [allocator EXCEPT ![c] =
               [Answered("none") EXCEPT !.pc = "usage", !.id = {id}, !.pool = {p},
                                        !.used = pool[p].gateway]]
        /\ UNCHANGED <<pool, reservation>>

\* netip.ParseAddr refuses a text with a prefix length, which is skipped.
ParseAddr(text) == IF text.suffix = "" THEN {text.offset} ELSE {}

\* Mutant: what is reserved replaces what is known to be used, the gateway.
PoolUsage_Replaces(c) ==
    /\ allocator[c].pc = "usage"
    /\ allocator' = [allocator EXCEPT
           ![c].pc = "insert",
           ![c].used = UNION {ParseAddr(r.address) :
                                 r \in {s \in reservation : s.pool \in allocator[c].pool}}]
    /\ UNCHANGED <<pool, reservation>>

PoolUsage(c) ==
    /\ allocator[c].pc = "usage"
    /\ allocator' = [allocator EXCEPT
           ![c].pc = "insert",
           ![c].used = @ \union UNION {ParseAddr(r.address) :
                                 r \in {s \in reservation : s.pool \in allocator[c].pool}}]
    /\ UNCHANGED <<pool, reservation>>

\* lastAddr sets bits at the front of the 16-byte form, not in its last four
\* bytes, and so returns the network address instead of the broadcast one.
LastAddr == 0

Candidates(used) ==
    {o \in Offsets \ ({0} \union used) : AddressCount > 2 => o # LastAddr}

\* UNIQUE (pool_id, address).  The pool may be gone: the statement fails
\* where foreign keys are enforced.
InsertReservation(c) ==
    \E p \in allocator[c].pool, id \in allocator[c].id :
        /\ allocator[c].pc = "insert"
        /\ \E o \in Candidates(allocator[c].used) :
            LET address == [offset |-> o, suffix |-> "/32"] IN
            /\ \A q \in Candidates(allocator[c].used) : o <= q
            /\ \A r \in reservation : <<r.pool, r.address>> # <<p, address>>
            /\ reservation' = reservation \union
                   {[id |-> id, pool |-> p, address |-> address]}
        /\ allocator' = [allocator EXCEPT ![c] = Answered("reserved")]
        /\ UNCHANGED pool

\* No candidate, or the statement fails.
AllocateFails(c) ==
    \E p \in allocator[c].pool :
        /\ allocator[c].pc = "insert"
        /\ \/ p \notin Existing
           \/ \A o \in Candidates(allocator[c].used) :
                  \/ \E q \in Candidates(allocator[c].used) : q < o
                  \/ \E r \in reservation : r.pool = p /\ r.address.offset = o
        /\ allocator' = [allocator EXCEPT ![c] = Answered("refused")]
        /\ UNCHANGED <<pool, reservation>>

PoolNext ==
    \/ CreatePool \/ DeletePool \/ ReleaseReservation
    \/ \E c \in Allocators :
        \/ Allocate_FindPool(c) \/ PoolUsage(c)
        \/ InsertReservation(c) \/ AllocateFails(c)

PoolSpec == PoolInit /\ [][PoolNext]_poolVars

-----------------------------------------------------------------------------
Broadcast == AddressCount - 1

\* Whoever races for an address, or deletes the pool meanwhile: no two
\* reservations of a pool have the same one, and none has the network, the
\* broadcast or the gateway address (AllocateAddress, InsertReservation).
\* That the broadcast address is spared rests on PoolFills not holding.
ReservationsAreUsable ==
    \A r, s \in reservation :
        /\ r.pool = s.pool /\ r.address.offset = s.address.offset => r = s
        /\ r.address.offset # 0
        /\ AddressCount > 2 => r.address.offset # Broadcast
        /\ r.address.offset \notin pool[r.pool].gateway

\* The next free address of an existing pool is allocated: a request is only
\* refused when every address that could be reserved is.
Free(p) == {o \in Offsets : /\ AddressCount > 2 => o \notin {0, Broadcast}
                            /\ o \notin pool[p].gateway
                            /\ \A r \in reservation : r.pool = p => r.address.offset # o}
PoolFills ==
    [][\A c \in Allocators :
           allocator[c].pc = "insert" /\ allocator'[c].answer = "refused" =>
               \A p \in allocator[c].pool \intersect Existing : Free(p) = {}]_poolVars
=============================================================================
