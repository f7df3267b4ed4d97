---------------------------- MODULE Services_proofs ----------------------------
(***************************************************************************)
(* What the services of the server that share no state guarantee, each for *)
(* every value of its constants.                                           *)
(***************************************************************************)
EXTENDS ClusterLease, AuditTrail, RateLimiter, AddressPool, Updater,
        FiniteSetTheorems, SequenceTheorems, TLAPS

-----------------------------------------------------------------------------
(* The lease.  At most one node believes in a lease that has not run out,  *)
(* for every set of nodes and every length of the lease.  A node may act   *)
(* on an old answer, so what it believes is tied to the row by Backed: the *)
(* time it knows of is over, or the row is still its own and lasts at      *)
(* least as long.                                                          *)

USE LeaseAssumption

Lease == [leader: Nodes, expires: Nat]

Ticking == [pc: {"none", "acquire", "read", "report", "remember"},
            at: Nat, wrote: BOOLEAN, lease: SUBSET Lease]

LeaseTypeOK ==
    /\ now \in Nat
    /\ lease \subseteq Lease
    /\ nodeRow \in [Nodes -> BOOLEAN]
    /\ tick \in [Nodes -> Ticking]
    /\ believes \in [Nodes -> [leader: BOOLEAN, expires: Nat]]

\* There is one row at most.
OneRow == \A l, m \in lease : l = m

\* A node never writes an older time than the row of its own holds.
Renews ==
    /\ \A l \in lease : l.expires <= Seconds(now) + LeaseTTL
    /\ \A n \in Nodes : tick[n].pc # "none" =>
           /\ tick[n].at <= now
           /\ \A l \in lease : l.leader = n => l.expires <= Seconds(tick[n].at) + LeaseTTL

Backed(n, expires) ==
    \/ expires < Seconds(now)
    \/ \E l \in lease : l.leader = n /\ expires <= l.expires

BeliefsAreBacked ==
    \A n \in Nodes :
        /\ believes[n].leader => Backed(n, believes[n].expires)
        /\ tick[n].pc \in {"report", "remember"} /\ Acquired(n) =>
               \A l \in tick[n].lease : Backed(n, l.expires)

LeaseInv == LeaseTypeOK /\ OneRow /\ Renews /\ BeliefsAreBacked


\* Whole seconds grow with time.
LEMMA SecondsGrow ==
    ASSUME NEW s \in Nat, NEW t \in Nat, s <= t
    PROVE  Seconds(s) \in Nat /\ Seconds(s) <= Seconds(t)
BY DEF Seconds

LEMMA NotTickingIs ==
    /\ NotTicking \in Ticking
    /\ NotTicking.pc = "none"
BY DEF NotTicking, Ticking

\* Two nodes whose unexpired beliefs are backed are backed by the same row.
LEMMA OneBacker == LeaseInv => OneUnexpiredLeader
<1> SUFFICES ASSUME LeaseInv,
                    NEW m \in Nodes, NEW n \in Nodes,
                    believes[m].leader, Seconds(now) <= believes[m].expires,
                    believes[n].leader, Seconds(now) <= believes[n].expires
             PROVE  m = n
    BY DEF OneUnexpiredLeader
<1>1. /\ believes[m].expires \in Nat
      /\ believes[n].expires \in Nat
      /\ Seconds(now) \in Nat
    BY SecondsGrow DEF LeaseInv, LeaseTypeOK
<1>2. Backed(m, believes[m].expires) /\ Backed(n, believes[n].expires)
    BY DEF LeaseInv, BeliefsAreBacked
<1>3. /\ \E l \in lease : l.leader = m
      /\ \E l \in lease : l.leader = n
    BY <1>1, <1>2 DEF Backed
<1> QED
    BY <1>3 DEF LeaseInv, OneRow

LEMMA InitLease == LeaseInit => LeaseInv
BY NotTickingIs DEF LeaseInit, LeaseInv, LeaseTypeOK, OneRow, Renews,
                    BeliefsAreBacked, Acquired

\* What is backed stays backed while the row does not change.
LEMMA BackedWhileRowStays ==
    ASSUME now \in Nat, now' \in Nat, now <= now', lease' = lease,
           NEW n, NEW e \in Nat, Backed(n, e)
    PROVE  Backed(n, e)'
BY SecondsGrow DEF Backed

\* The row is written by its holder, who makes it last longer, or when its
\* time is over.
LEMMA BackedWhenTaken ==
    ASSUME LeaseInv, NEW m \in Nodes, TryAcquireLease(m),
           NEW n \in Nodes, NEW e \in Nat, Backed(n, e)
    PROVE  Backed(n, e)'
<1>1. /\ now' = now /\ now \in Nat /\ Seconds(now) \in Nat
      /\ tick[m].at \in Nat /\ tick[m].at <= now
      /\ Seconds(tick[m].at) \in Nat /\ Seconds(tick[m].at) <= Seconds(now)
    BY SecondsGrow DEF LeaseInv, LeaseTypeOK, Ticking, Renews, TryAcquireLease
<1>2. CASE e < Seconds(now)
    BY <1>1, <1>2 DEF Backed
<1>3. CASE ~(e < Seconds(now))
    <2>1. PICK l \in lease : l.leader = n /\ e <= l.expires
        BY <1>3 DEF Backed
    <2>2. l.expires \in Nat
        BY DEF LeaseInv, LeaseTypeOK, Lease
    <2>3. CASE ~MayTake(m, tick[m].at)
        BY <2>1, <2>3 DEF TryAcquireLease, Backed
    <2>4. CASE MayTake(m, tick[m].at)
        <3>1. l.leader = m
            BY <1>1, <1>3, <2>1, <2>2, <2>4 DEF MayTake
        <3>2. l.expires <= Seconds(tick[m].at) + LeaseTTL
            BY <3>1 DEF LeaseInv, Renews, TryAcquireLease
        <3>3. lease' = {[leader |-> m, expires |-> Seconds(tick[m].at) + LeaseTTL]}
            BY <2>4 DEF TryAcquireLease
        <3>4. e <= Seconds(tick[m].at) + LeaseTTL
            BY <1>1, <2>1, <2>2, <3>2
        <3> QED
            BY <2>1, <3>1, <3>3, <3>4 DEF Backed
    <2> QED
        BY <2>3, <2>4
<1> QED
    BY <1>2, <1>3

LEMMA TimeLease == LeaseInv /\ TimePasses => LeaseInv'
<1> SUFFICES ASSUME LeaseInv, TimePasses PROVE LeaseInv'
    OBVIOUS
<1>1. now \in Nat /\ now' = now + 1 /\ Seconds(now) \in Nat /\ Seconds(now) <= Seconds(now)'
    BY SecondsGrow DEF LeaseInv, LeaseTypeOK, TimePasses, Seconds
<1>2. LeaseTypeOK' /\ OneRow'
    BY <1>1 DEF LeaseInv, LeaseTypeOK, OneRow, TimePasses
<1>3. Renews'
    <2>1. \A l \in lease : l.expires \in Nat
        BY DEF LeaseInv, LeaseTypeOK, Lease
    <2>2. Seconds(now)' \in Nat
        BY <1>1, SecondsGrow DEF Seconds
    <2>3. now <= now' /\ lease' = lease /\ tick' = tick
        BY <1>1 DEF TimePasses
    <2>4. \A n \in Nodes : tick[n].at \in Nat
        BY DEF LeaseInv, LeaseTypeOK, Ticking
    <2>5. \A l \in lease : l.expires <= Seconds(now)' + LeaseTTL
        BY <1>1, <2>1, <2>2 DEF LeaseInv, Renews
    <2>6. \A n \in Nodes : tick[n].pc # "none" => tick[n].at <= now'
        BY <1>1, <2>4 DEF LeaseInv, Renews
    <2> QED
        BY <2>3, <2>5, <2>6 DEF LeaseInv, Renews, Seconds
<1>4. BeliefsAreBacked'
    <2>1. /\ \A n \in Nodes : believes[n].expires \in Nat
          /\ \A n \in Nodes : \A l \in tick[n].lease : l.expires \in Nat
        BY DEF LeaseInv, LeaseTypeOK, Ticking, Lease
    <2>2. now' \in Nat /\ now <= now'
        BY <1>1
    <2> QED
        BY <1>1, <2>1, <2>2, BackedWhileRowStays DEF LeaseInv, BeliefsAreBacked, Acquired, TimePasses
<1> QED
    BY <1>2, <1>3, <1>4 DEF LeaseInv

LEMMA TakeLease == ASSUME NEW m \in Nodes, LeaseInv, TryAcquireLease(m) PROVE LeaseInv'
<1> DEFINE row == [leader |-> m, expires |-> Seconds(tick[m].at) + LeaseTTL]
<1>1. /\ now' = now /\ now \in Nat /\ believes' = believes /\ nodeRow' = nodeRow
      /\ tick[m].pc = "acquire" /\ tick[m].at \in Nat
      /\ tick[m].at <= now
      /\ Seconds(tick[m].at) \in Nat /\ Seconds(tick[m].at) <= Seconds(now)
      /\ Seconds(now) \in Nat
    BY SecondsGrow DEF LeaseInv, LeaseTypeOK, Ticking, Renews, TryAcquireLease
<1>2. lease' = lease \/ lease' = {row}
    BY DEF TryAcquireLease
<1>3. row \in Lease
    BY <1>1 DEF Lease
<1>4. \A n \in Nodes \ {m} : tick'[n] = tick[n]
    BY DEF LeaseInv, LeaseTypeOK, TryAcquireLease
<1>5. /\ tick'[m].pc = "read" /\ tick'[m].at = tick[m].at
      /\ tick'[m].lease = tick[m].lease /\ tick'[m].wrote \in BOOLEAN
    BY DEF LeaseInv, LeaseTypeOK, TryAcquireLease, MayTake
<1>6. LeaseTypeOK'
    <2>1. lease' \subseteq Lease
        BY <1>2, <1>3 DEF LeaseInv, LeaseTypeOK
    <2>2. tick' \in [Nodes -> Ticking]
        BY <1>5 DEF LeaseInv, LeaseTypeOK, TryAcquireLease, Ticking
    <2> QED
        BY <1>1, <2>1, <2>2 DEF LeaseInv, LeaseTypeOK
<1>7. OneRow'
    BY <1>2 DEF LeaseInv, OneRow
<1>8. Renews'
    <2>1. ASSUME NEW l \in lease' PROVE l.expires <= Seconds(now) + LeaseTTL
        BY <1>1, <1>2 DEF LeaseInv, Renews
    <2>2. ASSUME NEW n \in Nodes, tick'[n].pc # "none", NEW l \in lease', l.leader = n
          PROVE  l.expires <= Seconds(tick'[n].at) + LeaseTTL
        BY <1>1, <1>2, <1>4, <1>5, <2>2 DEF LeaseInv, Renews
    <2>3. ASSUME NEW n \in Nodes, tick'[n].pc # "none" PROVE tick'[n].at <= now
        BY <1>1, <1>4, <1>5, <2>3 DEF LeaseInv, Renews
    <2> QED
        BY <1>1, <2>1, <2>2, <2>3 DEF Renews, Seconds
<1>9. BeliefsAreBacked'
    <2>1. ASSUME NEW n \in Nodes, believes[n].leader
          PROVE  Backed(n, believes[n].expires)'
        BY <1>1, <2>1, BackedWhenTaken DEF LeaseInv, LeaseTypeOK, BeliefsAreBacked
    <2>2. ASSUME NEW n \in Nodes, tick'[n].pc \in {"report", "remember"}, Acquired(n)',
                 NEW l \in tick'[n].lease
          PROVE  Backed(n, l.expires)'
        <3>1. n # m /\ tick'[n] = tick[n]
            BY <1>4, <1>5, <2>2
        <3>2. l.expires \in Nat
            BY <2>2, <3>1 DEF LeaseInv, LeaseTypeOK, Ticking, Lease
        <3>3. Backed(n, l.expires)
            BY <2>2, <3>1 DEF LeaseInv, BeliefsAreBacked, Acquired
        <3> QED
            BY <3>2, <3>3, BackedWhenTaken
    <2> QED
        BY <1>1, <2>1, <2>2 DEF BeliefsAreBacked, Acquired
<1> QED
    BY <1>6, <1>7, <1>8, <1>9 DEF LeaseInv

\* The other steps of a node leave the row and the time alone, and a node
\* comes to believe only what it has read.
LEMMA NodeLease ==
    ASSUME NEW m \in Nodes, LeaseInv,
           \/ Tick_Start(m) \/ GetLease(m) \/ UpsertNode(m) \/ Remember(m)
           \/ Tick_Fails(m) \/ Restart_Node(m)
    PROVE  LeaseInv'
<1> USE DEF Tick_Start, GetLease, UpsertNode, Remember, Tick_Fails, Restart_Node
<1>1. now' = now /\ now \in Nat /\ Seconds(now) \in Nat /\ lease' = lease
    BY SecondsGrow DEF LeaseInv, LeaseTypeOK
<1>2. tick[m] \in Ticking /\ tick \in [Nodes -> Ticking]
    BY DEF LeaseInv, LeaseTypeOK
<1>3. PICK t \in Ticking :
          /\ tick' = [tick EXCEPT ![m] = t]
          /\ \/ t.pc = "none"
             \/ t.pc = "acquire" /\ t.at = now
             \/ /\ GetLease(m) /\ tick[m].pc = "read" /\ t.at = tick[m].at
                /\ t.lease = lease
             \/ /\ tick[m].pc = "report" /\ t.at = tick[m].at
                /\ t.lease = tick[m].lease /\ t.wrote = tick[m].wrote
    <2>1. CASE Remember(m) \/ Tick_Fails(m) \/ Restart_Node(m)
        BY <2>1, NotTickingIs
    <2>2. CASE Tick_Start(m)
        <3>1. PICK t : t = [NotTicking EXCEPT !.pc = "acquire", !.at = now]
            OBVIOUS
        <3>2. t \in Ticking /\ t.pc = "acquire" /\ t.at = now
            BY <1>1, <3>1, NotTickingIs DEF Ticking
        <3> QED
            BY <2>2, <3>1, <3>2
    <2>3. CASE GetLease(m)
        <3>1. PICK t : t = [tick[m] EXCEPT !.pc = "report", !.lease = lease]
            OBVIOUS
        <3>2. /\ t \in Ticking /\ t.pc = "report"
              /\ t.at = tick[m].at /\ t.lease = lease
            BY <1>2, <3>1 DEF Ticking, LeaseInv, LeaseTypeOK
        <3>3. tick' = [tick EXCEPT ![m] = t]
            BY <1>2, <2>3, <3>1 DEF Ticking
        <3> QED
            BY <2>3, <3>2, <3>3
    <2>4. CASE UpsertNode(m)
        <3>1. PICK t : t = [tick[m] EXCEPT !.pc = "remember"]
            OBVIOUS
        <3>2. /\ t \in Ticking /\ t.at = tick[m].at
              /\ t.lease = tick[m].lease /\ t.wrote = tick[m].wrote
            BY <1>2, <3>1 DEF Ticking
        <3>3. tick' = [tick EXCEPT ![m] = t]
            BY <1>2, <2>4, <3>1 DEF Ticking
        <3> QED
            BY <2>4, <3>2, <3>3
    <2> QED
        BY <2>1, <2>2, <2>3, <2>4
<1>4. tick'[m] = t
    BY <1>2, <1>3
<1>5. \A n \in Nodes \ {m} : tick'[n] = tick[n] /\ believes'[n] = believes[n]
    BY <1>2, <1>3 DEF LeaseInv, LeaseTypeOK
<1> HIDE DEF Tick_Start, GetLease, UpsertNode, Remember, Tick_Fails, Restart_Node
<1>6. nodeRow' \in [Nodes -> BOOLEAN] /\ believes' \in [Nodes -> [leader: BOOLEAN, expires: Nat]]
    <2>1. Acquired(m) \in BOOLEAN
        BY DEF Acquired, LeaseInv, LeaseTypeOK, Ticking
    <2>2. \A l \in tick[m].lease : l.expires \in Nat
        BY <1>2 DEF Ticking, Lease
    <2>3. CASE Remember(m)
        <3>1. PICK l \in tick[m].lease :
                  believes' = [believes EXCEPT ![m] = [leader |-> Acquired(m),
                                                       expires |-> l.expires]]
            BY <2>3 DEF Remember
        <3>2. [leader |-> Acquired(m), expires |-> l.expires] \in [leader: BOOLEAN, expires: Nat]
            BY <2>1, <2>2
        <3>3. believes' \in [Nodes -> [leader: BOOLEAN, expires: Nat]]
            BY <3>1, <3>2 DEF LeaseInv, LeaseTypeOK
        <3>4. nodeRow' = nodeRow
            BY <2>3 DEF Remember
        <3> QED
            BY <3>3, <3>4 DEF LeaseInv, LeaseTypeOK
    <2>4. CASE UpsertNode(m)
        BY <2>1, <2>4 DEF LeaseInv, LeaseTypeOK, UpsertNode
    <2>5. CASE Restart_Node(m)
        BY <2>5 DEF LeaseInv, LeaseTypeOK, Restart_Node
    <2>6. CASE Tick_Start(m) \/ GetLease(m) \/ Tick_Fails(m)
        BY <2>6 DEF LeaseInv, LeaseTypeOK, Tick_Start, GetLease, Tick_Fails
    <2> QED
        BY <2>3, <2>4, <2>5, <2>6
<1>7. LeaseTypeOK'
    BY <1>1, <1>2, <1>3, <1>6 DEF LeaseInv, LeaseTypeOK
<1>8. Renews'
    <2> SUFFICES ASSUME NEW n \in Nodes, tick'[n].pc # "none"
                 PROVE  /\ tick'[n].at <= now
                        /\ \A l \in lease : l.leader = n =>
                               l.expires <= Seconds(tick'[n].at) + LeaseTTL
        BY <1>1 DEF LeaseInv, Renews, Seconds
    <2>1. CASE n = m
        BY <1>1, <1>3, <1>4, <2>1 DEF LeaseInv, Renews
    <2>2. CASE n # m
        BY <1>5, <2>2 DEF LeaseInv, Renews
    <2> QED
        BY <2>1, <2>2
<1>9. BeliefsAreBacked'
    <2>1. \A n, e : Backed(n, e)' <=> Backed(n, e)
        BY <1>1 DEF Backed
    <2>2. ASSUME NEW l \in lease PROVE Backed(l.leader, l.expires)
        <3>1. l.expires \in Nat
            BY DEF LeaseInv, LeaseTypeOK, Lease
        <3> QED
            BY <3>1 DEF Backed
    <2>3. ASSUME NEW n \in Nodes, believes'[n].leader
          PROVE  Backed(n, believes'[n].expires)
        <3>1. CASE believes'[n] = believes[n]
            BY <2>3, <3>1 DEF LeaseInv, BeliefsAreBacked
        <3>2. CASE believes'[n] # believes[n]
            <4>1. n = m /\ Remember(m)
                BY <1>5, <2>3, <3>2 DEF LeaseInv, LeaseTypeOK, Tick_Start, GetLease,
                                        UpsertNode, Tick_Fails, Restart_Node
            <4>2. PICK l \in tick[m].lease :
                      believes' = [believes EXCEPT ![m] = [leader |-> Acquired(m),
                                                           expires |-> l.expires]]
                BY <4>1 DEF Remember
            <4>3. believes'[m].leader = Acquired(m) /\ believes'[m].expires = l.expires
                BY <4>2 DEF LeaseInv, LeaseTypeOK
            <4> QED
                BY <2>3, <4>1, <4>3 DEF LeaseInv, BeliefsAreBacked, Remember
        <3> QED
            BY <3>1, <3>2
    <2>4. ASSUME NEW n \in Nodes, tick'[n].pc \in {"report", "remember"}, Acquired(n)',
                 NEW l \in tick'[n].lease
          PROVE  Backed(n, l.expires)
        <3>1. CASE n # m
            BY <1>5, <2>4, <3>1 DEF LeaseInv, BeliefsAreBacked, Acquired
        <3>2. CASE n = m /\ t.lease = lease
            BY <1>4, <2>2, <2>4, <3>2 DEF Acquired
        <3>3. CASE n = m /\ t.lease # lease
            BY <1>3, <1>4, <2>4, <3>3 DEF LeaseInv, BeliefsAreBacked, Acquired
        <3> QED
            BY <3>1, <3>2, <3>3
    <2> QED
        BY <2>1, <2>3, <2>4 DEF BeliefsAreBacked, Acquired
<1> QED
    BY <1>1, <1>7, <1>8, <1>9 DEF LeaseInv, OneRow

\* Two nodes may both think they lead, but only one of them by a lease that
\* has not run out (tick, Status).
THEOREM LeaseIsExclusive == LeaseSpec => []OneUnexpiredLeader
<1>1. LeaseInv /\ [LeaseNext]_leaseVars => LeaseInv'
    <2> SUFFICES ASSUME LeaseInv, [LeaseNext]_leaseVars PROVE LeaseInv'
        OBVIOUS
    <2>1. CASE TimePasses
        BY <2>1, TimeLease
    <2>2. ASSUME NEW n \in Nodes, TryAcquireLease(n) PROVE LeaseInv'
        BY <2>2, TakeLease
    <2>3. ASSUME NEW n \in Nodes,
                 \/ Tick_Start(n) \/ GetLease(n) \/ UpsertNode(n) \/ Remember(n)
                 \/ Tick_Fails(n) \/ Restart_Node(n)
          PROVE  LeaseInv'
        BY <2>3, NodeLease
    <2>4. CASE UNCHANGED leaseVars
        BY <2>4 DEF leaseVars, LeaseInv, LeaseTypeOK, OneRow, Renews,
                    BeliefsAreBacked, Backed, Acquired, Seconds
    <2> QED
        BY <2>1, <2>2, <2>3, <2>4 DEF LeaseNext
<1> QED
    BY <1>1, InitLease, OneBacker, PTL DEF LeaseSpec

-----------------------------------------------------------------------------
(* The audit trail.  What the mutex of Record gives the chain of events,   *)
(* for every set of servers and calls and every order of the texts of      *)
(* created_at.  Between reading the latest hash and inserting, a call      *)
(* holds the mutex of its server.  ReadIsLast says what that is worth:     *)
(* whatever its server has already chained to the row it read is no longer *)
(* the latest.                                                             *)

USE AuditAssumption

AuditInstants  == 1..LastInstant
Event     == [id: EventIds, at: AuditInstants, prev: EventIds \union {Root}, server: Servers]
Recording == [pc: {"none", "stamped", "read"}, id: EventIds \union {Root},
              at: AuditInstants, prev: EventIds \union {Root}]

AudTypeOK ==
    /\ clock \in AuditInstants
    /\ event \in Seq(Event)
    /\ server \in [Recorders -> Servers]
    /\ recorder \in [Recorders -> Recording]
    /\ holder \in [Servers -> SUBSET Recorders]

\* No id is used twice, by rows or by calls.
IdsAreFresh ==
    /\ \A i, j \in DOMAIN event : event[i].id = event[j].id => i = j
    /\ \A c \in Recorders : recorder[c].pc # "none" =>
           /\ recorder[c].id \in EventIds
           /\ \A i \in DOMAIN event : event[i].id # recorder[c].id
           /\ \A d \in Recorders : recorder[d].id = recorder[c].id => d = c

\* No event follows itself.
NoneFollowsItself ==
    /\ \A i \in DOMAIN event : event[i].prev # event[i].id
    /\ \A c \in Recorders : recorder[c].pc = "read" => recorder[c].prev # recorder[c].id

OneIsLatest == event = <<>> \/ Latest # {}

Exclusive ==
    \A c \in Recorders : recorder[c].pc = "read" => holder[server[c]] = {c}

ReadIsLast ==
    \A c \in Recorders : recorder[c].pc = "read" =>
        \A i \in DOMAIN event :
            /\ event[i].server = server[c]
            /\ event[i].prev = recorder[c].prev
            => \E k \in DOMAIN event : Older(event[i], event[k])

AudInv ==
    /\ AudTypeOK
    /\ IdsAreFresh
    /\ NoneFollowsItself
    /\ OneIsLatest
    /\ Exclusive
    /\ ReadIsLast
    /\ ForksAreExplained


LEMMA NotRecordingIs ==
    /\ NotRecording \in Recording
    /\ NotRecording.pc = "none"
    /\ NotRecording.id = Root
BY DEF NotRecording, Recording, AuditInstants

LEMMA RootIsNoId == Root \notin EventIds
BY DEF Root

\* Events with different ids are in one order or the other, and the order is
\* transitive.
LEMMA OlderIsTotal ==
    ASSUME NEW r \in Event, NEW s \in Event, r.id # s.id
    PROVE  Older(r, s) \/ Older(s, r)
<1>1. TextRank[r.at] \in Nat /\ TextRank[s.at] \in Nat
    BY DEF Event, AuditInstants
<1>2. r.id \in Nat /\ s.id \in Nat
    BY DEF Event
<1> QED
    BY <1>1, <1>2 DEF Older

LEMMA OlderIsTransitive ==
    ASSUME NEW r \in Event, NEW s \in Event, NEW t \in Event, Older(r, s), Older(s, t)
    PROVE  Older(r, t)
<1>1. TextRank[r.at] \in Nat /\ TextRank[s.at] \in Nat /\ TextRank[t.at] \in Nat
    BY DEF Event, AuditInstants
<1>2. r.id \in Nat /\ s.id \in Nat /\ t.id \in Nat
    BY DEF Event
<1> QED
    BY <1>1, <1>2 DEF Older

LEMMA InitAudit == AudInit => AudInv
<1> SUFFICES ASSUME AudInit PROVE AudInv
    OBVIOUS
<1>1. AudTypeOK
    BY NotRecordingIs DEF AudInit, AudTypeOK, AuditInstants
<1>2. event = <<>> /\ \A c \in Recorders : recorder[c].pc = "none"
    BY NotRecordingIs DEF AudInit
<1> QED
    BY <1>1, <1>2 DEF AudInv, IdsAreFresh, NoneFollowsItself, OneIsLatest, Exclusive,
                      ReadIsLast, ForksAreExplained

LEMMA StampKeeps == ASSUME NEW c \in Recorders, AudInv, Record_Stamp(c) PROVE AudInv'
<1>1. PICK id \in EventIds :
          /\ recorder[c].pc = "none"
          /\ id \notin {r.id : r \in Rows} \union {recorder[d].id : d \in Recorders}
          /\ recorder' = [recorder EXCEPT ![c] =
                 [NotRecording EXCEPT !.pc = "stamped", !.id = id, !.at = clock]]
    BY DEF Record_Stamp
<1>2. PICK v : v = [NotRecording EXCEPT !.pc = "stamped", !.id = id, !.at = clock]
    OBVIOUS
<1>3. v \in Recording /\ v.pc = "stamped" /\ v.id = id
    BY <1>2, NotRecordingIs DEF Recording, AudInv, AudTypeOK
<1>4. UNCHANGED <<clock, event, server, holder>>
    BY DEF Record_Stamp
<1>5. /\ recorder' \in [Recorders -> Recording] /\ recorder'[c] = v
      /\ \A d \in Recorders \ {c} : recorder'[d] = recorder[d]
    BY <1>1, <1>2, <1>3 DEF AudInv, AudTypeOK
<1>6. /\ \A i \in DOMAIN event : event[i].id # id
      /\ \A d \in Recorders : recorder[d].id # id
    BY <1>1 DEF Rows
<1>7. AudTypeOK'
    BY <1>4, <1>5 DEF AudInv, AudTypeOK
<1>8. IdsAreFresh'
    BY <1>3, <1>4, <1>5, <1>6 DEF AudInv, IdsAreFresh
<1>9. \A d \in Recorders : recorder'[d].pc = "read" => recorder'[d] = recorder[d]
    BY <1>3, <1>5
<1>10. NoneFollowsItself' /\ Exclusive' /\ ReadIsLast'
    BY <1>4, <1>9 DEF AudInv, NoneFollowsItself, Exclusive, ReadIsLast, Older
<1>11. OneIsLatest' /\ ForksAreExplained'
    BY <1>4 DEF AudInv, OneIsLatest, Latest, Rows, Older, ForksAreExplained
<1> QED
    BY <1>7, <1>8, <1>10, <1>11 DEF AudInv

LEMMA ReadKeepsChain == ASSUME NEW c \in Recorders, AudInv, Record_LatestHash(c) PROVE AudInv'
<1> DEFINE latest == CHOOSE r \in Latest : TRUE
           prev == IF Latest = {} THEN Root ELSE latest.id
<1>1. UNCHANGED <<clock, event, server>>
    BY DEF Record_LatestHash
<1>2. recorder[c].pc = "stamped" /\ recorder[c] \in Recording /\ recorder[c].id \in EventIds
    BY DEF Record_LatestHash, AudInv, AudTypeOK, IdsAreFresh
<1>3. /\ Latest = {} => event = <<>>
      /\ Latest # {} => /\ latest \in Rows
                        /\ \A s \in Rows : s = latest \/ Older(s, latest)
    BY DEF AudInv, OneIsLatest, Latest
<1>4. prev \in EventIds \union {Root} /\ prev # recorder[c].id
    <2>1. CASE Latest = {}
        BY <1>2, <2>1, RootIsNoId
    <2>2. CASE Latest # {}
        <3>1. PICK i \in DOMAIN event : latest = event[i]
            BY <1>3, <2>2 DEF Rows
        <3>2. event[i] \in Event
            BY DEF AudInv, AudTypeOK
        <3>3. event[i].id # recorder[c].id
            BY <1>2 DEF AudInv, IdsAreFresh
        <3> QED
            BY <2>2, <3>1, <3>2, <3>3 DEF Event
    <2> QED
        BY <2>1, <2>2
<1>5. \A i \in DOMAIN event : event[i].prev = prev =>
          \E k \in DOMAIN event : Older(event[i], event[k])
    <2> SUFFICES ASSUME NEW i \in DOMAIN event, event[i].prev = prev
                 PROVE  \E k \in DOMAIN event : Older(event[i], event[k])
        OBVIOUS
    <2>1. Latest # {} /\ prev = latest.id
        BY <1>3 DEF AudInv, AudTypeOK
    <2>2. event[i] # latest
        BY <2>1 DEF AudInv, NoneFollowsItself
    <2> QED
        BY <1>3, <2>1, <2>2 DEF Rows
<1> HIDE DEF latest, prev
<1>6. PICK v : v = [recorder[c] EXCEPT !.pc = "read", !.prev = prev]
    OBVIOUS
<1>7. v \in Recording /\ v.pc = "read" /\ v.prev = prev /\ v.id = recorder[c].id
    BY <1>2, <1>4, <1>6 DEF Recording
<1>8. recorder' = [recorder EXCEPT ![c] = v]
    BY <1>2, <1>6 DEF Record_LatestHash, AudInv, AudTypeOK, Recording, prev, latest
<1>9. /\ recorder' \in [Recorders -> Recording] /\ recorder'[c] = v
      /\ \A d \in Recorders \ {c} : recorder'[d] = recorder[d]
    BY <1>7, <1>8 DEF AudInv, AudTypeOK
<1>10. /\ server[c] \in Servers /\ holder[server[c]] = {}
       /\ holder' = [holder EXCEPT ![server[c]] = {c}]
    BY DEF Record_LatestHash, AudInv, AudTypeOK
<1>11. AudTypeOK'
    BY <1>1, <1>9, <1>10 DEF AudInv, AudTypeOK
<1>12. IdsAreFresh'
    BY <1>1, <1>2, <1>7, <1>9 DEF AudInv, IdsAreFresh
<1>13. NoneFollowsItself'
    BY <1>1, <1>4, <1>7, <1>9 DEF AudInv, NoneFollowsItself
<1>14. Exclusive'
    <2> SUFFICES ASSUME NEW d \in Recorders, recorder'[d].pc = "read"
                 PROVE  holder'[server[d]] = {d}
        BY <1>1 DEF Exclusive
    <2>1. CASE d = c
        BY <1>10, <2>1 DEF AudInv, AudTypeOK
    <2>2. CASE d # c
        <3>1. holder[server[d]] = {d} /\ server[d] \in Servers
            BY <1>9, <2>2 DEF AudInv, AudTypeOK, Exclusive
        <3> QED
            BY <1>10, <3>1 DEF AudInv, AudTypeOK
    <2> QED
        BY <2>1, <2>2
<1>15. ReadIsLast'
    <2> SUFFICES ASSUME NEW d \in Recorders, recorder'[d].pc = "read",
                        NEW i \in DOMAIN event, event[i].server = server[d],
                        event[i].prev = recorder'[d].prev
                 PROVE  \E k \in DOMAIN event : Older(event[i], event[k])
        BY <1>1 DEF ReadIsLast, Older
    <2>1. CASE d = c
        BY <1>5, <1>7, <1>9, <2>1
    <2>2. CASE d # c
        BY <1>9, <2>2 DEF AudInv, ReadIsLast
    <2> QED
        BY <2>1, <2>2
<1>16. OneIsLatest' /\ ForksAreExplained'
    BY <1>1 DEF AudInv, OneIsLatest, Latest, Rows, Older, ForksAreExplained
<1> QED
    BY <1>11, <1>12, <1>13, <1>14, <1>15, <1>16 DEF AudInv

\* The call ends, and the mutex of its server is free unless another call
\* holds it.
LEMMA ReturnKeeps ==
    ASSUME NEW c \in Recorders, AudInv, Record_Returns(c)
    PROVE  /\ recorder' \in [Recorders -> Recording]
           /\ recorder'[c].pc = "none" /\ recorder'[c].id = Root
           /\ \A d \in Recorders \ {c} : recorder'[d] = recorder[d]
           /\ holder' \in [Servers -> SUBSET Recorders]
           /\ Exclusive'
<1>1. recorder' = [recorder EXCEPT ![c] = NotRecording]
    BY DEF Record_Returns
<1>2. /\ recorder' \in [Recorders -> Recording]
      /\ recorder'[c].pc = "none" /\ recorder'[c].id = Root
      /\ \A d \in Recorders \ {c} : recorder'[d] = recorder[d]
    BY <1>1, NotRecordingIs DEF AudInv, AudTypeOK
<1>3. server' = server /\ server[c] \in Servers /\ holder' = [holder EXCEPT ![server[c]] = @ \ {c}]
    BY DEF Record_Returns, AudInv, AudTypeOK
<1>4. holder' \in [Servers -> SUBSET Recorders]
    BY <1>3 DEF AudInv, AudTypeOK
<1>5. Exclusive'
    <2> SUFFICES ASSUME NEW d \in Recorders, recorder'[d].pc = "read"
                 PROVE  holder'[server[d]] = {d}
        BY <1>3 DEF Exclusive
    <2>1. d # c /\ holder[server[d]] = {d} /\ server[d] \in Servers
        BY <1>2 DEF AudInv, AudTypeOK, Exclusive
    <2> QED
        BY <1>3, <2>1 DEF AudInv, AudTypeOK
<1> QED
    BY <1>2, <1>4, <1>5

LEMMA FailKeeps == ASSUME NEW c \in Recorders, AudInv, Record_Fails(c) PROVE AudInv'
<1>1. Record_Returns(c) /\ UNCHANGED <<clock, event, server>>
    BY DEF Record_Fails, Record_Returns
<1>2. /\ recorder' \in [Recorders -> Recording]
      /\ recorder'[c].pc = "none" /\ recorder'[c].id = Root
      /\ \A d \in Recorders \ {c} : recorder'[d] = recorder[d]
      /\ holder' \in [Servers -> SUBSET Recorders]
      /\ Exclusive'
    BY <1>1, ReturnKeeps
<1>3. AudTypeOK'
    BY <1>1, <1>2 DEF AudInv, AudTypeOK
<1>4. IdsAreFresh'
    BY <1>1, <1>2, RootIsNoId DEF AudInv, IdsAreFresh
<1>5. NoneFollowsItself' /\ ReadIsLast'
    BY <1>1, <1>2 DEF AudInv, NoneFollowsItself, ReadIsLast, Older
<1>6. OneIsLatest' /\ ForksAreExplained'
    BY <1>1 DEF AudInv, OneIsLatest, Latest, Rows, Older, ForksAreExplained
<1> QED
    BY <1>2, <1>3, <1>4, <1>5, <1>6 DEF AudInv

LEMMA InsertKeepsChain == ASSUME NEW c \in Recorders, AudInv, Record_Insert(c) PROVE AudInv'
<1> DEFINE e == [id |-> recorder[c].id, at |-> recorder[c].at,
                 prev |-> recorder[c].prev, server |-> server[c]]
           n == Len(event)
<1>1. /\ recorder[c].pc = "read" /\ event' = Append(event, e)
      /\ Record_Returns(c) /\ UNCHANGED <<clock, server>>
    BY DEF Record_Insert, Record_Returns
<1>2. /\ recorder' \in [Recorders -> Recording]
      /\ recorder'[c].pc = "none" /\ recorder'[c].id = Root
      /\ \A d \in Recorders \ {c} : recorder'[d] = recorder[d]
      /\ holder' \in [Servers -> SUBSET Recorders]
      /\ Exclusive'
    BY <1>1, ReturnKeeps
<1>3. e \in Event /\ e.id = recorder[c].id /\ e.prev = recorder[c].prev /\ e.server = server[c]
    BY <1>1 DEF AudInv, AudTypeOK, IdsAreFresh, Recording, Event
<1> HIDE DEF e
<1>4. /\ n \in Nat /\ DOMAIN event = 1..n /\ DOMAIN event' = 1..(n + 1)
      /\ event' \in Seq(Event)
      /\ event'[n + 1] = e /\ \A i \in 1..n : event'[i] = event[i]
      /\ \A i \in 1..n : event[i] \in Event
    BY <1>1, <1>3 DEF AudInv, AudTypeOK
<1>5. AudTypeOK'
    BY <1>1, <1>2, <1>4 DEF AudInv, AudTypeOK
<1>6. \A i \in 1..n : event[i].id # e.id
    BY <1>1, <1>3, <1>4 DEF AudInv, IdsAreFresh
<1>7. IdsAreFresh'
    <2>1. \A i, j \in DOMAIN event' : event'[i].id = event'[j].id => i = j
        BY <1>4, <1>6 DEF AudInv, IdsAreFresh
    <2>2. ASSUME NEW d \in Recorders, recorder'[d].pc # "none"
          PROVE  /\ recorder'[d].id \in EventIds
                 /\ \A i \in DOMAIN event' : event'[i].id # recorder'[d].id
                 /\ \A f \in Recorders : recorder'[f].id = recorder'[d].id => f = d
        <3>1. /\ d # c /\ recorder'[d] = recorder[d] /\ recorder[d].id \in EventIds
              /\ recorder[c].id # recorder[d].id
              /\ \A i \in DOMAIN event : event[i].id # recorder[d].id
              /\ \A f \in Recorders : recorder[f].id = recorder[d].id => f = d
            BY <1>2, <2>2 DEF AudInv, IdsAreFresh
        <3>2. \A i \in DOMAIN event' : event'[i].id # recorder[d].id
            BY <1>3, <1>4, <3>1
        <3> QED
            BY <1>2, <3>1, <3>2, RootIsNoId
    <2> QED
        BY <2>1, <2>2 DEF IdsAreFresh
<1>8. NoneFollowsItself'
    <2>1. e.prev # e.id
        BY <1>1, <1>3 DEF AudInv, NoneFollowsItself
    <2>2. \A i \in DOMAIN event' : event'[i].prev # event'[i].id
        BY <1>4, <2>1 DEF AudInv, NoneFollowsItself
    <2> QED
        BY <1>2, <2>2 DEF AudInv, NoneFollowsItself
<1>9. Rows' = Rows \union {e}
    <2>1. Rows = {event[i] : i \in 1..n}
        BY <1>4 DEF Rows
    <2>2. Rows' = {event'[i] : i \in 1..(n + 1)}
        BY <1>4 DEF Rows
    <2>3. \A i \in 1..(n + 1) : i = n + 1 \/ i \in 1..n
        BY <1>4
    <2>4. 1..n \subseteq 1..(n + 1) /\ n + 1 \in 1..(n + 1)
        BY <1>4
    <2> HIDE DEF n
    <2> QED
        BY <1>4, <2>1, <2>2, <2>3, <2>4
<1>10. OneIsLatest'
    <2>1. CASE event = <<>>
        <3>1. Rows = {}
            BY <2>1 DEF Rows
        <3>2. e \in Latest'
            BY <1>9, <3>1 DEF Latest
        <3> QED
            BY <3>2 DEF OneIsLatest
    <2>2. CASE event # <<>>
        <3>1. PICK m \in Rows : \A s \in Rows : s = m \/ Older(s, m)
            BY <2>2 DEF AudInv, OneIsLatest, Latest
        <3>2. m \in Event /\ m.id # e.id /\ \A s \in Rows : s \in Event
            BY <1>4, <1>6 DEF Rows
        <3>3. CASE Older(e, m)
            <4>1. m \in Latest'
                BY <1>9, <3>1, <3>3 DEF Latest, Older
            <4> QED
                BY <4>1 DEF OneIsLatest
        <3>4. CASE Older(m, e)
            <4>1. \A s \in Rows : Older(s, e)
                BY <1>3, <3>1, <3>2, <3>4, OlderIsTransitive
            <4>2. e \in Latest'
                BY <1>9, <4>1 DEF Latest, Older
            <4> QED
                BY <4>2 DEF OneIsLatest
        <3> QED
            BY <1>3, <3>2, <3>3, <3>4, OlderIsTotal
    <2> QED
        BY <2>1, <2>2
<1>11. ReadIsLast'
    <2> SUFFICES ASSUME NEW d \in Recorders, recorder'[d].pc = "read",
                        NEW i \in DOMAIN event', event'[i].server = server[d],
                        event'[i].prev = recorder'[d].prev
                 PROVE  \E k \in DOMAIN event' : Older(event'[i], event'[k])
        BY <1>1 DEF ReadIsLast, Older
    <2>1. d # c /\ recorder'[d] = recorder[d] /\ recorder[d].pc = "read"
        BY <1>2
    <2>2. server[d] # server[c]
        BY <1>1, <2>1 DEF AudInv, Exclusive
    <2>3. i \in 1..n /\ event'[i] = event[i]
        BY <1>3, <1>4, <2>2
    <2>4. PICK k \in DOMAIN event : Older(event[i], event[k])
        BY <1>4, <2>1, <2>3 DEF AudInv, ReadIsLast
    <2> QED
        BY <1>4, <2>3, <2>4
<1>12. ForksAreExplained'
    <2> SUFFICES ASSUME NEW i \in DOMAIN event', NEW j \in DOMAIN event', i < j,
                        event'[i].prev = event'[j].prev,
                        event'[i].server = event'[j].server
                 PROVE  \E k \in 1..j - 1 : Older(event'[i], event'[k])
        BY DEF ForksAreExplained, Older
    <2>1. i \in 1..n /\ event'[i] = event[i]
        BY <1>4
    <2>2. CASE j = n + 1
        <3>1. event[i].server = server[c] /\ event[i].prev = recorder[c].prev
            BY <1>3, <1>4, <2>1, <2>2
        <3>2. PICK k \in DOMAIN event : Older(event[i], event[k])
            BY <1>1, <1>4, <2>1, <3>1 DEF AudInv, ReadIsLast
        <3>3. k \in 1..j - 1 /\ event'[k] = event[k]
            BY <1>4, <2>2, <3>2
        <3> QED
            BY <2>1, <3>2, <3>3
    <2>3. CASE j # n + 1
        <3>1. j \in 1..n /\ event'[j] = event[j]
            BY <1>4, <2>3
        <3>2. PICK k \in 1..j - 1 : Older(event[i], event[k])
            BY <1>4, <2>1, <3>1 DEF AudInv, ForksAreExplained
        <3>3. event'[k] = event[k]
            BY <1>4, <3>1, <3>2
        <3> QED
            BY <2>1, <3>2, <3>3
    <2> QED
        BY <2>2, <2>3
<1> QED
    BY <1>2, <1>5, <1>7, <1>8, <1>10, <1>11, <1>12 DEF AudInv

\* Time, and the export, leave the chain alone.
LEMMA OthersKeepChain ==
    ASSUME AudInv, clock' \in AuditInstants, UNCHANGED <<event, server, recorder, holder>>
    PROVE  AudInv'
<1>1. AudTypeOK' /\ IdsAreFresh' /\ NoneFollowsItself' /\ Exclusive'
    BY DEF AudInv, AudTypeOK, IdsAreFresh, NoneFollowsItself, Exclusive
<1>2. ReadIsLast' /\ ForksAreExplained'
    BY DEF AudInv, ReadIsLast, ForksAreExplained, Older
<1>3. OneIsLatest'
    BY DEF AudInv, OneIsLatest, Latest, Rows, Older
<1> QED
    BY <1>1, <1>2, <1>3 DEF AudInv

LEMMA StepKeepsAudit == AudInv /\ [AudNext]_audVars => AudInv'
<1> SUFFICES ASSUME AudInv, [AudNext]_audVars PROVE AudInv'
    OBVIOUS
<1>1. ASSUME NEW c \in Recorders, Record_Stamp(c) PROVE AudInv'
    BY <1>1, StampKeeps
<1>2. ASSUME NEW c \in Recorders, Record_LatestHash(c) PROVE AudInv'
    BY <1>2, ReadKeepsChain
<1>3. ASSUME NEW c \in Recorders, Record_Insert(c) PROVE AudInv'
    BY <1>3, InsertKeepsChain
<1>4. ASSUME NEW c \in Recorders, Record_Fails(c) PROVE AudInv'
    BY <1>4, FailKeeps
<1>5. CASE Tick
    <2>1. clock' \in AuditInstants
        BY <1>5 DEF Tick, AudInv, AudTypeOK, AuditInstants
    <2> QED
        BY <1>5, <2>1, OthersKeepChain DEF Tick
<1>6. CASE ExportNDJSON \/ ListPage \/ Export_Fails \/ UNCHANGED audVars
    BY <1>6, OthersKeepChain DEF ExportNDJSON, ListPage, Export_Fails, audVars,
                                 AudInv, AudTypeOK
<1> QED
    BY <1>1, <1>2, <1>3, <1>4, <1>5, <1>6 DEF AudNext

\* Two events follow the same one only when different servers recorded them
\* or when the first had an older text than another by then (Record).
THEOREM ForksHaveTwoCauses == AudSpec => []ForksAreExplained
<1>1. AudInv => ForksAreExplained
    BY DEF AudInv
<1> QED
    BY <1>1, InitAudit, StepKeepsAudit, PTL DEF AudSpec

-----------------------------------------------------------------------------
(* The export.  What one has written is newest first, and so has no event  *)
(* twice; of the events it began with, those it has not written come after *)
(* its cursor, which is the last one written.  Rows are only ever added,   *)
(* so an event recorded between two pages takes the place of none.         *)

Exporting == [pc: {"none", "paging", "done"},
              cursor: {<<>>} \union {<<r>> : r \in Event},
              lines: Seq(Event), before: SUBSET Event]

ExpTypeOK == export \in Exporting

NewestFirst ==
    \A i, j \in DOMAIN export.lines : i < j => Older(export.lines[j], export.lines[i])

Written(r) == \E i \in DOMAIN export.lines : export.lines[i] = r

CursorIsLast ==
    export.pc = "paging" =>
        IF export.lines = <<>> THEN export.cursor = <<>>
        ELSE export.cursor = <<export.lines[Len(export.lines)]>>

NoneIsSkipped ==
    /\ export.before \subseteq Rows
    /\ \A r \in export.before :
           /\ export.pc = "paging" => Written(r) \/ Beyond(export.cursor, r)
           /\ export.pc = "done" => Written(r)

ExportInv == ExpTypeOK /\ NewestFirst /\ CursorIsLast /\ NoneIsSkipped

\* The rows are events, and finitely many.
LEMMA RowsAreEvents ==
    ASSUME AudTypeOK
    PROVE  Rows \subseteq Event /\ IsFiniteSet(Rows)
<1>1. event \in Seq(Event)
    BY DEF AudTypeOK
<1>2. Rows \subseteq Event
    BY <1>1 DEF Rows
<1>3. event \in Surjection(1..Len(event), Rows)
    BY <1>1 DEF Rows, Surjection
<1>4. IsFiniteSet(1..Len(event))
    BY <1>1, FS_Interval
<1>5. IsFiniteSet(Rows)
    BY <1>3, <1>4, FS_Surjection
<1> QED
    BY <1>2, <1>5

\* No event is older than itself.
LEMMA OlderIsStrict == ASSUME NEW r \in Event PROVE ~Older(r, r)
<1>1. TextRank[r.at] \in Nat /\ r.id \in Nat
    BY DEF Event, AuditInstants
<1> QED
    BY <1>1 DEF Older

LEMMA PageIsSequence ==
    ASSUME AudTypeOK, NEW page \in Pages
    PROVE  page \in Seq(Event) /\ DOMAIN page = 1..Len(page) /\ Len(page) \in Nat
           /\ \A i \in DOMAIN page : page[i] \in Rows
<1>1. PICK n \in 0..PageSize : page \in [1..n -> Rows]
    BY DEF Pages
<1>2. n \in Nat /\ DOMAIN page = 1..n
    BY <1>1
<1>3. \A i \in 1..n : page[i] \in Rows
    BY <1>1
<1>4. page \in [1..n -> Event]
    BY <1>1, RowsAreEvents
<1>5. page \in Seq(Event)
    BY <1>2, <1>4
<1>6. Len(page) = n
    BY <1>2, <1>5
<1> QED
    BY <1>2, <1>3, <1>5, <1>6

\* A page that leaves rows behind is not empty: the next cursor exists.
LEMMA PageIsNotEmpty ==
    ASSUME AudTypeOK, NEW page \in Pages, NEW cursor, IsPage(page, cursor),
           NEW r \in Rows, Beyond(cursor, r)
    PROVE  Len(page) > 0
<1> DEFINE left == {s \in Rows : Beyond(cursor, s)}
<1>1. r \in left
    OBVIOUS
<1>2. IsFiniteSet(left)
    BY RowsAreEvents, FS_Subset
<1>3. Cardinality(left) \in Nat
    BY <1>2, FS_CardinalityType
<1>4. Cardinality(left) # 0
    BY <1>1, <1>2, FS_EmptySet
<1>5. Len(page) = IF Cardinality(left) < PageSize THEN Cardinality(left) ELSE PageSize
    BY DEF IsPage
<1>6. PageSize \in Nat /\ PageSize # 0
    OBVIOUS
<1> HIDE DEF left
<1> QED
    BY <1>3, <1>4, <1>5, <1>6

\* What is written with a page: what was written before, then the page.
Continues(lines, page) ==
    /\ lines \in Seq(Event)
    /\ Len(lines) = Len(export.lines) + Len(page)
    /\ DOMAIN lines = 1..Len(lines)
    /\ \A i \in DOMAIN export.lines : i \in DOMAIN lines /\ lines[i] = export.lines[i]
    /\ \A i \in DOMAIN page :
           /\ Len(export.lines) + i \in DOMAIN lines
           /\ lines[Len(export.lines) + i] = page[i]
    /\ \A i \in DOMAIN lines :
           \/ i \in DOMAIN export.lines
           \/ \E j \in DOMAIN page : i = Len(export.lines) + j

LEMMA WrittenWithPage ==
    ASSUME AudTypeOK, ExportInv, NEW page \in Pages, NEW lines,
           lines = export.lines \o page
    PROVE  Continues(lines, page)
<1>1. export.lines \in Seq(Event)
    BY DEF ExportInv, ExpTypeOK, Exporting
<1>2. DOMAIN export.lines = 1..Len(export.lines) /\ Len(export.lines) \in Nat
    BY <1>1
<1>3. page \in Seq(Event) /\ DOMAIN page = 1..Len(page) /\ Len(page) \in Nat
    BY PageIsSequence
<1>4. /\ lines \in Seq(Event)
      /\ Len(lines) = Len(export.lines) + Len(page)
      /\ \A i \in 1 .. Len(export.lines) + Len(page) : lines[i] =
             IF i <= Len(export.lines) THEN export.lines[i] ELSE page[i - Len(export.lines)]
    BY <1>1, <1>3, ConcatProperties
<1>5. DOMAIN lines = 1..Len(export.lines) + Len(page)
    BY <1>4
<1>6. \A i \in DOMAIN export.lines : i \in DOMAIN lines /\ lines[i] = export.lines[i]
    BY <1>2, <1>3, <1>4, <1>5
<1>7. ASSUME NEW i \in DOMAIN page
      PROVE  /\ Len(export.lines) + i \in DOMAIN lines
             /\ lines[Len(export.lines) + i] = page[i]
    <2> DEFINE n == Len(export.lines) + i
    <2>1. i \in 1..Len(page)
        BY <1>3
    <2>2. n \in 1..Len(export.lines) + Len(page) /\ ~(n <= Len(export.lines))
          /\ n - Len(export.lines) = i
        BY <2>1, <1>2, <1>3
    <2> HIDE DEF n
    <2>3. n \in DOMAIN lines /\ lines[n] = page[i]
        BY <2>2, <1>4, <1>5
    <2> QED
        BY <2>3 DEF n
<1>8. ASSUME NEW i \in DOMAIN lines, i \notin DOMAIN export.lines
      PROVE  \E j \in DOMAIN page : i = Len(export.lines) + j
    <2>1. i \in 1..Len(export.lines) + Len(page) /\ i \notin 1..Len(export.lines)
        BY <1>2, <1>5, <1>8
    <2>2. PICK m \in Nat : m = Len(export.lines)
        BY <1>2
    <2>3. PICK n \in Nat : n = Len(page)
        BY <1>3
    <2>4. i \in 1..m + n /\ i \notin 1..m
        BY <2>1, <2>2, <2>3
    <2>5. i - m \in 1..n /\ i = m + (i - m)
        BY <2>4
    <2> QED
        BY <2>2, <2>3, <2>5, <1>3
<1> QED
    BY <1>4, <1>5, <1>6, <1>7, <1>8 DEF Continues

LEMMA PageKeepsExport ==
    ASSUME AudInv, ExportInv, ListPage
    PROVE  ExportInv'
<1> AudTypeOK
    BY DEF AudInv
<1>1. PICK page \in Pages :
          /\ export.pc = "paging"
          /\ IsPage(page, export.cursor)
          /\ LET hasMore == \E r \in Rows : Beyond(export.cursor, r)
                                            /\ \A i \in DOMAIN page : page[i] # r IN
             export' = [export EXCEPT
                 !.lines = @ \o page,
                 !.pc = IF hasMore THEN "paging" ELSE "done",
                 !.cursor = IF hasMore THEN <<page[Len(page)]>> ELSE @]
    BY DEF ListPage
<1> DEFINE hasMore == \E r \in Rows : Beyond(export.cursor, r)
                                      /\ \A i \in DOMAIN page : page[i] # r
           got == {page[i] : i \in DOMAIN page}
<1>2. PICK lines : lines = export.lines \o page
    OBVIOUS
<1>3. PICK pc : pc = IF hasMore THEN "paging" ELSE "done"
    OBVIOUS
<1>4. PICK cursor : cursor = IF hasMore THEN <<page[Len(page)]>> ELSE export.cursor
    OBVIOUS
<1>5. export' = [export EXCEPT !.lines = lines, !.pc = pc, !.cursor = cursor]
    BY <1>1, <1>2, <1>3, <1>4
<1> HIDE DEF hasMore
<1>6. export \in Exporting
    BY DEF ExportInv, ExpTypeOK
<1>7. /\ export'.lines = lines /\ export'.pc = pc /\ export'.cursor = cursor
      /\ export'.before = export.before
    BY <1>5, <1>6 DEF Exporting
<1>8. UNCHANGED event /\ Rows' = Rows
    BY DEF ListPage, Rows
<1>9. page \in Seq(Event) /\ DOMAIN page = 1..Len(page) /\ Len(page) \in Nat
      /\ \A i \in DOMAIN page : page[i] \in Rows /\ page[i] \in Event
    BY PageIsSequence, RowsAreEvents
<1>10. Continues(lines, page)
    BY <1>2, WrittenWithPage
<1>11. export.lines \in Seq(Event) /\ Len(export.lines) \in Nat
       /\ DOMAIN export.lines = 1..Len(export.lines)
       /\ \A i \in DOMAIN export.lines : export.lines[i] \in Event
    BY <1>6 DEF Exporting
<1>12. hasMore => Len(page) \in DOMAIN page
    <2> SUFFICES ASSUME hasMore PROVE Len(page) \in DOMAIN page
        OBVIOUS
    <2>1. PICK r \in Rows : Beyond(export.cursor, r)
        BY DEF hasMore
    <2>2. Len(page) > 0
        BY <2>1, <1>1, PageIsNotEmpty
    <2> QED
        BY <2>2, <1>9
<1>13. ExpTypeOK'
    <2>1. pc \in {"none", "paging", "done"}
        BY <1>3
    <2>2. cursor \in {<<>>} \union {<<r>> : r \in Event}
        <3>1. CASE hasMore
            BY <3>1, <1>4, <1>9, <1>12
        <3>2. CASE ~hasMore
            BY <3>2, <1>4, <1>6 DEF Exporting
        <3> QED
            BY <3>1, <3>2
    <2>3. export' \in Exporting
        BY <2>1, <2>2, <1>5, <1>6, <1>10 DEF Exporting, Continues
    <2> QED
        BY <2>3 DEF ExpTypeOK
<1>14. NewestFirst'
    <2> SUFFICES ASSUME NEW i \in DOMAIN lines, NEW j \in DOMAIN lines, i < j
                 PROVE  Older(lines[j], lines[i])
        BY <1>7 DEF NewestFirst, Older
    <2>1. CASE i \in DOMAIN export.lines /\ j \in DOMAIN export.lines
        BY <2>1, <1>10 DEF ExportInv, NewestFirst, Continues
    <2>2. ASSUME i \in DOMAIN export.lines,
                 NEW n \in DOMAIN page, j = Len(export.lines) + n
          PROVE  Older(lines[j], lines[i])
        <3>1. export.lines # <<>> /\ Len(export.lines) \in DOMAIN export.lines
            BY <2>2, <1>11
        <3>2. export.cursor = <<export.lines[Len(export.lines)]>>
            BY <3>1, <1>1 DEF ExportInv, CursorIsLast
        <3>3. page[n] \in got
            OBVIOUS
        <3>4. Beyond(export.cursor, page[n])
            BY <3>3, <1>1 DEF IsPage
        <3>5. Older(page[n], export.lines[Len(export.lines)])
            BY <3>2, <3>4 DEF Beyond
        <3>6. lines[j] = page[n] /\ lines[i] = export.lines[i]
            BY <2>2, <1>10 DEF Continues
        <3>7. CASE i = Len(export.lines)
            BY <3>5, <3>6, <3>7
        <3>8. CASE i # Len(export.lines)
            <4>1. i < Len(export.lines)
                BY <2>2, <3>8, <1>11
            <4>2. Older(export.lines[Len(export.lines)], export.lines[i])
                BY <2>2, <3>1, <4>1 DEF ExportInv, NewestFirst
            <4>3. Older(page[n], export.lines[i])
                BY <2>2, <3>1, <3>5, <4>2, <1>9, <1>11, OlderIsTransitive
            <4> QED
                BY <4>3, <3>6
        <3> QED
            BY <3>7, <3>8
    <2>3. ASSUME NEW m \in DOMAIN page, i = Len(export.lines) + m,
                 NEW n \in DOMAIN page, j = Len(export.lines) + n
          PROVE  Older(lines[j], lines[i])
        <3>1. m < n
            BY <2>3, <1>9, <1>11
        <3>2. Older(page[n], page[m])
            BY <3>1, <1>1 DEF IsPage
        <3> QED
            BY <3>2, <2>3, <1>10 DEF Continues
    <2>4. ASSUME NEW m \in DOMAIN page, i = Len(export.lines) + m,
                 j \in DOMAIN export.lines
          PROVE  FALSE
        BY <2>4, <1>9, <1>11
    <2> QED
        BY <2>1, <2>2, <2>3, <2>4, <1>10 DEF Continues
<1>15. CursorIsLast'
    <2> SUFFICES ASSUME pc = "paging"
                 PROVE  lines # <<>> /\ cursor = <<lines[Len(lines)]>>
        BY <1>7 DEF CursorIsLast
    <2>1. hasMore
        BY <1>3
    <2>2. Len(page) \in DOMAIN page
        BY <2>1, <1>12
    <2>3. lines[Len(lines)] = page[Len(page)] /\ Len(lines) \in DOMAIN lines
        BY <2>2, <1>10 DEF Continues
    <2>4. lines # <<>>
        BY <2>3
    <2> QED
        BY <2>1, <2>3, <2>4, <1>4
<1>16. NoneIsSkipped'
    <2>1. export.before \subseteq Rows
        BY DEF ExportInv, NoneIsSkipped
    <2>2. ASSUME NEW r \in export.before
          PROVE  /\ pc = "paging" => \/ \E i \in DOMAIN lines : lines[i] = r
                                     \/ Beyond(cursor, r)
                 /\ pc = "done" => \E i \in DOMAIN lines : lines[i] = r
        <3>1. r \in Rows
            BY <2>1
        <3>2. Written(r) \/ Beyond(export.cursor, r)
            BY <1>1 DEF ExportInv, NoneIsSkipped
        <3>3. CASE Written(r)
            <4>1. PICK i \in DOMAIN export.lines : export.lines[i] = r
                BY <3>3 DEF Written
            <4> QED
                BY <4>1, <1>10 DEF Continues
        <3>4. CASE r \in got
            <4>1. PICK i \in DOMAIN page : page[i] = r
                BY <3>4
            <4> QED
                BY <4>1, <1>10 DEF Continues
        <3>5. CASE Beyond(export.cursor, r) /\ r \notin got
            <4>1. hasMore
                BY <3>1, <3>5 DEF hasMore
            <4>2. pc = "paging" /\ cursor = <<page[Len(page)]>>
                BY <4>1, <1>3, <1>4
            <4>3. page[Len(page)] \in got
                BY <4>1, <1>12
            <4>4. Older(r, page[Len(page)])
                BY <3>1, <3>5, <4>3, <1>1 DEF IsPage
            <4>5. Beyond(cursor, r)
                BY <4>2, <4>4 DEF Beyond
            <4> QED
                BY <4>2, <4>5
        <3> QED
            BY <3>2, <3>3, <3>4, <3>5
    <2> QED
        BY <2>1, <2>2, <1>7, <1>8 DEF NoneIsSkipped, Written, Beyond, Older
<1> QED
    BY <1>13, <1>14, <1>15, <1>16 DEF ExportInv

\* Rows that are added while an export runs take nothing from it.
LEMMA RowsKeepExport ==
    ASSUME ExportInv, UNCHANGED export, Rows \subseteq Rows'
    PROVE  ExportInv'
<1>1. ExpTypeOK' /\ CursorIsLast'
    BY DEF ExportInv, ExpTypeOK, CursorIsLast
<1>2. NewestFirst'
    BY DEF ExportInv, NewestFirst, Older
<1>3. NoneIsSkipped'
    BY DEF ExportInv, NoneIsSkipped, Written, Beyond, Older
<1> QED
    BY <1>1, <1>2, <1>3 DEF ExportInv

\* An export that begins has everything before it.
LEMMA BeginKeepsExport ==
    ASSUME AudInv, NEW pc \in {"none", "paging"}, NEW before \in SUBSET Rows,
           UNCHANGED event, pc = "none" => before = {},
           export' = [pc |-> pc, cursor |-> <<>>, lines |-> <<>>, before |-> before]
    PROVE  ExportInv'
<1>1. /\ export'.pc = pc /\ export'.cursor = <<>> /\ export'.lines = <<>>
      /\ export'.before = before
    OBVIOUS
<1>2. before \in SUBSET Event
    BY RowsAreEvents DEF AudInv
<1>3. <<>> \in Seq(Event) /\ <<>> \in {<<>>} \union {<<r>> : r \in Event}
    OBVIOUS
<1>4. [pc |-> pc, cursor |-> <<>>, lines |-> <<>>, before |-> before] \in Exporting
    BY <1>2, <1>3 DEF Exporting
<1>5. ExpTypeOK'
    BY <1>4 DEF ExpTypeOK
<1>6. NewestFirst' /\ CursorIsLast'
    BY <1>1 DEF NewestFirst, CursorIsLast
<1>7. NoneIsSkipped'
    BY <1>1 DEF NoneIsSkipped, Beyond, Rows
<1> QED
    BY <1>5, <1>6, <1>7 DEF ExportInv

LEMMA InitExport == AudInit => ExportInv
<1> SUFFICES ASSUME AudInit PROVE ExportInv
    OBVIOUS
<1>1. /\ export.pc = "none" /\ export.cursor = <<>> /\ export.lines = <<>>
      /\ export.before = {}
    BY DEF AudInit, NotExporting
<1>2. ExpTypeOK
    BY DEF AudInit, ExpTypeOK, Exporting, NotExporting
<1> QED
    BY <1>1, <1>2 DEF ExportInv, NewestFirst, CursorIsLast, NoneIsSkipped

LEMMA StepKeepsExport == AudInv /\ ExportInv /\ [AudNext]_audVars => ExportInv'
<1> SUFFICES ASSUME AudInv, ExportInv, [AudNext]_audVars PROVE ExportInv'
    OBVIOUS
<1>1. CASE ListPage
    BY <1>1, PageKeepsExport
<1>2. CASE ExportNDJSON
    <2>1. export' = [pc |-> "paging", cursor |-> <<>>, lines |-> <<>>, before |-> Rows]
        BY <1>2 DEF ExportNDJSON, NotExporting
    <2> QED
        BY <2>1, <1>2, BeginKeepsExport DEF ExportNDJSON
<1>3. CASE Export_Fails
    <2>1. export' = [pc |-> "none", cursor |-> <<>>, lines |-> <<>>, before |-> {}]
        BY <1>3 DEF Export_Fails, NotExporting
    <2> QED
        BY <2>1, <1>3, BeginKeepsExport DEF Export_Fails
<1>4. ASSUME NEW c \in Recorders, Record_Insert(c) PROVE ExportInv'
    <2>1. PICK e : event' = Append(event, e)
        BY <1>4 DEF Record_Insert
    <2>2. event \in Seq(Event)
        BY DEF AudInv, AudTypeOK
    <2>3. \A i \in DOMAIN event : i \in DOMAIN event' /\ event'[i] = event[i]
        BY <2>1, <2>2
    <2>4. Rows \subseteq Rows'
        BY <2>3 DEF Rows
    <2> QED
        BY <2>4, <1>4, RowsKeepExport DEF Record_Insert, Record_Returns
<1>5. ASSUME UNCHANGED <<event, export>> PROVE ExportInv'
    BY <1>5, RowsKeepExport DEF Rows
<1>6. ASSUME NEW c \in Recorders, Record_Stamp(c) \/ Record_LatestHash(c) \/ Record_Fails(c)
      PROVE  ExportInv'
    BY <1>5, <1>6 DEF Record_Stamp, Record_LatestHash, Record_Fails, Record_Returns
<1>7. CASE Tick \/ UNCHANGED audVars
    BY <1>5, <1>7 DEF Tick, audVars
<1> QED
    BY <1>1, <1>2, <1>3, <1>4, <1>6, <1>7 DEF AudNext

LEMMA ExportsAreComplete == AudTypeOK /\ ExportInv => ExportIsComplete
<1> SUFFICES ASSUME AudTypeOK, ExportInv, export.pc = "done"
             PROVE  /\ \A r \in export.before : Written(r)
                    /\ \A i, j \in DOMAIN export.lines :
                           export.lines[i] = export.lines[j] => i = j
    BY DEF ExportIsComplete, Written
<1>1. \A r \in export.before : Written(r)
    BY DEF ExportInv, NoneIsSkipped
<1>2. DOMAIN export.lines \subseteq Nat /\ \A i \in DOMAIN export.lines : export.lines[i] \in Event
    BY DEF ExportInv, ExpTypeOK, Exporting
<1>3. ASSUME NEW i \in DOMAIN export.lines, NEW j \in DOMAIN export.lines, i < j
      PROVE  export.lines[i] # export.lines[j]
    <2>1. Older(export.lines[j], export.lines[i])
        BY <1>3 DEF ExportInv, NewestFirst
    <2> QED
        BY <2>1, <1>2, OlderIsStrict
<1>4. ASSUME NEW i \in DOMAIN export.lines, NEW j \in DOMAIN export.lines, i # j
      PROVE  i < j \/ j < i
    BY <1>2, <1>4
<1> QED
    BY <1>1, <1>3, <1>4

\* A finished export has every event it began with and none twice, for any
\* page size, any order of the texts and whatever is recorded meanwhile
\* (ExportNDJSON, ListPage).
THEOREM ExportsAreWhole == AudSpec => []ExportIsComplete
<1>1. AudInv /\ ExportInv /\ [AudNext]_audVars => AudInv' /\ ExportInv'
    BY StepKeepsAudit, StepKeepsExport
<1>2. AudInv /\ ExportInv => ExportIsComplete
    BY ExportsAreComplete DEF AudInv
<1> QED
    BY <1>1, <1>2, InitAudit, InitExport, PTL DEF AudSpec

-----------------------------------------------------------------------------
(* The rate limiter.  Every attempt that has counted and not recorded yet  *)
(* counted no more than the limit in the whole seconds of every window that *)
(* its instant lies in, so none of these holds more than the limit and one *)
(* for each of the others.                                                 *)

USE RateAssumption

Attempt == [pc: {"none", "count", "record"}, at: Moments]

RateTypeOK ==
    /\ time \in Moments
    /\ entries \subseteq [at: Moments, no: Nat]
    /\ caller \in [Callers -> Attempt]
    /\ IsFiniteSet(entries)

\* What the next row of an instant is called is free.
RowsAreNumbered == \A r \in entries : r.no <= Total({r.at})

RateInv == RateTypeOK /\ RowsAreNumbered /\ OvershootIsBounded

\* An attempt in the whole seconds of a window counts all of them: its own
\* window began no later, and a later second has a later text.
LEMMA WholeSecondsCount ==
    ASSUME NEW t \in Moments, NEW a \in WholeSeconds(t), a \in Moments
    PROVE  WholeSeconds(t) \subseteq Within(a)
<1> SUFFICES ASSUME NEW s \in WholeSeconds(t) PROVE s \in Within(a)
    OBVIOUS
<1>1. /\ a - Window \in 0..Horizon /\ t - Window \in 0..Horizon
      /\ a - Window <= t - Window /\ s \in 0..Horizon
    BY DEF WholeSeconds, Moments
<1>2. SecondOf[a - Window] <= SecondOf[t - Window]
    BY <1>1, TextAssumption
<1>3. SecondOf[t - Window] < SecondOf[s]
    BY DEF WholeSeconds
<1>4. SecondOf[a - Window] \in Nat /\ SecondOf[t - Window] \in Nat /\ SecondOf[s] \in Nat
    BY <1>1, TextAssumption
<1>5. SecondOf[a - Window] < SecondOf[s]
    BY <1>2, <1>3, <1>4
<1>6. TextPlace[a - Window] < TextPlace[s]
    BY <1>1, <1>5, TextAssumption
<1>7. TextPlace[a - Window] \in Nat /\ TextPlace[s] \in Nat
    BY <1>1, TextAssumption
<1> QED
    BY <1>1, <1>6, <1>7 DEF Within, Instants

\* COUNT(*) is a number, and counts no more of a smaller set of instants.
LEMMA CountIsNumber ==
    ASSUME IsFiniteSet(entries), NEW S
    PROVE  IsFiniteSet(RowsOf(S)) /\ Total(S) \in Nat
<1>1. RowsOf(S) \subseteq entries
    BY DEF RowsOf
<1> QED
    BY <1>1, FS_Subset, FS_CardinalityType DEF Total

LEMMA CountIsMonotone ==
    ASSUME IsFiniteSet(entries), NEW S, NEW T, S \subseteq T
    PROVE  Total(S) <= Total(T)
<1>1. RowsOf(S) \subseteq RowsOf(T)
    BY DEF RowsOf
<1>2. IsFiniteSet(RowsOf(T))
    BY CountIsNumber
<1> QED
    BY <1>1, <1>2, FS_Subset DEF Total

LEMMA AdmittedIsNumber ==
    ASSUME NEW S
    PROVE  /\ IsFiniteSet(AboutToRecord(S))
           /\ Cardinality(AboutToRecord(S)) \in Nat
           /\ Cardinality(AboutToRecord(S)) <= Cardinality(Callers)
           /\ Cardinality(Callers) \in Nat
<1>1. AboutToRecord(S) \subseteq Callers
    BY DEF AboutToRecord
<1> QED
    BY <1>1, FS_Subset, FS_CardinalityType

LEMMA InitRate == RateInit => RateInv
<1> SUFFICES ASSUME RateInit PROVE RateInv
    OBVIOUS
<1>1. IsFiniteSet(entries)
    BY FS_EmptySet DEF RateInit
<1>2. RateTypeOK
    BY <1>1 DEF RateInit, RateTypeOK, Attempt, NotCalling, Moments
<1>3. RowsAreNumbered
    BY DEF RateInit, RowsAreNumbered
<1>4. \A S : Total(S) = 0
    BY FS_EmptySet DEF RateInit, Total, RowsOf
<1>5. \A S : AboutToRecord(S) = {}
    BY DEF RateInit, AboutToRecord, NotCalling
<1>6. OvershootIsBounded
    <2>1. Cardinality(Callers) \in Nat
        BY FS_CardinalityType
    <2>2. \A S : Total(S) + Cardinality(AboutToRecord(S)) <= MaxN + Cardinality(Callers) - 1
        <3> TAKE S
        <3>1. Total(S) = 0
            BY <1>4
        <3>2. Cardinality(AboutToRecord(S)) = 0
            BY <1>5, FS_EmptySet
        <3> QED
            BY <2>1, <3>1, <3>2
    <2> QED
        BY <2>2 DEF OvershootIsBounded
<1> QED
    BY <1>2, <1>3, <1>6 DEF RateInv

\* A call that is admitted or refused records nothing: the count it was
\* admitted by covers every window that its instant lies in.
LEMMA CountKeepsRate == ASSUME NEW c \in Callers, RateInv, Count(c) PROVE RateInv'
<1> DEFINE v == IF Admits(caller[c].at) THEN [caller[c] EXCEPT !.pc = "record"] ELSE NotCalling
<1>1. /\ caller \in [Callers -> Attempt] /\ caller[c] \in Attempt
      /\ caller[c].pc = "count" /\ UNCHANGED <<time, entries>>
      /\ IsFiniteSet(entries)
    BY DEF Count, RateInv, RateTypeOK
<1>2. v \in Attempt /\ (v.pc = "record" => Admits(caller[c].at) /\ v.at = caller[c].at)
    BY <1>1 DEF Attempt, NotCalling, Moments
<1>3. caller' = [caller EXCEPT ![c] = v]
    BY <1>1 DEF Count
<1> HIDE DEF v
<1>4. /\ caller' \in [Callers -> Attempt] /\ caller'[c] = v
      /\ \A d \in Callers \ {c} : caller'[d] = caller[d]
    BY <1>1, <1>2, <1>3
<1>5. RateTypeOK' /\ RowsAreNumbered'
    BY <1>1, <1>4 DEF RateInv, RateTypeOK, RowsAreNumbered, Total, RowsOf
<1>6. ASSUME NEW t \in Moments
      PROVE  Total(WholeSeconds(t)) + Cardinality(AboutToRecord(WholeSeconds(t))')
                 <= MaxN + Cardinality(Callers) - 1
    <2> DEFINE W == WholeSeconds(t)
    <2>1. /\ Total(W) \in Nat /\ Cardinality(Callers) \in Nat
          /\ AboutToRecord(W)' \subseteq Callers
          /\ Cardinality(AboutToRecord(W)') \in Nat
          /\ Cardinality(AboutToRecord(W)') <= Cardinality(Callers)
        <3>1. AboutToRecord(W)' \subseteq Callers
            BY DEF AboutToRecord
        <3> QED
            BY <1>1, <3>1, CountIsNumber, FS_Subset, FS_CardinalityType
    <2>2. CASE v.pc = "record" /\ v.at \in W
        <3>1. W \subseteq Within(v.at)
            BY <1>2, <2>2, WholeSecondsCount DEF Attempt
        <3>2. Total(W) <= Total(Within(v.at)) /\ Total(Within(v.at)) \in Nat
            BY <1>1, <3>1, CountIsMonotone, CountIsNumber
        <3>3. Total(Within(v.at)) < MaxN
            BY <1>2, <2>2 DEF Admits
        <3> QED
            BY <2>1, <3>2, <3>3
    <2>3. CASE ~(v.pc = "record" /\ v.at \in W)
        <3>1. AboutToRecord(W)' \subseteq AboutToRecord(W)
            BY <1>4, <2>3 DEF AboutToRecord, WholeSeconds
        <3>2. Cardinality(AboutToRecord(W)') <= Cardinality(AboutToRecord(W))
            BY <3>1, AdmittedIsNumber, FS_Subset
        <3>3. Total(W) + Cardinality(AboutToRecord(W)) <= MaxN + Cardinality(Callers) - 1
            BY DEF RateInv, OvershootIsBounded
        <3>4. Cardinality(AboutToRecord(W)) \in Nat
            BY AdmittedIsNumber
        <3> QED
            BY <2>1, <3>2, <3>3, <3>4
    <2> QED
        BY <2>2, <2>3
<1>7. OvershootIsBounded'
    BY <1>1, <1>6 DEF OvershootIsBounded, WholeSeconds, Total, RowsOf, AboutToRecord
<1> QED
    BY <1>5, <1>7 DEF RateInv

LEMMA RecordKeepsRate == ASSUME NEW c \in Callers, RateInv, Record(c) PROVE RateInv'
<1> DEFINE a == caller[c].at
           row == [at |-> a, no |-> Total({a}) + 1]
<1>1. /\ caller \in [Callers -> Attempt] /\ caller[c].pc = "record" /\ a \in Moments
      /\ time' = time /\ IsFiniteSet(entries)
    BY DEF Record, RateInv, RateTypeOK, Attempt
<1>2. entries' = entries \union {row} /\ caller' = [caller EXCEPT ![c] = NotCalling]
    BY DEF Record
<1>3. row \in [at: Moments, no: Nat] /\ row.at = a /\ row.no = Total({a}) + 1
    BY <1>1, CountIsNumber
<1> HIDE DEF row
<1>4. row \notin entries
    <2> SUFFICES ASSUME row \in entries PROVE FALSE
        OBVIOUS
    <2>1. row.no <= Total({row.at})
        BY DEF RateInv, RowsAreNumbered
    <2>2. Total({a}) \in Nat
        BY <1>1, CountIsNumber
    <2>3. Total({a}) + 1 <= Total({a})
        BY <1>3, <2>1
    <2> QED
        BY <2>2, <2>3
<1>5. /\ caller' \in [Callers -> Attempt] /\ caller'[c].pc = "none"
      /\ \A d \in Callers \ {c} : caller'[d] = caller[d]
    BY <1>1, <1>2 DEF NotCalling, Attempt, Moments
<1>6. IsFiniteSet(entries')
    BY <1>1, <1>2, FS_AddElement
<1>7. ASSUME NEW S
      PROVE  /\ a \in S => Total(S)' = Total(S) + 1
             /\ a \notin S => Total(S)' = Total(S)
    <2>1. CASE a \in S
        <3>1. RowsOf(S)' = RowsOf(S) \union {row} /\ row \notin RowsOf(S)
            BY <1>2, <1>3, <1>4, <2>1 DEF RowsOf
        <3>2. IsFiniteSet(RowsOf(S))
            BY <1>1, CountIsNumber
        <3> QED
            BY <2>1, <3>1, <3>2, FS_AddElement DEF Total
    <2>2. CASE a \notin S
        <3>1. RowsOf(S)' = RowsOf(S)
            BY <1>2, <1>3, <2>2 DEF RowsOf
        <3> QED
            BY <2>2, <3>1 DEF Total
    <2> QED
        BY <2>1, <2>2
<1>8. RateTypeOK'
    BY <1>1, <1>2, <1>3, <1>5, <1>6 DEF RateInv, RateTypeOK
<1>9. RowsAreNumbered'
    <2> SUFFICES ASSUME NEW r \in entries' PROVE \A s : s = r.at => r.no <= Total({s})'
        BY DEF RowsAreNumbered, Total, RowsOf
    <2> TAKE s
    <2> HAVE s = r.at
    <2>1. Total({s}) \in Nat
        BY <1>1, CountIsNumber
    <2>2. CASE r = row
        <3>1. s = a /\ a \in {s}
            BY <1>3, <2>2
        <3>2. Total({s})' = Total({s}) + 1
            BY <1>7, <3>1
        <3>3. r.no = Total({s}) + 1
            BY <1>3, <2>2, <3>1
        <3> QED
            BY <2>1, <3>2, <3>3
    <2>3. CASE r \in entries
        <3>1. r.no <= Total({s}) /\ r.no \in Nat
            <4>1. r.no \in Nat
                BY <2>3 DEF RateInv, RateTypeOK
            <4>2. r.no <= Total({r.at})
                BY <2>3 DEF RateInv, RowsAreNumbered
            <4> QED
                BY <4>1, <4>2
        <3>2. Total({s})' = Total({s}) \/ Total({s})' = Total({s}) + 1
            BY <1>7
        <3> QED
            BY <2>1, <3>1, <3>2
    <2> QED
        BY <1>2, <2>2, <2>3
<1>10. ASSUME NEW t \in Moments
       PROVE  Total(WholeSeconds(t))' + Cardinality(AboutToRecord(WholeSeconds(t))')
                  <= MaxN + Cardinality(Callers) - 1
    <2> DEFINE W == WholeSeconds(t)
    <2>1. /\ Total(W) \in Nat /\ Cardinality(Callers) \in Nat
          /\ IsFiniteSet(AboutToRecord(W)) /\ Cardinality(AboutToRecord(W)) \in Nat
        BY <1>1, CountIsNumber, AdmittedIsNumber
    <2>2. Total(W) + Cardinality(AboutToRecord(W)) <= MaxN + Cardinality(Callers) - 1
        BY DEF RateInv, OvershootIsBounded
    <2>3. AboutToRecord(W)' = AboutToRecord(W) \ {c}
        BY <1>5 DEF AboutToRecord, WholeSeconds
    <2>4. Total(W)' = IF a \in W THEN Total(W) + 1 ELSE Total(W)
        BY <1>7 DEF WholeSeconds, Total, RowsOf
    <2>5. CASE a \in W
        <3>1. c \in AboutToRecord(W)
            BY <1>1, <2>5 DEF AboutToRecord
        <3>2. Cardinality(AboutToRecord(W)') = Cardinality(AboutToRecord(W)) - 1
            BY <2>1, <2>3, <3>1, FS_RemoveElement
        <3> QED
            BY <2>1, <2>2, <2>4, <2>5, <3>2
    <2>6. CASE a \notin W
        <3>1. c \notin AboutToRecord(W)
            BY <2>6 DEF AboutToRecord
        <3>2. AboutToRecord(W)' = AboutToRecord(W)
            BY <2>3, <3>1
        <3> QED
            BY <2>1, <2>2, <2>4, <2>6, <3>2
    <2> QED
        BY <2>5, <2>6
<1>11. OvershootIsBounded'
    BY <1>10 DEF OvershootIsBounded, WholeSeconds, Total, RowsOf, AboutToRecord
<1> QED
    BY <1>8, <1>9, <1>11 DEF RateInv

\* The other steps record nothing, admit nobody, and remove whole instants.
LEMMA OthersKeepRate ==
    ASSUME RateInv, time' \in Moments, caller' \in [Callers -> Attempt],
           entries' \subseteq entries,
           \A r \in entries', s \in entries : s.at = r.at => s \in entries',
           \A c \in Callers : caller'[c].pc = "record" => caller'[c] = caller[c]
    PROVE  RateInv'
<1>1. IsFiniteSet(entries) /\ IsFiniteSet(entries')
    BY FS_Subset DEF RateInv, RateTypeOK
<1>2. RateTypeOK'
    BY <1>1 DEF RateInv, RateTypeOK
<1>3. RowsAreNumbered'
    <2> SUFFICES ASSUME NEW r \in entries' PROVE \A s : s = r.at => r.no <= Total({s})'
        BY DEF RowsAreNumbered, Total, RowsOf
    <2> TAKE s
    <2> HAVE s = r.at
    <2>1. RowsOf({s})' = RowsOf({s})
        BY DEF RowsOf
    <2> QED
        BY <2>1 DEF RateInv, RowsAreNumbered, Total
<1>4. ASSUME NEW t \in Moments
      PROVE  Total(WholeSeconds(t))' + Cardinality(AboutToRecord(WholeSeconds(t))')
                 <= MaxN + Cardinality(Callers) - 1
    <2> DEFINE W == WholeSeconds(t)
    <2>1. RowsOf(W)' \subseteq RowsOf(W) /\ AboutToRecord(W)' \subseteq AboutToRecord(W)
        BY DEF RowsOf, AboutToRecord, WholeSeconds
    <2>2. /\ IsFiniteSet(RowsOf(W)) /\ IsFiniteSet(AboutToRecord(W))
          /\ Cardinality(Callers) \in Nat
        BY <1>1, CountIsNumber, AdmittedIsNumber
    <2>3. /\ Cardinality(RowsOf(W)') \in Nat /\ Cardinality(RowsOf(W)) \in Nat
          /\ Cardinality(RowsOf(W)') <= Cardinality(RowsOf(W))
          /\ Cardinality(AboutToRecord(W)') \in Nat /\ Cardinality(AboutToRecord(W)) \in Nat
          /\ Cardinality(AboutToRecord(W)') <= Cardinality(AboutToRecord(W))
        BY <2>1, <2>2, FS_Subset, FS_CardinalityType
    <2>4. Cardinality(RowsOf(W)) + Cardinality(AboutToRecord(W)) <= MaxN + Cardinality(Callers) - 1
        BY DEF RateInv, OvershootIsBounded, Total
    <2> QED
        BY <2>2, <2>3, <2>4 DEF Total
<1>5. OvershootIsBounded'
    BY <1>4 DEF OvershootIsBounded, WholeSeconds, Total, RowsOf, AboutToRecord
<1> QED
    BY <1>2, <1>3, <1>5 DEF RateInv

LEMMA StepKeepsRate == RateInv /\ [RateNext]_rateVars => RateInv'
<1> SUFFICES ASSUME RateInv, [RateNext]_rateVars PROVE RateInv'
    OBVIOUS
<1>1. ASSUME NEW c \in Callers, Count(c) PROVE RateInv'
    BY <1>1, CountKeepsRate
<1>2. ASSUME NEW c \in Callers, Record(c) PROVE RateInv'
    BY <1>2, RecordKeepsRate
<1>3. ASSUME NEW c \in Callers, Allow(c) \/ AllowFailsOpen(c) PROVE RateInv'
    <2>1. PICK v \in Attempt : v.pc # "record" /\ caller' = [caller EXCEPT ![c] = v]
        BY <1>3 DEF Allow, AllowFailsOpen, Attempt, NotCalling, Moments, RateInv, RateTypeOK
    <2> QED
        BY <1>3, <2>1, OthersKeepRate DEF Allow, AllowFailsOpen, RateInv, RateTypeOK
<1>4. CASE TimeAdvances
    BY <1>4, OthersKeepRate DEF TimeAdvances, RateInv, RateTypeOK, Moments
<1>5. CASE CleanupEntries
    BY <1>5, OthersKeepRate DEF CleanupEntries, RateInv, RateTypeOK, RowsOf
<1>6. CASE UNCHANGED rateVars
    BY <1>6, OthersKeepRate DEF rateVars, RateInv, RateTypeOK
<1> QED
    BY <1>1, <1>2, <1>3, <1>4, <1>5, <1>6 DEF RateNext

\* However many attempts overlap and however the texts of one second sort, the
\* whole seconds of a window never have more attempts, recorded or about to be,
\* than the limit and the other callers together.  An attempt that is admitted
\* because a statement failed is not among them: nothing bounds those (allow,
\* Count, Record).
THEOREM OvershootHasABound == RateSpec => []OvershootIsBounded
<1>1. RateInv => OvershootIsBounded
    BY DEF RateInv
<1> QED
    BY <1>1, InitRate, StepKeepsRate, PTL DEF RateSpec

-----------------------------------------------------------------------------
(* The address pool.  The lowest free address is chosen among those that   *)
(* are neither the network nor the broadcast nor the gateway, and what a   *)
(* call read while it chose can only have become more crowded.             *)

USE PoolAssumption

Reservation == [id: ReservationIds, pool: Pools,
                address: [offset: Offsets, suffix: {"/32"}]]

Allocation == [pc: {"none", "usage", "insert"}, id: SUBSET ReservationIds,
               pool: SUBSET Pools, used: SUBSET Offsets,
               answer: {"none", "reserved", "refused"}]

PoolTypeOK ==
    /\ pool \in [Pools -> PoolRow]
    /\ reservation \subseteq Reservation
    /\ allocator \in [Allocators -> Allocation]

OneGateway == \A p \in Pools : \A x, y \in pool[p].gateway : x = y

\* A pool's row, once it is there, keeps its gateway, deleted or not.
PoolsAreKnown ==
    /\ \A r \in reservation : pool[r.pool].status # "absent"
    /\ \A c \in Allocators : \A p \in allocator[c].pool :
           pool[p].status # "absent"

\* No reserved address is ever parsed: only the gateway counts as used.
OnlyGatewayIsUsed ==
    \A c \in Allocators : \A p \in allocator[c].pool : allocator[c].used = pool[p].gateway

PoolInv == PoolTypeOK /\ OneGateway /\ PoolsAreKnown /\ OnlyGatewayIsUsed /\ ReservationsAreUsable

LEMMA AnsweredIs ==
    ASSUME NEW a \in {"none", "reserved", "refused"}
    PROVE  Answered(a) \in Allocation /\ Answered(a).pool = {} /\ Answered(a).pc = "none"
BY DEF Answered, Allocation

LEMMA InitPool == PoolInit => PoolInv
<1> SUFFICES ASSUME PoolInit PROVE PoolInv
    OBVIOUS
<1>1. PoolTypeOK
    BY AnsweredIs DEF PoolInit, PoolTypeOK, PoolRow
<1>2. OneGateway /\ PoolsAreKnown /\ OnlyGatewayIsUsed /\ ReservationsAreUsable
    BY AnsweredIs DEF PoolInit, OneGateway, PoolsAreKnown, OnlyGatewayIsUsed, ReservationsAreUsable
<1> QED
    BY <1>1, <1>2 DEF PoolInv

\* The first candidate after one gateway at most is neither the network nor
\* the broadcast address, though the latter is not excluded.
LEMMA FirstCandidate ==
    ASSUME NEW used \in SUBSET Offsets, \A x, y \in used : x = y,
           NEW o \in Candidates(used), \A q \in Candidates(used) : o <= q
    PROVE  /\ o \in Offsets /\ o # 0 /\ o \notin used
           /\ AddressCount > 2 => o # Broadcast
<1>1. o \in Offsets /\ o # 0 /\ o \notin used
    BY DEF Candidates
<1>2. ASSUME AddressCount > 2 PROVE o # Broadcast
    <2>1. AddressCount \in Nat /\ AddressCount >= 4
        BY <1>2
    <2>2. 1 \notin used \/ 2 \notin used
        OBVIOUS
    <2>3. 1 \in Candidates(used) \/ 2 \in Candidates(used)
        BY <2>1, <2>2 DEF Candidates, Offsets, LastAddr
    <2>4. o <= 2
        BY <1>1, <2>3 DEF Offsets
    <2> QED
        BY <1>1, <2>1, <2>4 DEF Broadcast, Offsets
<1> QED
    BY <1>1, <1>2

\* A pool's row changes in its status only, and never to absent, or it was
\* absent and nothing refers to it.
LEMMA RowsChange ==
    ASSUME PoolInv, NEW p \in Pools, NEW row \in PoolRow,
           pool' = [pool EXCEPT ![p] = row], row.status # "absent",
           \A x, y \in row.gateway : x = y,
           pool[p].status = "absent" \/ row.gateway = pool[p].gateway,
           reservation' \subseteq reservation, allocator' = allocator
    PROVE  PoolInv'
<1>1. pool' \in [Pools -> PoolRow] /\ pool'[p] = row /\ \A q \in Pools \ {p} : pool'[q] = pool[q]
    BY DEF PoolInv, PoolTypeOK
<1>2. PoolTypeOK'
    BY <1>1 DEF PoolInv, PoolTypeOK
<1>3. OneGateway'
    BY <1>1 DEF PoolInv, OneGateway
<1>4. /\ \A r \in reservation : r.pool \in Pools
      /\ \A c \in Allocators : allocator[c].pool \subseteq Pools
    BY DEF PoolInv, PoolTypeOK, Reservation, Allocation
<1>5. PoolsAreKnown'
    BY <1>1, <1>4 DEF PoolInv, PoolsAreKnown
<1>6. \A q \in Pools : pool[q].status # "absent" => pool'[q].gateway = pool[q].gateway
    BY <1>1
<1>7. OnlyGatewayIsUsed'
    BY <1>4, <1>6 DEF PoolInv, PoolsAreKnown, OnlyGatewayIsUsed
<1>8. ReservationsAreUsable'
    BY <1>4, <1>6 DEF PoolInv, PoolsAreKnown, ReservationsAreUsable, Broadcast
<1> QED
    BY <1>2, <1>3, <1>5, <1>7, <1>8 DEF PoolInv

\* A call goes on, or ends.
LEMMA CallsChange ==
    ASSUME PoolInv, NEW c \in Allocators, NEW v \in Allocation,
           allocator' = [allocator EXCEPT ![c] = v],
           \A p \in v.pool : pool[p].status # "absent" /\ v.used = pool[p].gateway,
           pool' = pool
    PROVE  /\ allocator' \in [Allocators -> Allocation]
           /\ OnlyGatewayIsUsed'
           /\ reservation' \subseteq reservation => PoolInv'
<1>1. /\ allocator' \in [Allocators -> Allocation] /\ allocator'[c] = v
      /\ \A d \in Allocators \ {c} : allocator'[d] = allocator[d]
    BY DEF PoolInv, PoolTypeOK
<1>2. OnlyGatewayIsUsed'
    BY <1>1 DEF PoolInv, OnlyGatewayIsUsed
<1>3. ASSUME reservation' \subseteq reservation PROVE PoolInv'
    <2>1. PoolTypeOK' /\ OneGateway'
        BY <1>1, <1>3 DEF PoolInv, PoolTypeOK, OneGateway
    <2>2. PoolsAreKnown'
        BY <1>1, <1>3 DEF PoolInv, PoolsAreKnown
    <2>3. ReservationsAreUsable'
        BY <1>3 DEF PoolInv, ReservationsAreUsable, Broadcast
    <2> QED
        BY <1>2, <2>1, <2>2, <2>3 DEF PoolInv
<1> QED
    BY <1>1, <1>2, <1>3

LEMMA FindPoolKeeps ==
    ASSUME NEW c \in Allocators, PoolInv, Allocate_FindPool(c) PROVE PoolInv'
<1>1. PICK p \in Existing, id \in ReservationIds :
          /\ allocator' = [allocator EXCEPT ![c] =
                 [Answered("none") EXCEPT !.pc = "usage", !.id = {id}, !.pool = {p},
                                          !.used = pool[p].gateway]]
          /\ UNCHANGED <<pool, reservation>>
    BY DEF Allocate_FindPool
<1>2. p \in Pools /\ pool[p].status = "present" /\ pool[p].gateway \subseteq Offsets
    BY DEF Existing, PoolInv, PoolTypeOK, PoolRow
<1>3. PICK v : v = [Answered("none") EXCEPT !.pc = "usage", !.id = {id}, !.pool = {p},
                                            !.used = pool[p].gateway]
    OBVIOUS
<1>4. v \in Allocation /\ v.pool = {p} /\ v.used = pool[p].gateway
    BY <1>2, <1>3 DEF Answered, Allocation
<1> QED
    BY <1>1, <1>2, <1>3, <1>4, CallsChange

LEMMA UsageKeeps == ASSUME NEW c \in Allocators, PoolInv, PoolUsage(c) PROVE PoolInv'
<1>1. \A r \in reservation : ParseAddr(r.address) = {}
    BY DEF PoolInv, PoolTypeOK, Reservation, ParseAddr
<1>2. UNION {ParseAddr(r.address) :
                 r \in {s \in reservation : s.pool \in allocator[c].pool}} = {}
    BY <1>1
<1>3. PICK v : v = [allocator[c] EXCEPT !.pc = "insert"]
    OBVIOUS
<1>4. allocator \in [Allocators -> Allocation] /\ allocator[c] \in Allocation
    BY DEF PoolInv, PoolTypeOK
<1>5. v \in Allocation /\ v.pool = allocator[c].pool /\ v.used = allocator[c].used
    BY <1>3, <1>4 DEF Allocation
<1>6. allocator' = [allocator EXCEPT ![c] = v]
    <2>1. allocator' = [allocator EXCEPT ![c].pc = "insert", ![c].used = @ \union {}]
        BY <1>2 DEF PoolUsage
    <2> QED
        BY <1>3, <1>4, <2>1 DEF Allocation
<1>7. UNCHANGED <<pool, reservation>>
    BY DEF PoolUsage
<1> QED
    BY <1>5, <1>6, <1>7, CallsChange DEF PoolInv, PoolsAreKnown, OnlyGatewayIsUsed

LEMMA InsertKeepsPool ==
    ASSUME NEW c \in Allocators, PoolInv, InsertReservation(c) PROVE PoolInv'
<1>1. PICK p \in allocator[c].pool, id \in allocator[c].id, o \in Candidates(allocator[c].used) :
          LET address == [offset |-> o, suffix |-> "/32"] IN
          /\ \A q \in Candidates(allocator[c].used) : o <= q
          /\ \A r \in reservation : <<r.pool, r.address>> # <<p, address>>
          /\ reservation' = reservation \union
                 {[id |-> id, pool |-> p, address |-> address]}
    BY DEF InsertReservation
<1>2. PICK row : row = [id |-> id, pool |-> p, address |-> [offset |-> o, suffix |-> "/32"]]
    OBVIOUS
<1>3. reservation' = reservation \union {row}
    BY <1>1, <1>2
<1>4. /\ p \in Pools /\ id \in ReservationIds /\ allocator[c].used \in SUBSET Offsets
      /\ pool[p].status # "absent" /\ allocator[c].used = pool[p].gateway
      /\ \A x, y \in allocator[c].used : x = y
    BY DEF PoolInv, PoolTypeOK, Allocation, PoolsAreKnown, OnlyGatewayIsUsed, OneGateway
<1>5. /\ o \in Offsets /\ o # 0 /\ o \notin pool[p].gateway
      /\ AddressCount > 2 => o # Broadcast
    BY <1>1, <1>4, FirstCandidate
<1>6. row \in Reservation /\ row.pool = p /\ row.address.offset = o
    BY <1>2, <1>4, <1>5 DEF Reservation
<1>7. \A r \in reservation : r.pool = p => r.address.offset # o
    <2> SUFFICES ASSUME NEW r \in reservation, r.pool = p, r.address.offset = o PROVE FALSE
        OBVIOUS
    <2>1. r.address \in [offset: Offsets, suffix: {"/32"}]
        BY DEF PoolInv, PoolTypeOK, Reservation
    <2>2. r.address = [offset |-> o, suffix |-> "/32"]
        BY <2>1
    <2> QED
        BY <1>1, <2>2
<1>8. /\ pool' = pool /\ allocator' = [allocator EXCEPT ![c] = Answered("reserved")]
      /\ Answered("reserved") \in Allocation /\ Answered("reserved").pool = {}
    BY AnsweredIs DEF InsertReservation
<1>9. allocator' \in [Allocators -> Allocation] /\ OnlyGatewayIsUsed'
    BY <1>8, CallsChange
<1>10. PoolTypeOK' /\ OneGateway'
    BY <1>3, <1>6, <1>8, <1>9 DEF PoolInv, PoolTypeOK, OneGateway
<1>11. PoolsAreKnown'
    BY <1>3, <1>4, <1>6, <1>8 DEF PoolInv, PoolTypeOK, PoolsAreKnown
<1>12. ReservationsAreUsable'
    BY <1>3, <1>5, <1>6, <1>7, <1>8 DEF PoolInv, ReservationsAreUsable, Broadcast
<1> QED
    BY <1>9, <1>10, <1>11, <1>12 DEF PoolInv

LEMMA StepKeepsPool == PoolInv /\ [PoolNext]_poolVars => PoolInv'
<1> SUFFICES ASSUME PoolInv, [PoolNext]_poolVars PROVE PoolInv'
    OBVIOUS
<1>1. CASE CreatePool
    <2>1. PICK p \in Pools, gateway \in {{}} \union {{o} : o \in Offsets} :
              /\ pool[p].status = "absent"
              /\ pool' = [pool EXCEPT ![p] = [status |-> "present", gateway |-> gateway]]
              /\ UNCHANGED <<reservation, allocator>>
        BY <1>1 DEF CreatePool
    <2>2. PICK row : row = [status |-> "present", gateway |-> gateway]
        OBVIOUS
    <2>3. row \in PoolRow /\ row.status = "present" /\ \A x, y \in row.gateway : x = y
        BY <2>2 DEF PoolRow
    <2> QED
        BY <2>1, <2>2, <2>3, RowsChange
<1>2. CASE DeletePool
    <2>1. PICK p \in Existing :
              /\ pool' = [pool EXCEPT ![p].status = "deleted"]
              /\ reservation' \in {reservation, {r \in reservation : r.pool # p}}
              /\ UNCHANGED allocator
        BY <1>2 DEF DeletePool
    <2>2. p \in Pools /\ pool \in [Pools -> PoolRow] /\ pool[p] \in PoolRow
        BY DEF Existing, PoolInv, PoolTypeOK
    <2>3. PICK row : row = [pool[p] EXCEPT !.status = "deleted"]
        OBVIOUS
    <2>4. row \in PoolRow /\ row.status = "deleted" /\ row.gateway = pool[p].gateway
        BY <2>2, <2>3 DEF PoolRow
    <2>5. reservation' \subseteq reservation
        BY <2>1
    <2>6. pool' = [pool EXCEPT ![p] = row]
        BY <2>1, <2>2, <2>3 DEF PoolRow
    <2>7. \A x, y \in row.gateway : x = y
        BY <2>2, <2>4 DEF PoolInv, OneGateway
    <2>8. allocator' = allocator /\ row.status # "absent"
        BY <2>1, <2>4
    <2> QED
        BY <2>2, <2>4, <2>5, <2>6, <2>7, <2>8, RowsChange
<1>3. CASE ReleaseReservation \/ UNCHANGED poolVars
    <2>1. pool' = pool /\ allocator' = allocator /\ reservation' \subseteq reservation
        BY <1>3 DEF ReleaseReservation, poolVars
    <2>2. PoolTypeOK' /\ OneGateway' /\ PoolsAreKnown' /\ OnlyGatewayIsUsed'
        BY <2>1 DEF PoolInv, PoolTypeOK, OneGateway, PoolsAreKnown, OnlyGatewayIsUsed
    <2>3. ReservationsAreUsable'
        BY <2>1 DEF PoolInv, ReservationsAreUsable, Broadcast
    <2> QED
        BY <2>2, <2>3 DEF PoolInv
<1>4. ASSUME NEW c \in Allocators, Allocate_FindPool(c) PROVE PoolInv'
    BY <1>4, FindPoolKeeps
<1>5. ASSUME NEW c \in Allocators, PoolUsage(c) PROVE PoolInv'
    BY <1>5, UsageKeeps
<1>6. ASSUME NEW c \in Allocators, InsertReservation(c) PROVE PoolInv'
    BY <1>6, InsertKeepsPool
<1>7. ASSUME NEW c \in Allocators, AllocateFails(c) PROVE PoolInv'
    <2>1. /\ allocator' = [allocator EXCEPT ![c] = Answered("refused")]
          /\ pool' = pool /\ reservation' = reservation
        BY <1>7 DEF AllocateFails
    <2> QED
        BY <2>1, AnsweredIs, CallsChange
<1> QED
    BY <1>1, <1>2, <1>3, <1>4, <1>5, <1>6, <1>7 DEF PoolNext

\* Whoever races for an address, no two reservations of a pool share one, and
\* none is the network's, the broadcast's or the gateway's (AllocateAddress).
THEOREM AddressesAreUsable == PoolSpec => []ReservationsAreUsable
<1>1. PoolInv => ReservationsAreUsable
    BY DEF PoolInv
<1> QED
    BY <1>1, InitPool, StepKeepsPool, PTL DEF PoolSpec

-----------------------------------------------------------------------------
(* The updater.  The status is what keeps the second update out, so it     *)
(* shows the one that runs until somebody checks.                          *)

Calls == {"none", "inspect", "pullBackend", "discover", "pullFrontend",
          "pullHelper", "create", "start", "wait", "restart"}

UpdTypeOK ==
    /\ phase \in Phases
    /\ update \in [Updates -> Calls]
    /\ checked \in BOOLEAN

\* Without a check in between, the status guards one update.
OneRuns ==
    ~checked => \A u \in Running :
        /\ phase \in {"pulling", "restarting"}
        /\ \A v \in Running : v = u

UpdInv == UpdTypeOK /\ OneRuns

\* The only one of a set with one member.
LEMMA OneIsShown == UpdInv => RunningIsShown
<1> SUFFICES ASSUME UpdInv, Running # {}, ~checked
             PROVE  phase \in {"pulling", "restarting"} /\ Cardinality(Running) = 1
    BY DEF RunningIsShown
<1>1. PICK u : u \in Running
    OBVIOUS
<1>2. Running = {u} /\ phase \in {"pulling", "restarting"}
    BY <1>1 DEF UpdInv, OneRuns
<1> QED
    BY <1>2, FS_Singleton

LEMMA InitUpdate == UpdInit => UpdInv
BY DEF UpdInit, UpdInv, UpdTypeOK, OneRuns, Running, Phases, Calls

\* A check that comes while an update runs is remembered; one that ends
\* changes a status only where no update has set it.
LEMMA ChecksKeep ==
    ASSUME NEW k \in Checks, UpdInv, CheckForUpdate(k) \/ CheckForUpdate_Done(k)
    PROVE  UpdInv'
BY DEF CheckForUpdate, CheckForUpdate_Done, UpdInv, UpdTypeOK, OneRuns, Running, Phases

LEMMA StartKeeps == ASSUME NEW u \in Updates, UpdInv, StartUpdate(u) PROVE UpdInv'
<1>1. /\ phase \in {"idle", "failed"} /\ phase' = "pulling"
      /\ update' = [update EXCEPT ![u] = "inspect"]
      /\ checked' = (checked /\ Running # {})
    BY DEF StartUpdate
<1>2. Running' = Running \union {u} /\ update' \in [Updates -> Calls]
    BY <1>1 DEF Running, UpdInv, UpdTypeOK, Calls
<1>3. ~checked => Running = {}
    BY <1>1 DEF UpdInv, OneRuns
<1>4. ~checked' => Running = {}
    BY <1>1, <1>3
<1>5. UpdTypeOK'
    BY <1>1, <1>2 DEF UpdInv, UpdTypeOK, Phases
<1>6. OneRuns'
    BY <1>1, <1>2, <1>4 DEF OneRuns
<1> QED
    BY <1>5, <1>6 DEF UpdInv

LEMMA DockerKeeps == ASSUME NEW u \in Updates, UpdInv, Docker(u) PROVE UpdInv'
<1>1. /\ update[u] \in DOMAIN Follows
      /\ update' = [update EXCEPT ![u] = Follows[update[u]]]
      /\ phase' = IF Follows[update[u]] \in DOMAIN Announced
                  THEN Announced[Follows[update[u]]] ELSE phase
      /\ checked' = checked
    BY DEF Docker
<1>2. DOMAIN Follows = {"inspect", "pullBackend", "discover", "pullFrontend",
                        "pullHelper", "create", "start"}
    BY DEF Follows
<1>3. \A call \in DOMAIN Follows : Follows[call] \in Calls /\ Follows[call] # "none"
    BY DEF Follows, Calls
<1>4. \A call \in DOMAIN Announced : Announced[call] \in {"pulling", "restarting"}
    BY DEF Announced
<1>5. update' \in [Updates -> Calls] /\ Running' = Running
    BY <1>1, <1>2, <1>3 DEF UpdInv, UpdTypeOK, Running
<1>6. phase' = phase \/ phase' \in {"pulling", "restarting"}
    BY <1>1, <1>4
<1>7. UpdTypeOK'
    BY <1>1, <1>5, <1>6 DEF UpdInv, UpdTypeOK, Phases
<1>8. OneRuns'
    BY <1>1, <1>5, <1>6 DEF UpdInv, OneRuns
<1> QED
    BY <1>7, <1>8 DEF UpdInv

\* An update that ends gives the status back, which only it had.
LEMMA EndKeeps ==
    ASSUME NEW u \in Updates, UpdInv, update[u] # "none",
           NEW status \in {"idle", "failed"}, Ends(u, status), checked' = checked
    PROVE  UpdInv'
<1>1. phase' = status /\ update' = [update EXCEPT ![u] = "none"]
    BY DEF Ends
<1>2. u \in Running /\ Running' = Running \ {u} /\ update' \in [Updates -> Calls]
    BY <1>1 DEF Running, UpdInv, UpdTypeOK, Calls
<1>3. UpdTypeOK'
    BY <1>1, <1>2 DEF UpdInv, UpdTypeOK, Phases
<1>4. OneRuns'
    BY <1>2 DEF UpdInv, OneRuns
<1> QED
    BY <1>3, <1>4 DEF UpdInv

LEMMA ReplacedKeeps == ASSUME Replaced PROVE UpdInv'
BY DEF Replaced, UpdInv, UpdTypeOK, OneRuns, Running, Phases, Calls

LEMMA StepKeepsUpdate == UpdInv /\ [UpdNext]_updVars => UpdInv'
<1> SUFFICES ASSUME UpdInv, [UpdNext]_updVars PROVE UpdInv'
    OBVIOUS
<1>1. ASSUME NEW k \in Checks, CheckForUpdate(k) \/ CheckForUpdate_Done(k) PROVE UpdInv'
    BY <1>1, ChecksKeep
<1>2. ASSUME NEW u \in Updates, StartUpdate(u) PROVE UpdInv'
    BY <1>2, StartKeeps
<1>3. ASSUME NEW u \in Updates, Docker(u) PROVE UpdInv'
    BY <1>3, DockerKeeps
<1>4. ASSUME NEW u \in Updates, DockerFails(u) \/ WaitContainer(u) PROVE UpdInv'
    <2>1. /\ update[u] # "none" /\ checked' = checked
          /\ Ends(u, "idle") \/ Ends(u, "failed")
        BY <1>4 DEF DockerFails, WaitContainer
    <2> QED
        BY <2>1, EndKeeps
<1>5. ASSUME NEW u \in Updates, RestartSelf(u) \/ ComposeReplaces(u) PROVE UpdInv'
    BY <1>5, ReplacedKeeps DEF RestartSelf, ComposeReplaces
<1>6. ASSUME NEW u \in Updates, ComposeEnds(u) \/ ComposeBreaks(u) PROVE UpdInv'
    BY <1>6 DEF ComposeEnds, ComposeBreaks, UpdInv, UpdTypeOK, OneRuns, Running
<1>7. CASE UNCHANGED updVars
    BY <1>7 DEF updVars, UpdInv, UpdTypeOK, OneRuns, Running
<1> QED
    BY <1>1, <1>2, <1>3, <1>4, <1>5, <1>6, <1>7 DEF UpdNext

\* While an update runs and nobody has asked for a check, it is shown and is
\* the only one (StartUpdate, runUpdate).
THEOREM UpdatesAreShown == UpdSpec => []RunningIsShown
BY InitUpdate, StepKeepsUpdate, OneIsShown, PTL DEF UpdSpec
================================================================================
