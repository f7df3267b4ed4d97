--------------------------- MODULE LogExport_proofs ---------------------------
(***************************************************************************)
(* What the log export guarantees for every number of sinks, events,       *)
(* emitters and administrators, every queue and every schedule of retries: *)
(* the safety of LogDelivery, that an administrative request that runs     *)
(* alone and succeeds leaves Emit routing by the tables, and that the      *)
(* counters of a sink never claim what has not happened.                   *)
(***************************************************************************)
EXTENDS LogExport, SequenceTheorems, FiniteSetTheorems, TLAPS

USE LogAssumption

-----------------------------------------------------------------------------
(* Administrative requests.  A plan reloads after every statement that     *)
(* writes what is cached, so while one request runs alone and the cache is *)
(* behind, a reload is still to come; and what this reload has read so far *)
(* is what the tables say.                                                 *)

Calls  == {"UpsertSink", "EnsureStatus", "DeleteSink", "DeleteStatus", "FilterRoutes",
           "ValidateRoutes", "UpsertRoutes", "ListSinks", "LoadRoutes", "LoadConfig",
           "ListStatuses", "LoadStatuses"}
Writes == {"UpsertSink", "DeleteSink", "UpsertRoutes"}

IsConfig(c) == c = [sinks |-> c.sinks, enabled |-> c.enabled, routes |-> c.routes]

IsEditor(e) == e = [plan |-> e.plan, sink |-> e.sink, on |-> e.on, routes |-> e.routes,
                    config |-> e.config, read |-> e.read]

WillLoad(plan) == \E j \in DOMAIN plan : plan[j] = "LoadConfig"

\* The statements of a reload come one after the other.
LoadsInOrder(plan) ==
    \A i \in DOMAIN plan : i > 1 =>
        /\ plan[i] = "LoadConfig" => plan[i - 1] = "LoadRoutes"
        /\ plan[i] = "LoadRoutes" => plan[i - 1] = "ListSinks"

PlanReloads(plan) ==
    /\ plan \in Seq(Calls)
    /\ LoadsInOrder(plan)
    /\ \A i \in DOMAIN plan : plan[i] \in Writes =>
           \E j \in DOMAIN plan : i < j /\ plan[j] = "LoadConfig"

\* What a request that runs alone knows of the tables.
Follows(e) ==
    /\ cache = table \/ WillLoad(e.plan)
    /\ Head(e.plan) = "LoadRoutes" => e.config = [table EXCEPT !.routes = {}]
    /\ Head(e.plan) = "LoadConfig" => e.config = table

EditorInv ==
    /\ IsConfig(table)
    /\ DOMAIN editor = Admins /\ editor = [d \in Admins |-> editor[d]]
    /\ \A d \in Admins : IsEditor(editor[d]) /\ PlanReloads(editor[d].plan)
    /\ calm => \A d \in Admins : editor[d].plan # <<>> =>
           /\ \A a \in Admins : a # d => editor[a].plan = <<>>
           /\ Follows(editor[d])
    /\ CacheFollowsTables

LEMMA NoEditIs == IsEditor(NoEdit) /\ NoEdit.plan = <<>>
BY DEF IsEditor, NoEdit

LEMMA EmptyPlanReloads == PlanReloads(<<>>)
BY DEF PlanReloads, LoadsInOrder

LEMMA ReloadIs ==
    /\ Reload \in Seq(Calls)
    /\ Len(Reload) = 5
    /\ Reload[1] = "ListSinks" /\ Reload[2] = "LoadRoutes" /\ Reload[3] = "LoadConfig"
    /\ Reload[4] = "ListStatuses" /\ Reload[5] = "LoadStatuses"
<1>1. Reload \in Seq(Calls)
    BY DEF Reload, Calls
<1>2. Len(Reload) = 5
    BY DEF Reload
<1>3. /\ Reload[1] = "ListSinks" /\ Reload[2] = "LoadRoutes" /\ Reload[3] = "LoadConfig"
      /\ Reload[4] = "ListStatuses" /\ Reload[5] = "LoadStatuses"
    BY DEF Reload
<1> QED
    BY <1>1, <1>2, <1>3

LEMMA InOrderTogether ==
    ASSUME NEW s \in Seq(Calls), NEW t \in Seq(Calls), LoadsInOrder(s), LoadsInOrder(t),
           t # <<>>, t[1] \notin {"LoadRoutes", "LoadConfig"}
    PROVE  /\ s \o t \in Seq(Calls) /\ s \o t # <<>> /\ LoadsInOrder(s \o t)
           /\ s # <<>> => (s \o t)[1] = s[1]
<1> DEFINE p == s \o t
           n == Len(s)
           k == Len(t)
<1>1. /\ n \in Nat /\ k \in Nat \ {0} /\ DOMAIN s = 1..n /\ DOMAIN t = 1..k
      /\ s # <<>> => n # 0
    OBVIOUS
<1>2. /\ p \in Seq(Calls) /\ Len(p) = n + k
      /\ \A i \in 1 .. n + k : p[i] = IF i <= n THEN s[i] ELSE t[i - n]
    BY ConcatProperties
<1>3. DOMAIN p = 1 .. n + k
    BY <1>2
<1> HIDE DEF p, n, k
<1>4. p # <<>> /\ (s # <<>> => p[1] = s[1])
    <2>1. 1 \in 1 .. n + k
        BY <1>1
    <2>2. s # <<>> => 1 <= n
        BY <1>1
    <2> QED
        BY <1>2, <1>3, <2>1, <2>2
<1>5. LoadsInOrder(p)
    <2> SUFFICES ASSUME NEW i \in DOMAIN p, i > 1
                 PROVE  /\ p[i] = "LoadConfig" => p[i - 1] = "LoadRoutes"
                        /\ p[i] = "LoadRoutes" => p[i - 1] = "ListSinks"
        BY DEF LoadsInOrder
    <2>1. i \in 1 .. n + k /\ i - 1 \in 1 .. n + k
        BY <1>1, <1>3
    <2>2. CASE i <= n
        <3>1. i \in DOMAIN s /\ p[i] = s[i] /\ p[i - 1] = s[i - 1]
            BY <1>1, <1>2, <2>1, <2>2
        <3> QED
            BY <3>1 DEF LoadsInOrder
    <2>3. CASE i = n + 1
        <3>1. ~(i <= n) /\ i - n = 1
            BY <1>1, <2>3
        <3>2. p[i] = t[1]
            BY <1>2, <2>1, <3>1
        <3> QED
            BY <3>2
    <2>4. CASE i > n + 1
        <3>1. /\ ~(i <= n) /\ ~(i - 1 <= n) /\ i - n \in DOMAIN t /\ i - n > 1
              /\ (i - 1) - n = (i - n) - 1
            BY <1>1, <2>1, <2>4
        <3>2. p[i] = t[i - n] /\ p[i - 1] = t[(i - n) - 1]
            BY <1>2, <2>1, <3>1
        <3> QED
            BY <3>1, <3>2 DEF LoadsInOrder
    <2> QED
        BY <1>1, <2>1, <2>2, <2>3, <2>4
<1> QED
    BY <1>2, <1>4, <1>5 DEF p

\* A plan that ends with a reload loads whatever it writes.
LEMMA ReloadAtTheEnd ==
    ASSUME NEW s \in Seq(Calls), LoadsInOrder(s)
    PROVE  /\ PlanReloads(s \o Reload) /\ WillLoad(s \o Reload) /\ s \o Reload # <<>>
           /\ s # <<>> => Head(s \o Reload) = s[1]
<1> DEFINE p == s \o Reload
           n == Len(s)
<1>1. LoadsInOrder(Reload) /\ Reload # <<>> /\ Reload[1] \notin {"LoadRoutes", "LoadConfig"}
    <2>1. DOMAIN Reload = 1..5
        BY ReloadIs
    <2> QED
        BY <2>1, ReloadIs DEF LoadsInOrder
<1>2. p \in Seq(Calls) /\ p # <<>> /\ LoadsInOrder(p) /\ (s # <<>> => p[1] = s[1])
    BY <1>1, ReloadIs, InOrderTogether
<1>3. /\ n \in Nat /\ Len(p) = n + 5
      /\ p[n + 3] = "LoadConfig" /\ p[n + 4] = "ListStatuses" /\ p[n + 5] = "LoadStatuses"
    <2>1. /\ p \in Seq(Calls) /\ Len(p) = n + Len(Reload)
          /\ \A i \in 1 .. n + Len(Reload) :
                 p[i] = IF i <= n THEN s[i] ELSE Reload[i - n]
        BY ReloadIs, ConcatProperties
    <2>2. n \in Nat
        OBVIOUS
    <2> HIDE DEF p, n
    <2>3. \A i \in 1..5 : p[n + i] = Reload[i]
        BY <2>1, <2>2, ReloadIs
    <2> QED
        BY <2>1, <2>2, <2>3, ReloadIs
<1> HIDE DEF p, n
<1>4. DOMAIN p = 1 .. n + 5 /\ n + 3 \in DOMAIN p /\ Head(p) = p[1]
    BY <1>2, <1>3
<1>5. ASSUME NEW i \in DOMAIN p, p[i] \in Writes
      PROVE  i < n + 3
    <2>1. i < n + 3 \/ i = n + 3 \/ i = n + 4 \/ i = n + 5
        BY <1>3, <1>4
    <2> QED
        BY <1>3, <1>5, <2>1 DEF Writes
<1>6. PlanReloads(p) /\ WillLoad(p)
    BY <1>2, <1>3, <1>4, <1>5 DEF PlanReloads, WillLoad
<1> QED
    BY <1>2, <1>4, <1>6 DEF p

LEMMA PlansReload ==
    ASSUME NEW plan \in {CreatePlan, UpdatePlan, RoutesPlan, DeletePlan}
    PROVE  PlanReloads(plan) /\ WillLoad(plan) /\ plan # <<>> /\ Head(plan) \in Writes
<1>1. ASSUME NEW s \in {<<"UpsertSink", "EnsureStatus">>, <<"UpsertSink">>, <<"UpsertRoutes">>,
                        <<"DeleteSink", "DeleteStatus", "FilterRoutes", "ValidateRoutes">>}
      PROVE  s \in Seq(Calls) /\ s # <<>> /\ s[1] \in Writes /\ LoadsInOrder(s)
    <2>1. s \in Seq(Calls) /\ s # <<>>
        <3>1. CASE s = <<"UpsertSink", "EnsureStatus">>
            BY <3>1 DEF Calls
        <3>2. CASE s = <<"UpsertSink">>
            BY <3>2 DEF Calls
        <3>3. CASE s = <<"UpsertRoutes">>
            BY <3>3 DEF Calls
        <3>4. CASE s = <<"DeleteSink", "DeleteStatus", "FilterRoutes", "ValidateRoutes">>
            BY <3>4 DEF Calls
        <3> QED
            BY <1>1, <3>1, <3>2, <3>3, <3>4
    <2>2. s[1] \in Writes
        BY <1>1 DEF Writes
    <2>3. \A i \in DOMAIN s : s[i] \notin {"LoadConfig", "LoadRoutes"}
        <3>1. CASE s = <<"UpsertSink", "EnsureStatus">>
            BY <3>1
        <3>2. CASE s \in {<<"UpsertSink">>, <<"UpsertRoutes">>}
            BY <3>2
        <3>3. CASE s = <<"DeleteSink", "DeleteStatus", "FilterRoutes", "ValidateRoutes">>
            BY <3>3
        <3> QED
            BY <1>1, <3>1, <3>2, <3>3
    <2>4. LoadsInOrder(s)
        BY <2>3 DEF LoadsInOrder
    <2> QED
        BY <2>1, <2>2, <2>4
<1>2. CASE plan = CreatePlan
    BY <1>1, <1>2, ReloadAtTheEnd DEF CreatePlan
<1>3. CASE plan = UpdatePlan
    BY <1>1, <1>3, ReloadAtTheEnd DEF UpdatePlan
<1>4. CASE plan = RoutesPlan
    BY <1>1, <1>4, ReloadAtTheEnd DEF RoutesPlan
<1>5. CASE plan = DeletePlan
    <2>1. PICK a : a = <<"DeleteSink", "DeleteStatus", "FilterRoutes", "ValidateRoutes">>
        OBVIOUS
    <2>2. a \in Seq(Calls) /\ a # <<>> /\ a[1] \in Writes /\ LoadsInOrder(a)
        BY <1>1, <2>1
    <2>3. /\ RoutesPlan \in Seq(Calls) /\ LoadsInOrder(RoutesPlan) /\ RoutesPlan # <<>>
          /\ RoutesPlan[1] \notin {"LoadRoutes", "LoadConfig"}
        <3>1. /\ PlanReloads(RoutesPlan) /\ RoutesPlan # <<>>
              /\ Head(RoutesPlan) = <<"UpsertRoutes">>[1]
            BY <1>1, ReloadAtTheEnd DEF RoutesPlan
        <3>2. RoutesPlan \in Seq(Calls) /\ LoadsInOrder(RoutesPlan)
            BY <3>1 DEF PlanReloads
        <3>3. Head(RoutesPlan) = RoutesPlan[1]
            BY <3>1, <3>2
        <3> QED
            BY <3>1, <3>2, <3>3
    <2>4. /\ a \o RoutesPlan \in Seq(Calls) /\ a \o RoutesPlan # <<>>
          /\ LoadsInOrder(a \o RoutesPlan) /\ (a \o RoutesPlan)[1] = a[1]
        BY <2>2, <2>3, InOrderTogether
    <2>5. plan = (a \o RoutesPlan) \o Reload
        BY <1>5, <2>1 DEF DeletePlan
    <2> QED
        BY <2>2, <2>4, <2>5, ReloadAtTheEnd
<1> QED
    BY <1>2, <1>3, <1>4, <1>5

\* What is left of a plan still loads whatever it writes.
LEMMA RestReloads ==
    ASSUME NEW plan, PlanReloads(plan), plan # <<>>
    PROVE  /\ PlanReloads(Tail(plan))
           /\ Head(plan) \in Writes => Tail(plan) # <<>> /\ WillLoad(Tail(plan))
           /\ WillLoad(plan) /\ Head(plan) # "LoadConfig" =>
                  Tail(plan) # <<>> /\ WillLoad(Tail(plan))
           /\ Tail(plan) # <<>> =>
                  /\ Head(Tail(plan)) = "LoadConfig" => Head(plan) = "LoadRoutes"
                  /\ Head(Tail(plan)) = "LoadRoutes" => Head(plan) = "ListSinks"
           /\ Len(plan) = 1 <=> Tail(plan) = <<>>
<1> DEFINE rest == Tail(plan)
<1>1. /\ plan \in Seq(Calls) /\ Len(plan) \in Nat \ {0} /\ DOMAIN plan = 1..Len(plan)
      /\ rest \in Seq(Calls) /\ Len(rest) = Len(plan) - 1 /\ DOMAIN rest = 1..Len(rest)
      /\ \A i \in 1..Len(rest) : rest[i] = plan[i + 1]
      /\ Head(plan) = plan[1]
    BY DEF PlanReloads
<1> HIDE DEF rest
<1>2. ASSUME NEW j \in DOMAIN plan, 1 < j, plan[j] = "LoadConfig"
      PROVE  j - 1 \in DOMAIN rest /\ rest[j - 1] = "LoadConfig"
    BY <1>1, <1>2
<1>3. LoadsInOrder(plan)
    BY DEF PlanReloads
<1>4. LoadsInOrder(rest)
    <2> SUFFICES ASSUME NEW i \in DOMAIN rest, i > 1
                 PROVE  /\ rest[i] = "LoadConfig" => rest[i - 1] = "LoadRoutes"
                        /\ rest[i] = "LoadRoutes" => rest[i - 1] = "ListSinks"
        BY DEF LoadsInOrder
    <2>1. i + 1 \in DOMAIN plan /\ i + 1 > 1 /\ (i + 1) - 1 = i
        BY <1>1
    <2>2. rest[i] = plan[i + 1] /\ rest[i - 1] = plan[i]
        BY <1>1
    <2> QED
        BY <1>3, <2>1, <2>2 DEF LoadsInOrder
<1>5. PlanReloads(rest)
    <2> SUFFICES ASSUME NEW i \in DOMAIN rest, rest[i] \in Writes
                 PROVE  \E j \in DOMAIN rest : i < j /\ rest[j] = "LoadConfig"
        BY <1>1, <1>4 DEF PlanReloads
    <2>1. i + 1 \in DOMAIN plan /\ plan[i + 1] \in Writes
        BY <1>1
    <2>2. PICK j \in DOMAIN plan : i + 1 < j /\ plan[j] = "LoadConfig"
        BY <2>1 DEF PlanReloads
    <2>3. 1 < j /\ i < j - 1
        BY <1>1, <2>2
    <2> QED
        BY <1>2, <2>2, <2>3
<1>6. WillLoad(rest) => rest # <<>>
    BY <1>1 DEF WillLoad
<1>7. Head(plan) \in Writes => WillLoad(rest)
    <2> SUFFICES ASSUME plan[1] \in Writes PROVE WillLoad(rest)
        BY <1>1
    <2>1. 1 \in DOMAIN plan
        BY <1>1
    <2>2. PICK j \in DOMAIN plan : 1 < j /\ plan[j] = "LoadConfig"
        BY <2>1 DEF PlanReloads
    <2> QED
        BY <1>2, <2>2 DEF WillLoad
<1>8. WillLoad(plan) /\ Head(plan) # "LoadConfig" => WillLoad(rest)
    <2> SUFFICES ASSUME WillLoad(plan), plan[1] # "LoadConfig" PROVE WillLoad(rest)
        BY <1>1
    <2>1. PICK j \in DOMAIN plan : plan[j] = "LoadConfig"
        BY DEF WillLoad
    <2>2. 1 < j
        BY <1>1, <2>1
    <2> QED
        BY <1>2, <2>1, <2>2 DEF WillLoad
<1>9. ASSUME rest # <<>>
      PROVE  /\ Head(rest) = "LoadConfig" => Head(plan) = "LoadRoutes"
             /\ Head(rest) = "LoadRoutes" => Head(plan) = "ListSinks"
    <2>1. Head(rest) = rest[1] /\ rest[1] = plan[2] /\ 2 \in DOMAIN plan
        BY <1>1, <1>9
    <2>2. /\ plan[2] = "LoadConfig" => plan[2 - 1] = "LoadRoutes"
          /\ plan[2] = "LoadRoutes" => plan[2 - 1] = "ListSinks"
        BY <1>3, <2>1 DEF LoadsInOrder
    <2> QED
        BY <1>1, <2>1, <2>2
<1>10. Len(plan) = 1 <=> rest = <<>>
    BY <1>1
<1> QED
    BY <1>5, <1>6, <1>7, <1>8, <1>9, <1>10 DEF rest

LEMMA AdvanceIs ==
    ASSUME EditorInv, NEW d \in Admins, editor[d].plan # <<>>
    PROVE  /\ IsEditor(Advance(d))
           /\ Advance(d).plan = Tail(editor[d].plan)
           /\ Tail(editor[d].plan) # <<>> => Advance(d) = [editor[d] EXCEPT !.plan = Tail(@)]
<1>1. Len(editor[d].plan) = 1 <=> Tail(editor[d].plan) = <<>>
    BY RestReloads DEF EditorInv
<1>2. CASE Len(editor[d].plan) = 1
    BY <1>1, <1>2, NoEditIs DEF Advance
<1>3. CASE Len(editor[d].plan) # 1
    <2>1. PICK e : e = [editor[d] EXCEPT !.plan = Tail(@)]
        OBVIOUS
    <2>2. IsEditor(editor[d])
        BY DEF EditorInv
    <2>3. IsEditor(e) /\ e.plan = Tail(editor[d].plan)
        BY <2>1, <2>2 DEF IsEditor
    <2> QED
        BY <1>1, <1>3, <2>1, <2>3 DEF Advance
<1> QED
    BY <1>2, <1>3

LEMMA NothingLoads == ~WillLoad(<<>>)
BY DEF WillLoad

\* What an administrator's step makes of the requests.
LEMMA EditIs ==
    ASSUME EditorInv, NEW d \in Admins, NEW e, editor' = [editor EXCEPT ![d] = e]
    PROVE  /\ DOMAIN editor' = Admins /\ editor' = [a \in Admins |-> editor'[a]]
           /\ editor'[d] = e
           /\ \A a \in Admins : a # d => editor'[a] = editor[a]
BY DEF EditorInv

\* A statement of a plan goes on to the rest.
LEMMA StatementKeeps ==
    ASSUME EditorInv, NEW d \in Admins, editor[d].plan # <<>>, NEW e, IsEditor(e),
           Edits(d, e), e.plan = Tail(editor[d].plan), IsConfig(table'),
           calm => cache' = table' \/ WillLoad(e.plan),
           calm /\ Head(editor[d].plan) = "ListSinks" /\ e.plan # <<>> =>
               e.config = [table' EXCEPT !.routes = {}],
           calm /\ Head(editor[d].plan) = "LoadRoutes" /\ e.plan # <<>> =>
               e.config = table'
    PROVE  EditorInv'
<1>1. /\ PlanReloads(e.plan)
      /\ e.plan # <<>> =>
             /\ Head(e.plan) = "LoadConfig" => Head(editor[d].plan) = "LoadRoutes"
             /\ Head(e.plan) = "LoadRoutes" => Head(editor[d].plan) = "ListSinks"
    BY RestReloads DEF EditorInv
<1>2. /\ DOMAIN editor' = Admins /\ editor' = [a \in Admins |-> editor'[a]]
      /\ editor'[d] = e /\ calm' = calm
      /\ \A a \in Admins : a # d => editor'[a] = editor[a]
    BY EditIs DEF Edits
<1>3. \A a \in Admins : IsEditor(editor'[a]) /\ PlanReloads(editor'[a].plan)
    BY <1>1, <1>2 DEF EditorInv
<1>4. calm => \A a \in Admins : a # d => editor[a].plan = <<>>
    BY DEF EditorInv
<1>5. ASSUME calm, NEW b \in Admins, editor'[b].plan # <<>>
      PROVE  /\ \A a \in Admins : a # b => editor'[a].plan = <<>>
             /\ Follows(editor[b])'
    <2>1. b = d /\ \A a \in Admins : a # d => editor'[a].plan = <<>>
        BY <1>2, <1>4, <1>5
    <2>2. Follows(e)'
        BY <1>1, <1>2, <1>5, <2>1 DEF Follows
    <2> QED
        BY <1>2, <2>1, <2>2 DEF Follows
<1>6. CacheFollowsTables'
    <2> SUFFICES ASSUME calm', NoEdits' PROVE cache' = table'
        BY DEF CacheFollowsTables
    <2>1. e.plan = <<>>
        BY <1>2 DEF NoEdits
    <2>2. ~WillLoad(e.plan)
        BY <2>1, NothingLoads
    <2> QED
        BY <1>2, <2>2
<1> QED
    BY <1>2, <1>3, <1>5, <1>6 DEF EditorInv

\* One that writes no table and loads nothing.
LEMMA PlainStatementKeeps ==
    ASSUME EditorInv, NEW d \in Admins, editor[d].plan # <<>>, NEW e, IsEditor(e),
           Edits(d, e), e.plan = Tail(editor[d].plan), UNCHANGED <<cache, table>>,
           Head(editor[d].plan) \notin {"ListSinks", "LoadRoutes", "LoadConfig"}
    PROVE  EditorInv'
<1>1. WillLoad(editor[d].plan) => WillLoad(e.plan)
    BY RestReloads DEF EditorInv
<1>2. calm => cache = table \/ WillLoad(editor[d].plan)
    BY DEF EditorInv, Follows
<1>3. IsConfig(table')
    BY DEF EditorInv
<1> QED
    BY <1>1, <1>2, <1>3, StatementKeeps

\* One that writes a table.
LEMMA WriteKeeps ==
    ASSUME EditorInv, NEW d \in Admins, editor[d].plan # <<>>, Advanced(d),
           Head(editor[d].plan) \in Writes, IsConfig(table')
    PROVE  EditorInv'
<1>1. PICK e : e = Advance(d)
    OBVIOUS
<1>2. IsEditor(e) /\ Edits(d, e) /\ e.plan = Tail(editor[d].plan)
    BY <1>1, AdvanceIs DEF Advanced
<1>3. WillLoad(e.plan)
    BY <1>2, RestReloads DEF EditorInv
<1> QED
    BY <1>2, <1>3, StatementKeeps DEF Writes

LEMMA InitEditor == LogInit => EditorInv
<1> SUFFICES ASSUME LogInit PROVE EditorInv
    OBVIOUS
<1>1. PICK S \in SUBSET Sinks : table = [sinks |-> S, enabled |-> S, routes |-> S]
    BY DEF LogInit
<1>2. IsConfig(table)
    BY <1>1 DEF IsConfig
<1>3. editor = [d \in Admins |-> NoEdit] /\ cache = table
    BY DEF LogInit
<1> QED
    BY <1>2, <1>3, NoEditIs, EmptyPlanReloads DEF EditorInv, CacheFollowsTables

\* A request begins.
LEMMA StartKeeps ==
    ASSUME EditorInv, NEW d \in Admins, NEW plan \in {CreatePlan, UpdatePlan, RoutesPlan, DeletePlan},
           NEW s, NEW on, NEW routes, StartEdit(d, plan, s, on, routes)
    PROVE  EditorInv'
<1>1. PICK e : e = [plan |-> plan, sink |-> s, on |-> on, routes |-> routes,
                    config |-> NoConfig, read |-> <<>>]
    OBVIOUS
<1>2. IsEditor(e) /\ e.plan = plan
    BY <1>1 DEF IsEditor
<1>3. editor' = [editor EXCEPT ![d] = e] /\ calm' = NoEdits /\ UNCHANGED <<table, cache>>
    BY <1>1 DEF StartEdit
<1>4. /\ DOMAIN editor' = Admins /\ editor' = [a \in Admins |-> editor'[a]] /\ editor'[d] = e
      /\ \A a \in Admins : a # d => editor'[a] = editor[a]
    BY <1>3, EditIs
<1>5. PlanReloads(plan) /\ WillLoad(plan) /\ plan # <<>> /\ Head(plan) \in Writes
    BY PlansReload
<1>6. \A a \in Admins : IsEditor(editor'[a]) /\ PlanReloads(editor'[a].plan)
    BY <1>2, <1>4, <1>5 DEF EditorInv
<1>7. Follows(e)'
    BY <1>2, <1>5 DEF Follows, Writes
<1>8. ASSUME calm', NEW b \in Admins, editor'[b].plan # <<>>
      PROVE  /\ \A a \in Admins : a # b => editor'[a].plan = <<>>
             /\ Follows(editor[b])'
    <2>1. b = d
        BY <1>3, <1>4, <1>8 DEF NoEdits
    <2> QED
        BY <1>3, <1>4, <1>7, <1>8, <2>1 DEF NoEdits, Follows
<1>9. CacheFollowsTables'
    BY <1>2, <1>4, <1>5 DEF CacheFollowsTables, NoEdits
<1> QED
    BY <1>3, <1>4, <1>6, <1>8, <1>9 DEF EditorInv

\* A request ends with an error.
LEMMA FailureKeeps ==
    ASSUME EditorInv, NEW d \in Admins, Fails(d), UNCHANGED <<cache, table>>
    PROVE  EditorInv'
<1>1. editor' = [editor EXCEPT ![d] = NoEdit] /\ calm' = FALSE
    BY DEF Fails
<1>2. /\ DOMAIN editor' = Admins /\ editor' = [a \in Admins |-> editor'[a]]
      /\ editor'[d] = NoEdit
      /\ \A a \in Admins : a # d => editor'[a] = editor[a]
    BY <1>1, EditIs
<1>3. \A a \in Admins : IsEditor(editor'[a]) /\ PlanReloads(editor'[a].plan)
    BY <1>2, NoEditIs, EmptyPlanReloads DEF EditorInv
<1> QED
    BY <1>1, <1>2, <1>3 DEF EditorInv, CacheFollowsTables

LEMMA EditorKeeps == ASSUME EditorInv, NEW d \in Admins, EditorNext(d) PROVE EditorInv'
<1>1. CASE CreateSink(d)
    BY <1>1, StartKeeps DEF CreateSink
<1>2. CASE UpdateSink(d)
    BY <1>2, StartKeeps DEF UpdateSink
<1>3. CASE DeleteSink(d)
    BY <1>3, StartKeeps DEF DeleteSink
<1>4. CASE UpdateRoutes(d)
    BY <1>4, StartKeeps DEF UpdateRoutes
<1>5. CASE UpsertSink(d) \/ DeleteSinkRow(d) \/ UpsertRoutes(d)
    <2>1. /\ editor[d].plan # <<>> /\ Advanced(d)
          /\ Head(editor[d].plan) \in {"UpsertSink", "DeleteSink", "UpsertRoutes"}
        BY <1>5 DEF UpsertSink, DeleteSinkRow, UpsertRoutes, Doing
    <2>2. IsConfig(table)
        BY DEF EditorInv
    <2>3. IsConfig(table')
        <3>1. CASE UpsertSink(d)
            <4>1. \E x : table' = [table EXCEPT !.sinks = @ \union editor[d].sink, !.enabled = x]
                BY <3>1 DEF UpsertSink
            <4> QED
                BY <2>2, <4>1 DEF IsConfig
        <3>2. CASE DeleteSinkRow(d)
            BY <2>2, <3>2 DEF DeleteSinkRow, IsConfig
        <3>3. CASE UpsertRoutes(d)
            BY <2>2, <3>3 DEF UpsertRoutes, IsConfig
        <3> QED
            BY <1>5, <3>1, <3>2, <3>3
    <2> QED
        BY <2>1, <2>3, WriteKeeps DEF Writes
<1>6. CASE EnsureStatus(d) \/ DeleteStatus(d) \/ LoadStatuses(d)
    <2>1. /\ editor[d].plan # <<>> /\ Edits(d, Advance(d))
          /\ Head(editor[d].plan) \in {"EnsureStatus", "DeleteStatus", "LoadStatuses"}
          /\ UNCHANGED <<cache, table>>
        BY <1>6 DEF EnsureStatus, DeleteStatus, LoadStatuses, Doing, Advanced
    <2> QED
        BY <2>1, AdvanceIs, PlainStatementKeeps
<1>7. CASE FilterRoutes(d)
    <2>1. /\ editor[d].plan # <<>> /\ Head(editor[d].plan) = "FilterRoutes"
          /\ UNCHANGED <<cache, table>>
        BY <1>7 DEF FilterRoutes, Doing
    <2>2. PICK a : a = Advance(d)
        OBVIOUS
    <2>3. PICK e : e = [a EXCEPT !.routes = cache.routes \ editor[d].sink]
        OBVIOUS
    <2>4. Edits(d, e)
        BY <1>7, <2>2, <2>3 DEF FilterRoutes
    <2>5. IsEditor(a) /\ a.plan = Tail(editor[d].plan)
        BY <2>1, <2>2, AdvanceIs
    <2>6. IsEditor(e) /\ e.plan = Tail(editor[d].plan)
        BY <2>3, <2>5 DEF IsEditor
    <2> QED
        BY <2>1, <2>4, <2>6, PlainStatementKeeps
<1>8. CASE ValidateRoutes(d)
    <2>1. /\ editor[d].plan # <<>> /\ Head(editor[d].plan) = "ValidateRoutes"
          /\ UNCHANGED <<cache, table>>
          /\ Edits(d, Advance(d)) \/ Fails(d)
        BY <1>8 DEF ValidateRoutes, Doing, Advanced
    <2> QED
        BY <2>1, AdvanceIs, PlainStatementKeeps, FailureKeeps
<1>9. CASE ListSinks(d)
    <2>1. /\ editor[d].plan # <<>> /\ Head(editor[d].plan) = "ListSinks"
          /\ UNCHANGED <<cache, table>>
        BY <1>9 DEF ListSinks, Doing
    <2>2. PICK a : a = Advance(d)
        OBVIOUS
    <2>3. PICK c : c = [table EXCEPT !.routes = {}]
        OBVIOUS
    <2>4. PICK e : e = [a EXCEPT !.config = c]
        OBVIOUS
    <2>5. Edits(d, e)
        BY <1>9, <2>2, <2>3, <2>4 DEF ListSinks
    <2>6. IsEditor(a) /\ a.plan = Tail(editor[d].plan)
        BY <2>1, <2>2, AdvanceIs
    <2>7. IsEditor(e) /\ e.plan = Tail(editor[d].plan) /\ e.config = c
        BY <2>4, <2>6 DEF IsEditor
    <2>8. calm => cache' = table' \/ WillLoad(e.plan)
        BY <2>1, <2>7, RestReloads DEF EditorInv, Follows
    <2>9. c = [table' EXCEPT !.routes = {}] /\ IsConfig(table')
        BY <2>1, <2>3 DEF EditorInv
    <2> QED
        BY <2>1, <2>5, <2>7, <2>8, <2>9, StatementKeeps
<1>10. CASE LoadRoutes(d)
    <2>1. /\ editor[d].plan # <<>> /\ Head(editor[d].plan) = "LoadRoutes"
          /\ UNCHANGED <<cache, table>>
        BY <1>10 DEF LoadRoutes, Doing
    <2>2. PICK a : a = Advance(d)
        OBVIOUS
    <2>3. PICK c : c = [a.config EXCEPT !.routes = table.routes]
        OBVIOUS
    <2>4. PICK e : e = [a EXCEPT !.config = c]
        OBVIOUS
    <2>5. IsEditor(a) /\ a.plan = Tail(editor[d].plan)
        BY <2>1, <2>2, AdvanceIs
    <2>6. Edits(d, e)
        <3>1. [a EXCEPT !.config = [@ EXCEPT !.routes = table.routes]] = e
            BY <2>3, <2>4, <2>5 DEF IsEditor
        <3> QED
            BY <1>10, <2>2, <3>1 DEF LoadRoutes
    <2>7. IsEditor(e) /\ e.plan = Tail(editor[d].plan) /\ e.config = c
        BY <2>4, <2>5 DEF IsEditor
    <2>8. calm => cache' = table' \/ WillLoad(e.plan)
        BY <2>1, <2>7, RestReloads DEF EditorInv, Follows
    <2>9. calm /\ e.plan # <<>> => c = table
        <3> SUFFICES ASSUME calm, e.plan # <<>> PROVE c = table
            OBVIOUS
        <3>1. editor[d].config = [table EXCEPT !.routes = {}]
            BY <2>1 DEF EditorInv, Follows
        <3>2. a = [editor[d] EXCEPT !.plan = Tail(@)]
            BY <2>1, <2>2, <2>7, AdvanceIs
        <3>3. a.config = editor[d].config
            BY <3>2 DEF EditorInv, IsEditor
        <3>4. c = [[table EXCEPT !.routes = {}] EXCEPT !.routes = table.routes]
            BY <2>3, <3>1, <3>3
        <3>5. IsConfig(table)
            BY DEF EditorInv
        <3> QED
            BY <3>4, <3>5 DEF IsConfig
    <2>10. IsConfig(table') /\ table' = table
        BY <2>1 DEF EditorInv
    <2> QED
        BY <2>1, <2>6, <2>7, <2>8, <2>9, <2>10, StatementKeeps
<1>11. CASE LoadConfig(d)
    <2>1. /\ editor[d].plan # <<>> /\ Head(editor[d].plan) = "LoadConfig"
          /\ cache' = editor[d].config /\ table' = table
        BY <1>11 DEF LoadConfig, Doing
    <2>2. PICK e : e = Advance(d)
        OBVIOUS
    <2>3. Edits(d, e) /\ IsEditor(e) /\ e.plan = Tail(editor[d].plan)
        BY <1>11, <2>1, <2>2, AdvanceIs DEF LoadConfig, Advanced
    <2>4. calm => cache' = table'
        BY <2>1 DEF EditorInv, Follows
    <2>5. IsConfig(table')
        BY <2>1 DEF EditorInv
    <2> QED
        BY <2>1, <2>3, <2>4, <2>5, StatementKeeps
<1>12. CASE ListStatuses(d)
    <2>1. /\ editor[d].plan # <<>> /\ Head(editor[d].plan) = "ListStatuses"
          /\ UNCHANGED <<cache, table>>
        BY <1>12 DEF ListStatuses, Doing
    <2>2. PICK a : a = Advance(d)
        OBVIOUS
    <2>3. PICK e : e = [a EXCEPT !.read = statusRows]
        OBVIOUS
    <2>4. Edits(d, e)
        BY <1>12, <2>2, <2>3 DEF ListStatuses
    <2>5. IsEditor(a) /\ a.plan = Tail(editor[d].plan)
        BY <2>1, <2>2, AdvanceIs
    <2>6. IsEditor(e) /\ e.plan = Tail(editor[d].plan)
        BY <2>3, <2>5 DEF IsEditor
    <2> QED
        BY <2>1, <2>4, <2>6, PlainStatementKeeps
<1>13. CASE EditFails(d)
    BY <1>13, FailureKeeps DEF EditFails
<1> QED
    BY <1>1, <1>2, <1>3, <1>4, <1>5, <1>6, <1>7, <1>8, <1>9, <1>10, <1>11, <1>12, <1>13
    DEF EditorNext

\* Nobody else writes the tables, the cache or the requests.
LEMMA OthersLeaveEditor ==
    ASSUME \/ \E m \in Emitters :
                \/ Emit(m) \/ TestDelivery(m) \/ CountOffer(m)
                \/ \E t \in Tasks : Offer(m, t)
           \/ WorkerNext
    PROVE  UNCHANGED <<table, cache, editor, calm>>
<1>1. ASSUME NEW m \in Emitters, Emit(m) \/ TestDelivery(m) \/ CountOffer(m)
      PROVE  UNCHANGED <<table, cache, editor, calm>>
    BY <1>1 DEF Emit, TestDelivery, StartEmit, CountOffer
<1>2. ASSUME NEW m \in Emitters, NEW t \in Tasks, Offer(m, t)
      PROVE  UNCHANGED <<table, cache, editor, calm>>
    BY <1>2 DEF Offer
<1>3. ASSUME WorkerNext PROVE UNCHANGED <<table, cache, editor, calm>>
    BY <1>3 DEF WorkerNext, Worker_Receive, Worker_Depth, DeliverSyslog,
        RecordDeliverySuccess, RecordDeliveryFailure, RecordDeliveryFailure_Save,
        InsertDeadLetter, PruneDeadLetters
<1> QED
    BY <1>1, <1>2, <1>3

LEMMA EditorStep == EditorInv /\ [LogNext]_logVars => EditorInv'
<1> SUFFICES ASSUME EditorInv, [LogNext]_logVars PROVE EditorInv'
    OBVIOUS
<1>1. ASSUME NEW d \in Admins, EditorNext(d) PROVE EditorInv'
    BY <1>1, EditorKeeps
<1>2. CASE Restart
    <2>1. editor' = [d \in Admins |-> NoEdit] /\ cache' = table' /\ table' = table
        BY <1>2 DEF Restart
    <2>2. IsConfig(table')
        BY <2>1 DEF EditorInv
    <2> QED
        BY <2>1, <2>2, NoEditIs, EmptyPlanReloads DEF EditorInv, CacheFollowsTables
<1>3. CASE UNCHANGED <<table, cache, editor, calm>>
    BY <1>3 DEF EditorInv, CacheFollowsTables, NoEdits, Follows
<1>4. UNCHANGED logVars => UNCHANGED <<table, cache, editor, calm>>
    BY DEF logVars, volatile
<1> QED
    BY <1>1, <1>2, <1>3, <1>4, OthersLeaveEditor DEF LogNext

\* An administrative request that runs alone and succeeds leaves the cache as
\* the tables are, for any number of administrators, whatever requests before
\* it left behind that overlapped or failed half way (reload).
THEOREM RoutingFollowsTables == LogSpec => []CacheFollowsTables
<1>1. EditorInv => CacheFollowsTables
    BY DEF EditorInv
<1> QED
    BY <1>1, InitEditor, EditorStep, PTL DEF LogSpec

-----------------------------------------------------------------------------
(* Delivery.  A task belongs to one place at a time: to the emitter that   *)
(* has not offered it yet, to the queue, or to the worker.                 *)

Waiting == (IF AtWork THEN worker.task ELSE <<>>) \o queue

IsEmitter(e) == e = [todo |-> e.todo, owed |-> e.owed]
IsWorker(w)  == w = [pc |-> w.pc, task |-> w.task, attempt |-> w.attempt,
                     snapshot |-> w.snapshot]

EmittersOK ==
    /\ emitter = [m \in Emitters |-> emitter[m]]
    /\ \A m \in Emitters : IsEmitter(emitter[m])
    /\ \A m \in Emitters, t \in Tasks : t \in emitter[m].todo =>
           /\ outcome[t] = "none"
           /\ t[1] \in emitted
           /\ \A n \in Emitters : t \in emitter[n].todo => m = n

OutcomesOK ==
    /\ outcome = [t \in Tasks |-> outcome[t]]
    /\ \A t \in Tasks : outcome[t] # "none" => t[1] \in emitted

QueueOK ==
    /\ queue \in Seq(Tasks) /\ Len(queue) <= QueueSize
    /\ \A i \in DOMAIN queue : outcome[queue[i]] # "none"

WorkerOK ==
    /\ IsWorker(worker)
    /\ AtWork => \E t \in Tasks : worker.task = <<t>> /\ outcome[t] # "none"

DeliveryInv == EmittersOK /\ OutcomesOK /\ QueueOK /\ WorkerOK

LEMMA IdleIs == IsWorker(Idle) /\ Idle.pc = "idle"
BY DEF IsWorker, Idle

LEMMA NotEmittingIs == IsEmitter(NotEmitting) /\ NotEmitting.todo = {} /\ NotEmitting.owed = {}
BY DEF IsEmitter, NotEmitting

LEMMA EmitterExcept ==
    ASSUME NEW e, IsEmitter(e), NEW x
    PROVE  /\ LET v == [e EXCEPT !.todo = x] IN IsEmitter(v) /\ v.todo = x
           /\ LET v == [e EXCEPT !.owed = x] IN IsEmitter(v) /\ v.todo = e.todo
<1>1. ASSUME NEW v, v = [e EXCEPT !.todo = x] PROVE IsEmitter(v) /\ v.todo = x
    BY <1>1 DEF IsEmitter
<1>2. ASSUME NEW v, v = [e EXCEPT !.owed = x] PROVE IsEmitter(v) /\ v.todo = e.todo
    BY <1>2 DEF IsEmitter
<1> QED
    BY <1>1, <1>2

LEMMA WaitingIs ==
    ASSUME QueueOK, WorkerOK
    PROVE  /\ ~AtWork => Waiting = queue
           /\ AtWork => \E t \in Tasks : /\ worker.task = <<t>>
                                         /\ Waiting # <<>>
                                         /\ Head(Waiting) = t /\ Tail(Waiting) = queue
           /\ Waiting \in Seq(Tasks)
           /\ Len(queue) <= Len(Waiting) /\ Len(Waiting) <= Len(queue) + 1
<1>1. CASE ~AtWork
    <2>1. Waiting = queue
        BY <1>1, ConcatEmptySeq DEF Waiting, QueueOK
    <2> QED
        BY <1>1, <2>1 DEF QueueOK
<1>2. CASE AtWork
    <2>1. PICK t \in Tasks : worker.task = <<t>>
        BY <1>2 DEF WorkerOK
    <2>2. Waiting = <<t>> \o queue /\ <<t>> \in Seq(Tasks) /\ Len(<<t>>) = 1 /\ <<t>>[1] = t
        BY <1>2, <2>1 DEF Waiting
    <2>3. /\ Waiting \in Seq(Tasks) /\ Len(Waiting) = 1 + Len(queue)
          /\ \A i \in 1 .. 1 + Len(queue) : Waiting[i] = IF i <= 1 THEN <<t>>[i] ELSE queue[i - 1]
        BY <2>2, ConcatProperties DEF QueueOK
    <2>4. Waiting # <<>> /\ Head(Waiting) = t
        BY <2>2, <2>3 DEF QueueOK
    <2>5. Tail(Waiting) = queue
        <3>1. /\ Tail(Waiting) \in Seq(Tasks) /\ Len(Tail(Waiting)) = Len(queue)
              /\ \A i \in 1..Len(queue) : Tail(Waiting)[i] = Waiting[i + 1]
            BY <2>3, <2>4 DEF QueueOK
        <3>2. \A i \in 1..Len(queue) : Tail(Waiting)[i] = queue[i]
            BY <2>3, <3>1 DEF QueueOK
        <3> QED
            BY <3>1, <3>2, SeqEqual DEF QueueOK
    <2> QED
        BY <1>2, <2>1, <2>3, <2>4, <2>5 DEF QueueOK
<1> QED
    BY <1>1, <1>2

LEMMA InitDelivery == LogInit => DeliveryInv
<1> SUFFICES ASSUME LogInit PROVE DeliveryInv
    OBVIOUS
<1>1. EmittersOK
    BY NotEmittingIs DEF LogInit, EmittersOK
<1>2. OutcomesOK /\ QueueOK
    BY DEF LogInit, OutcomesOK, QueueOK
<1>3. WorkerOK
    BY IdleIs DEF LogInit, WorkerOK, AtWork
<1> QED
    BY <1>1, <1>2, <1>3 DEF DeliveryInv

\* What has been offered stays offered, so nobody is about to offer it again.
OfferedStays == \A t \in Tasks : outcome[t] # "none" => outcome'[t] # "none"

LEMMA SettledWasOffered ==
    ASSUME EmittersOK, OutcomesOK, UNCHANGED <<emitter, emitted>>,
           NEW t \in Tasks, outcome[t] # "none",
           NEW o \in {"delivered", "failed"}, outcome' = [outcome EXCEPT ![t] = o]
    PROVE  EmittersOK' /\ OutcomesOK' /\ OfferedStays
<1>1. /\ outcome' = [s \in Tasks |-> outcome'[s]] /\ outcome'[t] = o
      /\ \A s \in Tasks \ {t} : outcome'[s] = outcome[s]
    BY DEF OutcomesOK
<1>2. OutcomesOK' /\ OfferedStays
    BY <1>1 DEF OutcomesOK, OfferedStays
<1>3. EmittersOK'
    BY <1>1 DEF EmittersOK
<1> QED
    BY <1>2, <1>3

LEMMA QueueStays == ASSUME QueueOK, UNCHANGED queue, OfferedStays PROVE QueueOK'
<1>1. \A i \in DOMAIN queue : queue[i] \in Tasks
    BY DEF QueueOK
<1> QED
    BY <1>1 DEF QueueOK, OfferedStays

\* What the delivery is about does not change.
LEMMA DeliveryStutters ==
    ASSUME DeliveryInv, UNCHANGED <<queue, worker, emitter, emitted, outcome>>
    PROVE  DeliveryInv' /\ Waiting' = Waiting
BY DEF DeliveryInv, EmittersOK, OutcomesOK, QueueOK, WorkerOK, AtWork, Waiting

LEMMA EditorLeavesDelivery ==
    ASSUME NEW d \in Admins, EditorNext(d)
    PROVE  UNCHANGED <<queue, worker, emitter, emitted, outcome>>
<1>1. CASE CreateSink(d) \/ UpdateSink(d) \/ DeleteSink(d) \/ UpdateRoutes(d)
    BY <1>1 DEF CreateSink, UpdateSink, DeleteSink, UpdateRoutes, StartEdit
<1>2. CASE ~(CreateSink(d) \/ UpdateSink(d) \/ DeleteSink(d) \/ UpdateRoutes(d))
    BY <1>2 DEF EditorNext, UpsertSink, EnsureStatus, DeleteSinkRow, DeleteStatus,
        FilterRoutes, ValidateRoutes, UpsertRoutes, ListSinks, LoadRoutes, LoadConfig,
        ListStatuses, LoadStatuses, EditFails, EditsOnly
<1> QED
    BY <1>1, <1>2

-----------------------------------------------------------------------------
LEMMA StartEmitKeeps ==
    ASSUME NEW m \in Emitters, DeliveryInv, NEW e, NEW sinks, StartEmit(m, e, sinks)
    PROVE  DeliveryInv' /\ UNCHANGED <<Waiting, outcome>>
<1>1. /\ emitter[m] = NotEmitting /\ e \notin emitted
      /\ emitted' = emitted \union {e}
      /\ emitter' = [emitter EXCEPT ![m].todo = {e} \X sinks]
      /\ UNCHANGED <<queue, worker, outcome>>
    BY DEF StartEmit
<1>2. PICK v : v = [emitter[m] EXCEPT !.todo = {e} \X sinks]
    OBVIOUS
<1>3. IsEmitter(v) /\ v.todo = {e} \X sinks
    <2>1. IsEmitter(emitter[m])
        BY DEF DeliveryInv, EmittersOK
    <2>2. \A x : LET q == [emitter[m] EXCEPT !.todo = x] IN IsEmitter(q) /\ q.todo = x
        BY <2>1, EmitterExcept
    <2> QED
        BY <1>2, <2>2
<1>4. emitter' = [emitter EXCEPT ![m] = v]
    BY <1>1, <1>2 DEF DeliveryInv, EmittersOK
<1>5. /\ emitter' = [n \in Emitters |-> emitter'[n]] /\ emitter'[m] = v
      /\ \A n \in Emitters \ {m} : emitter'[n] = emitter[n]
    BY <1>4 DEF DeliveryInv, EmittersOK
<1>6. \A t \in Tasks : t \in v.todo => t[1] = e
    BY <1>3
<1>7. EmittersOK'
    <2>1. \A n \in Emitters : IsEmitter(emitter'[n])
        BY <1>3, <1>5 DEF DeliveryInv, EmittersOK
    <2>2. ASSUME NEW n \in Emitters, NEW t \in Tasks, t \in emitter'[n].todo
          PROVE  /\ outcome[t] = "none" /\ t[1] \in emitted'
                 /\ \A k \in Emitters : t \in emitter'[k].todo => n = k
        <3>1. CASE n = m
            <4>1. t[1] = e
                BY <1>5, <1>6, <2>2, <3>1
            <4> QED
                BY <1>1, <1>5, <3>1, <4>1 DEF DeliveryInv, EmittersOK, OutcomesOK
        <3>2. CASE n # m
            <4>1. t \in emitter[n].todo /\ outcome[t] = "none" /\ t[1] \in emitted
                BY <1>5, <2>2, <3>2 DEF DeliveryInv, EmittersOK
            <4>2. t \notin v.todo
                BY <1>1, <1>6, <4>1
            <4> QED
                BY <1>1, <1>5, <4>1, <4>2 DEF DeliveryInv, EmittersOK
        <3> QED
            BY <3>1, <3>2
    <2> QED
        BY <1>1, <1>5, <2>1, <2>2 DEF EmittersOK
<1>8. OutcomesOK' /\ QueueOK' /\ WorkerOK'
    BY <1>1 DEF DeliveryInv, OutcomesOK, QueueOK, WorkerOK, AtWork
<1> QED
    BY <1>1, <1>7, <1>8 DEF DeliveryInv, Waiting, AtWork

\* An emitter that offers a task no longer has it.
LEMMA OfferedOnce ==
    ASSUME NEW m \in Emitters, NEW t \in Tasks, EmittersOK, OutcomesOK, t \in emitter[m].todo,
           NEW owed, emitter' = [emitter EXCEPT ![m] = [todo |-> @.todo \ {t}, owed |-> owed]],
           NEW o, o # "none", outcome' = [outcome EXCEPT ![t] = o], emitted' = emitted
    PROVE  /\ EmittersOK' /\ OutcomesOK' /\ OfferedStays
           /\ outcome[t] = "none" /\ outcome'[t] = o
<1>1. outcome[t] = "none" /\ t[1] \in emitted
    BY DEF EmittersOK
<1>2. PICK v : v = [todo |-> emitter[m].todo \ {t}, owed |-> owed]
    OBVIOUS
<1>3. IsEmitter(v) /\ v.todo = emitter[m].todo \ {t}
    BY <1>2 DEF IsEmitter
<1>4. /\ emitter' = [n \in Emitters |-> emitter'[n]] /\ emitter'[m] = v
      /\ \A n \in Emitters \ {m} : emitter'[n] = emitter[n]
    BY <1>2 DEF EmittersOK
<1>5. /\ outcome' = [s \in Tasks |-> outcome'[s]] /\ outcome'[t] = o
      /\ \A s \in Tasks \ {t} : outcome'[s] = outcome[s]
    BY DEF OutcomesOK
<1>6. OutcomesOK' /\ OfferedStays
    BY <1>1, <1>5 DEF OutcomesOK, OfferedStays
<1>7. \A n \in Emitters : /\ IsEmitter(emitter'[n])
                          /\ emitter'[n].todo \subseteq emitter[n].todo
                          /\ t \notin emitter'[n].todo
    BY <1>3, <1>4 DEF EmittersOK
<1>8. EmittersOK'
    <2>1. ASSUME NEW n \in Emitters, NEW s \in Tasks, s \in emitter'[n].todo
          PROVE  /\ outcome'[s] = "none" /\ s[1] \in emitted'
                 /\ \A k \in Emitters : s \in emitter'[k].todo => n = k
        <3>1. s # t /\ s \in emitter[n].todo /\ outcome'[s] = outcome[s]
            BY <1>5, <1>7, <2>1
        <3>2. \A k \in Emitters : s \in emitter'[k].todo => s \in emitter[k].todo
            BY <1>7
        <3> QED
            BY <3>1, <3>2 DEF EmittersOK
    <2> QED
        BY <1>4, <1>7, <2>1 DEF EmittersOK
<1> QED
    BY <1>1, <1>5, <1>6, <1>8

LEMMA OfferKeeps ==
    ASSUME NEW m \in Emitters, NEW t \in Tasks, DeliveryInv, Offer(m, t)
    PROVE  /\ DeliveryInv'
           /\ outcome[t] = "none"
           /\ \/ /\ Len(Waiting) <= QueueSize
                 /\ Waiting' = Append(Waiting, t)
                 /\ outcome' = [outcome EXCEPT ![t] = "waiting"]
              \/ /\ Len(Waiting) >= QueueSize
                 /\ UNCHANGED Waiting
                 /\ outcome' = [outcome EXCEPT ![t] = "dropped"]
<1>1. t \in emitter[m].todo /\ UNCHANGED <<worker, emitted>> /\ AtWork' = AtWork
    BY DEF Offer, AtWork
<1>2. /\ EmittersOK' /\ OutcomesOK' /\ OfferedStays
      /\ outcome[t] = "none" /\ outcome'[t] # "none"
    <2>1. PICK o \in {"waiting", "dropped"} : \E owed :
              /\ outcome' = [outcome EXCEPT ![t] = o]
              /\ emitter' = [emitter EXCEPT ![m] = [todo |-> @.todo \ {t}, owed |-> owed]]
        BY DEF Offer
    <2>2. PICK owed :
              /\ outcome' = [outcome EXCEPT ![t] = o]
              /\ emitter' = [emitter EXCEPT ![m] = [todo |-> @.todo \ {t}, owed |-> owed]]
        BY <2>1
    <2>3. o # "none" /\ EmittersOK /\ OutcomesOK /\ emitted' = emitted
        BY <1>1 DEF DeliveryInv
    <2> QED
        BY <1>1, <2>2, <2>3, OfferedOnce
<1>3. WorkerOK'
    BY <1>1, <1>2 DEF DeliveryInv, WorkerOK, AtWork, OfferedStays
<1>4. Len(queue) <= Len(Waiting) /\ Len(Waiting) <= Len(queue) + 1 /\ Waiting \in Seq(Tasks)
    BY WaitingIs DEF DeliveryInv
<1>5. queue \in Seq(Tasks) /\ Len(queue) \in Nat
    BY DEF DeliveryInv, QueueOK
<1>6. CASE Len(queue) < QueueSize /\ queue' = Append(queue, t)
    <2>1. QueueOK'
        <3>1. /\ queue' \in Seq(Tasks) /\ Len(queue') = Len(queue) + 1
              /\ queue'[Len(queue) + 1] = t
              /\ \A i \in 1..Len(queue) : queue'[i] = queue[i] /\ queue[i] \in Tasks
            BY <1>5, <1>6
        <3>2. \A i \in DOMAIN queue' : i = Len(queue) + 1 \/ i \in 1..Len(queue)
            BY <1>5, <3>1
        <3>3. \A i \in 1..Len(queue) : outcome'[queue[i]] # "none"
            BY <1>2, <1>5, <3>1 DEF DeliveryInv, QueueOK, OfferedStays
        <3>4. Len(queue') <= QueueSize
            BY <1>5, <1>6, <3>1
        <3> QED
            BY <1>2, <3>1, <3>2, <3>3, <3>4 DEF QueueOK
    <2>2. Waiting' = Append(Waiting, t)
        <3> DEFINE w == IF AtWork THEN worker.task ELSE <<>>
        <3>1. w \in Seq(Tasks)
            <4>1. CASE AtWork
                <5>1. PICK s \in Tasks : worker.task = <<s>>
                    BY <4>1 DEF DeliveryInv, WorkerOK
                <5> QED
                    BY <4>1, <5>1
            <4>2. CASE ~AtWork
                BY <4>2
            <4> QED
                BY <4>1, <4>2
        <3>2. Waiting = w \o queue /\ Waiting' = w \o Append(queue, t)
            BY <1>1, <1>6 DEF Waiting
        <3> HIDE DEF w
        <3>3. /\ <<t>> \in Seq(Tasks)
              /\ Append(queue, t) = queue \o <<t>>
              /\ Append(w \o queue, t) = (w \o queue) \o <<t>>
              /\ w \o (queue \o <<t>>) = (w \o queue) \o <<t>>
            BY <1>4, <1>5, <3>1, <3>2, AppendIsConcat, ConcatAssociative
        <3> QED
            BY <3>2, <3>3
    <2>3. Len(Waiting) <= QueueSize
        BY <1>4, <1>5, <1>6
    <2>4. outcome' = [outcome EXCEPT ![t] = "waiting"]
        BY <1>5, <1>6 DEF Offer
    <2> QED
        BY <1>2, <1>3, <2>1, <2>2, <2>3, <2>4 DEF DeliveryInv
<1>7. CASE Len(queue) >= QueueSize /\ queue' = queue
    <2>1. QueueOK' /\ Waiting' = Waiting
        BY <1>1, <1>2, <1>7, QueueStays DEF DeliveryInv, Waiting, AtWork
    <2>2. Len(Waiting) >= QueueSize
        BY <1>4, <1>5, <1>7
    <2>3. outcome' = [outcome EXCEPT ![t] = "dropped"]
        BY <1>5, <1>7 DEF Offer
    <2> QED
        BY <1>2, <1>3, <2>1, <2>2, <2>3 DEF DeliveryInv
<1> QED
    BY <1>6, <1>7 DEF Offer

LEMMA CountOfferKeeps ==
    ASSUME NEW m \in Emitters, DeliveryInv, CountOffer(m)
    PROVE  DeliveryInv' /\ UNCHANGED <<Waiting, outcome>>
<1>1. /\ emitter' = [emitter EXCEPT ![m].owed = {}]
      /\ UNCHANGED <<queue, worker, emitted, outcome>>
    BY DEF CountOffer
<1>2. PICK v : v = [emitter[m] EXCEPT !.owed = {}]
    OBVIOUS
<1>3. IsEmitter(v) /\ v.todo = emitter[m].todo
    BY <1>2, EmitterExcept DEF DeliveryInv, EmittersOK
<1>4. emitter' = [emitter EXCEPT ![m] = v]
    BY <1>1, <1>2 DEF DeliveryInv, EmittersOK
<1>5. /\ emitter' = [n \in Emitters |-> emitter'[n]] /\ emitter'[m] = v
      /\ \A n \in Emitters : emitter'[n].todo = emitter[n].todo /\ IsEmitter(emitter'[n])
    BY <1>3, <1>4 DEF DeliveryInv, EmittersOK
<1>6. EmittersOK'
    BY <1>1, <1>5 DEF DeliveryInv, EmittersOK
<1>7. OutcomesOK' /\ QueueOK' /\ WorkerOK'
    BY <1>1 DEF DeliveryInv, OutcomesOK, QueueOK, WorkerOK, AtWork
<1> QED
    BY <1>1, <1>6, <1>7 DEF DeliveryInv, Waiting, AtWork

\* What the worker does to the task in hand: it takes one, keeps it, settles
\* it, or is done with it.
Takes ==
    /\ ~AtWork /\ queue # <<>> /\ queue' = Tail(queue)
    /\ AtWork' /\ worker'.task = <<Head(queue)>>
    /\ UNCHANGED outcome
Keeps ==
    /\ AtWork /\ AtWork' /\ worker'.task = worker.task
    /\ UNCHANGED <<queue, outcome>>
Settles ==
    /\ AtWork /\ ~AtWork'
    /\ \E o \in {"delivered", "failed"} : outcome' = [outcome EXCEPT ![Task] = o]
    /\ UNCHANGED queue
Records ==
    /\ ~AtWork /\ ~AtWork'
    /\ UNCHANGED <<queue, outcome>>

LEMMA WorkerMoves ==
    ASSUME DeliveryInv, WorkerNext
    PROVE  /\ IsWorker(worker') /\ UNCHANGED <<emitter, emitted>>
           /\ Takes \/ Keeps \/ Settles \/ Records
<1>1. UNCHANGED <<emitter, emitted>>
    BY DEF WorkerNext, Worker_Receive, Worker_Depth, DeliverSyslog,
        RecordDeliverySuccess, RecordDeliveryFailure, RecordDeliveryFailure_Save,
        InsertDeadLetter, PruneDeadLetters
<1>2. IsWorker(worker)
    BY DEF DeliveryInv, WorkerOK
<1>3. ASSUME NEW pc, Now(pc)
      PROVE  IsWorker(worker') /\ worker'.pc = pc /\ worker'.task = worker.task
    BY <1>2, <1>3 DEF Now, IsWorker
<1>4. CASE Worker_Receive
    <2>1. PICK w : w = Idle
        OBVIOUS
    <2>2. IsWorker(w)
        BY <2>1, IdleIs
    <2>3. worker' = [w EXCEPT !.pc = "depth", !.task = <<Head(queue)>>]
        BY <1>4, <2>1 DEF Worker_Receive
    <2>4. IsWorker(worker') /\ worker'.pc = "depth" /\ worker'.task = <<Head(queue)>>
        BY <2>2, <2>3 DEF IsWorker
    <2>5. Takes
        BY <1>4, <2>4 DEF Worker_Receive, Takes, AtWork
    <2> QED
        BY <1>1, <2>4, <2>5
<1>5. CASE Worker_Depth
    <2>1. Now("deliver") /\ worker.pc = "depth" /\ UNCHANGED <<queue, outcome>>
        BY <1>5 DEF Worker_Depth
    <2>2. IsWorker(worker') /\ worker'.pc = "deliver" /\ worker'.task = worker.task
        BY <1>3, <2>1
    <2> QED
        BY <1>1, <2>1, <2>2 DEF Keeps, AtWork
<1>6. CASE DeliverSyslog
    <2>1. worker.pc = "deliver" /\ UNCHANGED queue
        BY <1>6 DEF DeliverSyslog
    <2>2. CASE Now("success") /\ outcome' = [outcome EXCEPT ![Task] = "delivered"]
        <3>1. IsWorker(worker') /\ worker'.pc = "success"
            BY <1>3, <2>2
        <3> QED
            BY <1>1, <2>1, <2>2, <3>1 DEF Settles, AtWork
    <2>3. CASE worker' = [worker EXCEPT !.attempt = @ + 1] /\ UNCHANGED outcome
        <3>1. IsWorker(worker') /\ worker'.pc = worker.pc /\ worker'.task = worker.task
            BY <1>2, <2>3 DEF IsWorker
        <3> QED
            BY <1>1, <2>1, <2>3, <3>1 DEF Keeps, AtWork
    <2>4. CASE Now("failure") /\ outcome' = [outcome EXCEPT ![Task] = "failed"]
        <3>1. IsWorker(worker') /\ worker'.pc = "failure"
            BY <1>3, <2>4
        <3> QED
            BY <1>1, <2>1, <2>4, <3>1 DEF Settles, AtWork
    <2> QED
        BY <1>6, <2>2, <2>3, <2>4 DEF DeliverSyslog
<1>7. CASE RecordDeliveryFailure
    <2>1. PICK st : worker' = [worker EXCEPT !.pc = "save", !.snapshot = st]
        BY <1>7 DEF RecordDeliveryFailure
    <2>2. IsWorker(worker') /\ worker'.pc = "save"
        BY <1>2, <2>1 DEF IsWorker
    <2> QED
        BY <1>1, <1>7, <2>2 DEF RecordDeliveryFailure, Records, AtWork
<1>8. CASE RecordDeliverySuccess \/ RecordDeliveryFailure_Save \/ InsertDeadLetter \/ PruneDeadLetters
    <2>1. /\ worker.pc \in {"success", "save", "letter", "prune"}
          /\ UNCHANGED <<queue, outcome>>
          /\ worker' = Idle \/ Now("letter") \/ Now("prune")
        BY <1>8 DEF RecordDeliverySuccess, RecordDeliveryFailure_Save, InsertDeadLetter,
                    PruneDeadLetters
    <2>2. IsWorker(worker') /\ worker'.pc \in {"idle", "letter", "prune"}
        BY <1>3, <2>1, IdleIs
    <2> QED
        BY <1>1, <2>1, <2>2 DEF Records, AtWork
<1> QED
    BY <1>4, <1>5, <1>6, <1>7, <1>8 DEF WorkerNext

LEMMA WorkerKeeps ==
    ASSUME DeliveryInv, WorkerNext
    PROVE  /\ DeliveryInv'
           /\ \/ UNCHANGED <<Waiting, outcome>>
              \/ /\ Waiting # <<>> /\ Waiting' = Tail(Waiting)
                 /\ \E o \in {"delivered", "failed"} :
                        outcome' = [outcome EXCEPT ![Head(Waiting)] = o]
<1>1. /\ IsWorker(worker') /\ UNCHANGED <<emitter, emitted>>
      /\ Takes \/ Keeps \/ Settles \/ Records
    BY WorkerMoves
<1>2. /\ ~AtWork => Waiting = queue
      /\ AtWork => \E t \in Tasks : /\ worker.task = <<t>>
                                    /\ Waiting # <<>>
                                    /\ Head(Waiting) = t /\ Tail(Waiting) = queue
      /\ Len(queue) <= Len(Waiting) /\ Len(Waiting) <= Len(queue) + 1
    BY WaitingIs DEF DeliveryInv
<1>3. queue \in Seq(Tasks)
    BY DEF DeliveryInv, QueueOK
<1>4. UNCHANGED outcome => EmittersOK' /\ OutcomesOK'
    BY <1>1 DEF DeliveryInv, EmittersOK, OutcomesOK
<1>5. UNCHANGED outcome => OfferedStays
    BY DEF OfferedStays
<1>6. UNCHANGED queue /\ OfferedStays => QueueOK'
    BY QueueStays DEF DeliveryInv
<1>7. CASE Takes
    <2>1. Head(queue) \in Tasks /\ outcome'[Head(queue)] # "none" /\ QueueOK'
        <3>1. /\ Head(queue) = queue[1] /\ 1 \in DOMAIN queue /\ queue[1] \in Tasks
              /\ queue' \in Seq(Tasks) /\ Len(queue') = Len(queue) - 1
              /\ \A i \in DOMAIN queue' : queue'[i] = queue[i + 1] /\ i + 1 \in DOMAIN queue
            BY <1>3, <1>7 DEF Takes
        <3>2. Len(queue') <= QueueSize
            BY <1>3, <3>1 DEF DeliveryInv, QueueOK
        <3> QED
            BY <1>7, <3>1, <3>2 DEF Takes, DeliveryInv, QueueOK
    <2>2. WorkerOK'
        BY <1>1, <1>7, <2>1 DEF Takes, WorkerOK
    <2>3. Waiting' = <<Head(queue)>> \o Tail(queue)
        BY <1>7 DEF Takes, Waiting
    <2>4. Waiting' = queue
        <3>1. <<Head(queue)>> \in Seq(Tasks) /\ Tail(queue) \in Seq(Tasks)
              /\ Len(Tail(queue)) = Len(queue) - 1 /\ Len(queue) \in Nat \ {0}
              /\ Len(<<Head(queue)>>) = 1 /\ <<Head(queue)>>[1] = queue[1]
              /\ \A i \in 1..Len(queue) - 1 : Tail(queue)[i] = queue[i + 1]
            BY <1>3, <1>7, <2>1 DEF Takes
        <3>2. /\ Waiting' \in Seq(Tasks) /\ Len(Waiting') = 1 + (Len(queue) - 1)
              /\ \A i \in 1 .. 1 + (Len(queue) - 1) :
                     Waiting'[i] = IF i <= 1 THEN <<Head(queue)>>[i] ELSE Tail(queue)[i - 1]
            BY <2>3, <3>1, ConcatProperties
        <3>3. \A i \in 1..Len(queue) : Waiting'[i] = queue[i]
            BY <3>1, <3>2
        <3> QED
            BY <1>3, <3>1, <3>2, <3>3, SeqEqual
    <2> QED
        BY <1>2, <1>4, <1>7, <2>1, <2>2, <2>4 DEF Takes, DeliveryInv
<1>8. CASE Keeps
    <2>1. WorkerOK'
        BY <1>1, <1>8 DEF Keeps, DeliveryInv, WorkerOK
    <2> QED
        BY <1>4, <1>5, <1>8, <1>6, <2>1 DEF Keeps, DeliveryInv, Waiting
<1>9. CASE Records
    <2>1. WorkerOK'
        BY <1>1, <1>9 DEF Records, WorkerOK
    <2> QED
        BY <1>4, <1>5, <1>9, <1>6, <2>1 DEF Records, DeliveryInv, Waiting
<1>10. CASE Settles
    <2>1. PICK t \in Tasks : worker.task = <<t>> /\ outcome[t] # "none"
        BY <1>10 DEF Settles, DeliveryInv, WorkerOK
    <2>2. Task = t /\ Waiting # <<>> /\ Head(Waiting) = t /\ Tail(Waiting) = queue
        BY <1>2, <1>10, <2>1 DEF Settles, Task
    <2>3. PICK o \in {"delivered", "failed"} : outcome' = [outcome EXCEPT ![t] = o]
        BY <1>10, <2>2 DEF Settles
    <2>4. EmittersOK' /\ OutcomesOK' /\ OfferedStays
        BY <1>1, <2>1, <2>3, SettledWasOffered DEF DeliveryInv
    <2>5. WorkerOK' /\ QueueOK'
        BY <1>1, <1>10, <1>6, <2>4 DEF Settles, WorkerOK
    <2>6. Waiting' = queue
        BY <1>3, <1>10, ConcatEmptySeq DEF Settles, Waiting
    <2> QED
        BY <2>2, <2>3, <2>4, <2>5, <2>6 DEF DeliveryInv
<1> QED
    BY <1>1, <1>7, <1>8, <1>9, <1>10

LEMMA RestartKeeps ==
    ASSUME DeliveryInv, Restart
    PROVE  DeliveryInv' /\ Waiting' = <<>>
<1>1. /\ queue' = <<>> /\ worker' = Idle /\ emitter' = [m \in Emitters |-> NotEmitting]
      /\ outcome' = [t \in Tasks |-> IF outcome[t] = "waiting" THEN "lost" ELSE outcome[t]]
      /\ emitted' = emitted
    BY DEF Restart
<1>2. EmittersOK'
    BY <1>1, NotEmittingIs DEF EmittersOK
<1>3. OutcomesOK' /\ QueueOK'
    BY <1>1 DEF DeliveryInv, OutcomesOK, QueueOK
<1>4. WorkerOK' /\ Waiting' = <<>>
    BY <1>1, IdleIs DEF WorkerOK, AtWork, Waiting
<1> QED
    BY <1>2, <1>3, <1>4 DEF DeliveryInv

LEMMA DeliveryStep ==
    DeliveryInv /\ [LogNext]_logVars =>
        DeliveryInv' /\ [Delivery!Next]_<<Waiting, outcome>>
<1> SUFFICES ASSUME DeliveryInv, [LogNext]_logVars
             PROVE  DeliveryInv' /\ [Delivery!Next]_<<Waiting, outcome>>
    OBVIOUS
<1>1. ASSUME NEW m \in Emitters, Emit(m) \/ TestDelivery(m)
      PROVE  DeliveryInv' /\ UNCHANGED <<Waiting, outcome>>
    BY <1>1, StartEmitKeeps DEF Emit, TestDelivery
<1>2. ASSUME NEW m \in Emitters, CountOffer(m)
      PROVE  DeliveryInv' /\ UNCHANGED <<Waiting, outcome>>
    BY <1>2, CountOfferKeeps
<1>3. ASSUME NEW m \in Emitters, NEW t \in Tasks, Offer(m, t)
      PROVE  DeliveryInv' /\ Delivery!Next
    <2>1. /\ DeliveryInv' /\ outcome[t] = "none"
          /\ \/ /\ Len(Waiting) <= QueueSize
                /\ Waiting' = Append(Waiting, t)
                /\ outcome' = [outcome EXCEPT ![t] = "waiting"]
             \/ /\ Len(Waiting) >= QueueSize
                /\ UNCHANGED Waiting
                /\ outcome' = [outcome EXCEPT ![t] = "dropped"]
        BY <1>3, OfferKeeps
    <2>2. Delivery!Accept(t) \/ Delivery!Drop(t)
        BY <2>1 DEF Delivery!Accept, Delivery!Drop, Waiting
    <2> QED
        BY <2>1, <2>2 DEF Delivery!Next
<1>4. ASSUME WorkerNext
      PROVE  DeliveryInv' /\ [Delivery!Next]_<<Waiting, outcome>>
    <2>1. /\ DeliveryInv'
          /\ \/ UNCHANGED <<Waiting, outcome>>
             \/ /\ Waiting # <<>> /\ Waiting' = Tail(Waiting)
                /\ \E o \in {"delivered", "failed"} :
                       outcome' = [outcome EXCEPT ![Head(Waiting)] = o]
        BY <1>4, WorkerKeeps
    <2>2. UNCHANGED <<Waiting, outcome>> \/ Delivery!Settle
        BY <2>1 DEF Delivery!Settle, Waiting
    <2> QED
        BY <2>1, <2>2 DEF Delivery!Next
<1>5. ASSUME (\E d \in Admins : EditorNext(d)) \/ UNCHANGED logVars
      PROVE  DeliveryInv' /\ UNCHANGED <<Waiting, outcome>>
    <2>1. UNCHANGED <<queue, worker, emitter, emitted, outcome>>
        BY <1>5, EditorLeavesDelivery DEF logVars, volatile
    <2> QED
        BY <2>1, DeliveryStutters
<1>6. ASSUME Restart PROVE DeliveryInv' /\ Delivery!Next
    <2>1. DeliveryInv' /\ Waiting' = <<>>
        BY <1>6, RestartKeeps
    <2>2. Delivery!Stop
        BY <1>6, <2>1 DEF Restart, Delivery!Stop, Waiting
    <2> QED
        BY <2>1, <2>2 DEF Delivery!Next
<1> QED
    BY <1>1, <1>2, <1>3, <1>4, <1>5, <1>6 DEF LogNext

\* The safety part of DeliveryIsImplemented.
DeliverySafety == Delivery!Init /\ [][Delivery!Next]_<<Waiting, outcome>>

\* Each event is settled at most once per sink and in the order it was
\* queued, and is dropped only when the channel is full, whatever is edited,
\* fails or restarts meanwhile (Emit, worker, deliverWithRetry).
THEOREM DeliveryIsInOrder == LogSpec => DeliverySafety
<1>1. LogInit => Delivery!Init
    BY IdleIs DEF LogInit, Delivery!Init, AtWork
<1> QED
    BY <1>1, DeliveryStep, InitDelivery, PTL DEF LogSpec, DeliverySafety

-----------------------------------------------------------------------------
(* Counters.  A copy of a counter is behind what has happened by what is   *)
(* still to be counted: by the emitter that dropped, or by the worker that *)
(* settled.  That a task is settled once makes the difference of one.      *)

Settled == {"delivered", "failed", "dropped"}

RequestTyped(e) ==
    /\ e.sink \subseteq Sinks /\ e.routes \subseteq Sinks /\ e.config \in Config
    /\ DOMAIN e.read \subseteq Sinks

\* What stays within the sinks there are.
TablesTyped ==
    /\ table \in Config /\ cache \in Config
    /\ \A d \in Admins : RequestTyped(editor[d])
    /\ DOMAIN statusRows \subseteq Sinks
    /\ DOMAIN statuses \subseteq Sinks
    /\ deadLetters \in [Sinks -> Nat]

WorkerTyped ==
    /\ worker.pc # "idle" => \E t \in Tasks : worker.task = <<t>>
    /\ worker.pc = "idle" => worker.task = <<>>
    /\ worker.attempt \in 0..Attempts - 1

OwedTyped ==
    \A m \in Emitters : \/ emitter[m].owed = {}
                        \/ \E s \in Sinks, o \in {"depth", "dropped"} :
                               emitter[m].owed = {<<s, o>>}

\* A task that waits is in one place.
WaitsOnce ==
    /\ \A i \in DOMAIN queue : outcome[queue[i]] = "waiting"
    /\ \A i, j \in DOMAIN queue : queue[i] = queue[j] => i = j
    /\ AtWork => \A t \in Tasks : worker.task = <<t>> =>
           outcome[t] = "waiting" /\ \A i \in DOMAIN queue : queue[i] # t

Outcomes == {"none", "waiting", "dropped", "delivered", "failed", "lost"}

\* What is still to be counted for a sink.
Debt(pcs, s) == IF worker.pc \in pcs /\ Task[2] = s THEN 1 ELSE 0
Dropping(s)  == {m \in Emitters : <<s, "dropped">> \in emitter[m].owed}

DeliveredRoom(s) == HasBecome(s, "delivered") - Debt({"success"}, s)
FailedRoom(s)    == HasBecome(s, "failed") - Debt({"failure"}, s)
LetterRoom(s)    == HasBecome(s, "failed") - Debt({"failure", "save", "letter"}, s)
DroppedRoom(s)   == HasBecome(s, "dropped") - Cardinality(Dropping(s))

Fits(st, s) ==
    /\ st \in Status
    /\ st.delivered <= DeliveredRoom(s)
    /\ st.failed <= FailedRoom(s)
    /\ st.dropped <= DroppedRoom(s)

HasEntry(f, s, v) == s \in DOMAIN f /\ v = f[s]

\* A reload under way has read it.
Reading(st, s) == \E d \in Admins : HasEntry(editor[d].read, s, st)

\* Wherever a copy is, in memory, in the table, in a reload or in a write that
\* is under way, and where there is none yet.
IsCopy(st, s) ==
    \/ st = NoStatus
    \/ HasEntry(statusRows, s, st)
    \/ HasEntry(statuses, s, st)
    \/ Reading(st, s)
    \/ worker.pc = "save" /\ Task[2] = s /\ st = worker.snapshot

CanBeCounted(s) ==
    /\ \A o \in Settled : IsFiniteSet(Become(s, o))
    /\ IsFiniteSet(Dropping(s))

CountsFit ==
    \A s \in Sinks :
        /\ CanBeCounted(s)
        /\ \A st : IsCopy(st, s) => Fits(st, s)
        /\ deadLetters[s] <= LetterRoom(s)

CountInv == /\ TablesTyped /\ WorkerTyped /\ OwedTyped /\ outcome \in [Tasks -> Outcomes]
            /\ WaitsOnce /\ CountsFit

\* Besides the two invariants above.
LogInv == EditorInv /\ DeliveryInv /\ CountInv

LEMMA OverIs ==
    ASSUME NEW f, NEW g
    PROVE  /\ DOMAIN Over(f, g) = DOMAIN f \union DOMAIN g
           /\ \A s, v : HasEntry(Over(f, g), s, v) => HasEntry(f, s, v) \/ HasEntry(g, s, v)
<1>1. DOMAIN Over(f, g) = DOMAIN f \union DOMAIN g
    BY DEF Over
<1>2. ASSUME NEW s, NEW v, HasEntry(Over(f, g), s, v)
      PROVE  HasEntry(f, s, v) \/ HasEntry(g, s, v)
    <2>1. CASE s \in DOMAIN f
        BY <1>2, <2>1 DEF HasEntry, Over
    <2>2. CASE s \notin DOMAIN f
        BY <1>1, <1>2, <2>2 DEF HasEntry, Over
    <2> QED
        BY <2>1, <2>2
<1> QED
    BY <1>1, <1>2

LEMMA PutIs ==
    ASSUME NEW g, NEW x, NEW v
    PROVE  /\ DOMAIN Put(g, x, v) = DOMAIN g \union {x}
           /\ \A s, w : HasEntry(Put(g, x, v), s, w) => HasEntry(g, s, w) \/ (s = x /\ w = v)
<1> DEFINE f == [y \in {x} |-> v]
<1>1. DOMAIN f = {x} /\ \A s, w : HasEntry(f, s, w) => s = x /\ w = v
    BY DEF HasEntry
<1>2. Put(g, x, v) = Over(f, g)
    BY DEF Put
<1> HIDE DEF f
<1>3. DOMAIN Put(g, x, v) = DOMAIN g \union {x}
    <2>1. DOMAIN Over(f, g) = DOMAIN f \union DOMAIN g
        BY OverIs
    <2>2. DOMAIN f \union DOMAIN g = DOMAIN g \union {x}
        BY <1>1
    <2> QED
        BY <1>2, <2>1, <2>2
<1>4. ASSUME NEW s, NEW w, HasEntry(Put(g, x, v), s, w)
      PROVE  HasEntry(g, s, w) \/ (s = x /\ w = v)
    <2>1. HasEntry(f, s, w) \/ HasEntry(g, s, w)
        BY <1>2, <1>4, OverIs
    <2> QED
        BY <1>1, <2>1
<1> QED
    BY <1>3, <1>4

LEMMA EmptyDomain == DOMAIN <<>> = {}
OBVIOUS

LEMMA NoStatusIs == NoStatus \in Status
BY DEF NoStatus, Status

\* A counter that is one higher, and nothing else changes.
LEMMA StatusExcept ==
    ASSUME NEW st \in Status
    PROVE  /\ \A w : w = [st EXCEPT !.delivered = @ + 1] =>
                  /\ w \in Status /\ w.delivered = st.delivered + 1
                  /\ w.failed = st.failed /\ w.dropped = st.dropped
           /\ \A w : w = [st EXCEPT !.failed = @ + 1] =>
                  /\ w \in Status /\ w.failed = st.failed + 1
                  /\ w.delivered = st.delivered /\ w.dropped = st.dropped
           /\ \A w : w = [st EXCEPT !.dropped = @ + 1] =>
                  /\ w \in Status /\ w.dropped = st.dropped + 1
                  /\ w.delivered = st.delivered /\ w.failed = st.failed
<1>1. \A w : w = [st EXCEPT !.delivered = @ + 1] =>
          /\ w \in Status /\ w.delivered = st.delivered + 1
          /\ w.failed = st.failed /\ w.dropped = st.dropped
    BY DEF Status
<1>2. \A w : w = [st EXCEPT !.failed = @ + 1] =>
          /\ w \in Status /\ w.failed = st.failed + 1
          /\ w.delivered = st.delivered /\ w.dropped = st.dropped
    BY DEF Status
<1>3. \A w : w = [st EXCEPT !.dropped = @ + 1] =>
          /\ w \in Status /\ w.dropped = st.dropped + 1
          /\ w.delivered = st.delivered /\ w.failed = st.failed
    BY DEF Status
<1> QED
    BY <1>1, <1>2, <1>3

LEMMA AdjustIs ==
    ASSUME NEW st \in Status, NEW d \in Int
    PROVE  /\ AdjustQueueDepth(st, d) \in Status
           /\ AdjustQueueDepth(st, d).delivered = st.delivered
           /\ AdjustQueueDepth(st, d).failed = st.failed
           /\ AdjustQueueDepth(st, d).dropped = st.dropped
<1> DEFINE n == IF st.depth + d > 0 THEN st.depth + d ELSE 0
<1>1. n \in Nat
    BY DEF Status
<1>2. AdjustQueueDepth(st, d) = [st EXCEPT !.depth = n]
    BY DEF AdjustQueueDepth
<1> HIDE DEF n
<1> QED
    BY <1>1, <1>2 DEF Status

LEMMA RoomIsNumber ==
    ASSUME NEW s, CanBeCounted(s)
    PROVE  /\ \A o \in Settled : HasBecome(s, o) \in Nat
           /\ Cardinality(Dropping(s)) \in Nat
           /\ DeliveredRoom(s) \in Int /\ FailedRoom(s) \in Int
           /\ LetterRoom(s) \in Int /\ DroppedRoom(s) \in Int
<1>1. \A o \in Settled : HasBecome(s, o) \in Nat
    BY FS_CardinalityType DEF CanBeCounted, HasBecome
<1>2. Cardinality(Dropping(s)) \in Nat
    BY FS_CardinalityType DEF CanBeCounted
<1>3. \A pcs : Debt(pcs, s) \in {0, 1}
    BY DEF Debt
<1> QED
    BY <1>1, <1>2, <1>3 DEF Settled, DeliveredRoom, FailedRoom, LetterRoom, DroppedRoom

LEMMA RoomIsNumberAgain ==
    ASSUME NEW s, CanBeCounted(s)'
    PROVE  DeliveredRoom(s)' \in Int /\ FailedRoom(s)' \in Int /\ DroppedRoom(s)' \in Int
<1>1. /\ \A o \in Settled : HasBecome(s, o)' \in Nat
      /\ Cardinality(Dropping(s)') \in Nat
    <2>1. \A o \in Settled : IsFiniteSet(Become(s, o)')
        BY DEF CanBeCounted
    <2>2. IsFiniteSet(Dropping(s)')
        BY DEF CanBeCounted
    <2> QED
        BY <2>1, <2>2, FS_CardinalityType DEF HasBecome
<1>2. \A pcs : Debt(pcs, s)' \in {0, 1}
    BY DEF Debt
<1> QED
    BY <1>1, <1>2 DEF Settled, DeliveredRoom, FailedRoom, DroppedRoom

\* The counters fit as they did where there is as much room and no new copy.
LEMMA FitAgain ==
    ASSUME CountsFit,
           \A s \in Sinks :
               /\ CanBeCounted(s)'
               /\ DeliveredRoom(s)' >= DeliveredRoom(s)
               /\ FailedRoom(s)' >= FailedRoom(s)
               /\ DroppedRoom(s)' >= DroppedRoom(s)
               /\ \A st : IsCopy(st, s)' => IsCopy(st, s) \/ Fits(st, s)'
               /\ deadLetters'[s] <= LetterRoom(s)'
    PROVE  CountsFit'
<1> SUFFICES ASSUME NEW s \in Sinks, NEW st, IsCopy(st, s) PROVE Fits(st, s)'
    BY DEF CountsFit
<1>1. CanBeCounted(s) /\ CanBeCounted(s)' /\ Fits(st, s)
    BY DEF CountsFit
<1>2. /\ DeliveredRoom(s) \in Int /\ FailedRoom(s) \in Int /\ DroppedRoom(s) \in Int
    BY <1>1, RoomIsNumber
<1>3. /\ DeliveredRoom(s)' \in Int /\ FailedRoom(s)' \in Int /\ DroppedRoom(s)' \in Int
    BY <1>1, RoomIsNumberAgain
<1>4. /\ st \in Status /\ st.delivered \in Nat /\ st.failed \in Nat /\ st.dropped \in Nat
      /\ st.delivered <= DeliveredRoom(s) /\ st.failed <= FailedRoom(s)
      /\ st.dropped <= DroppedRoom(s)
    BY <1>1 DEF Fits, Status
<1>5. /\ DeliveredRoom(s)' >= DeliveredRoom(s) /\ FailedRoom(s)' >= FailedRoom(s)
      /\ DroppedRoom(s)' >= DroppedRoom(s)
    OBVIOUS
<1>6. /\ st.delivered <= DeliveredRoom(s)' /\ st.failed <= FailedRoom(s)'
      /\ st.dropped <= DroppedRoom(s)'
    BY <1>2, <1>3, <1>4, <1>5
<1> QED
    BY <1>4, <1>6 DEF Fits

\* What has happened is the same while no outcome is settled.
LEMMA SameBecome ==
    ASSUME NEW s, CanBeCounted(s),
           \A t \in Tasks, o \in Settled : outcome'[t] = o <=> outcome[t] = o
    PROVE  \A o \in Settled : /\ Become(s, o)' = Become(s, o)
                              /\ HasBecome(s, o)' = HasBecome(s, o)
                              /\ IsFiniteSet(Become(s, o)')
<1>1. \A o \in Settled : Become(s, o)' = Become(s, o)
    BY DEF Become
<1> QED
    BY <1>1 DEF HasBecome, CanBeCounted

\* A task that is settled counts once, at its sink.
LEMMA OneMore ==
    ASSUME NEW s, CanBeCounted(s), NEW t \in Tasks, NEW o \in Settled,
           outcome \in [Tasks -> Outcomes], outcome[t] \notin Settled,
           outcome' = [outcome EXCEPT ![t] = o]
    PROVE  \A p \in Settled :
               /\ IsFiniteSet(Become(s, p)')
               /\ HasBecome(s, p)' = IF s = t[2] /\ p = o THEN HasBecome(s, p) + 1
                                     ELSE HasBecome(s, p)
<1> SUFFICES ASSUME NEW p \in Settled
             PROVE  /\ IsFiniteSet(Become(s, p)')
                    /\ HasBecome(s, p)' = IF s = t[2] /\ p = o THEN HasBecome(s, p) + 1
                                          ELSE HasBecome(s, p)
    OBVIOUS
<1>1. IsFiniteSet(Become(s, p)) /\ t \notin Become(s, p)
    BY DEF CanBeCounted, Become
<1>2. CASE s = t[2] /\ p = o
    <2>1. Become(s, p)' = Become(s, p) \union {t}
        BY <1>2 DEF Become
    <2> QED
        BY <1>1, <1>2, <2>1, FS_AddElement DEF HasBecome
<1>3. CASE ~(s = t[2] /\ p = o)
    <2>1. Become(s, p)' = Become(s, p)
        BY <1>3 DEF Become
    <2> QED
        BY <1>1, <1>3, <2>1 DEF HasBecome
<1> QED
    BY <1>2, <1>3

\* Counters of one sink are set in memory, and perhaps in the table.
LEMMA UpsertIs ==
    ASSUME NEW x, NEW v, UpsertStatus(x, v)
    PROVE  /\ DOMAIN statusRows' \subseteq DOMAIN statusRows \union {x}
           /\ \A s, w : HasEntry(statusRows', s, w) =>
                  HasEntry(statusRows, s, w) \/ (s = x /\ w = v)
<1>1. CASE statusRows' = Put(statusRows, x, v)
    BY <1>1, PutIs
<1>2. CASE UNCHANGED statusRows
    BY <1>2
<1> QED
    BY <1>1, <1>2 DEF UpsertStatus

LEMMA SetIs ==
    ASSUME NEW x, NEW v, SetStatus(x, v)
    PROVE  /\ DOMAIN statusRows' \subseteq DOMAIN statusRows \union {x}
           /\ DOMAIN statuses' \subseteq DOMAIN statuses \union {x}
           /\ \A s, w : HasEntry(statusRows', s, w) =>
                  HasEntry(statusRows, s, w) \/ (s = x /\ w = v)
           /\ \A s, w : HasEntry(statuses', s, w) =>
                  HasEntry(statuses, s, w) \/ (s = x /\ w = v)
<1>1. statuses' = Put(statuses, x, v) /\ UpsertStatus(x, v)
    BY DEF SetStatus
<1> QED
    BY <1>1, UpsertIs, PutIs

\* What is set is the only new copy.
LEMMA NewCopy ==
    ASSUME NEW x, NEW v, SetStatus(x, v), editor' = editor,
           UNCHANGED worker \/ worker'.pc # "save"
    PROVE  \A s, st : IsCopy(st, s)' => IsCopy(st, s) \/ (s = x /\ st = v)
<1> SUFFICES ASSUME NEW s, NEW st, IsCopy(st, s)' PROVE IsCopy(st, s) \/ (s = x /\ st = v)
    OBVIOUS
<1>1. /\ HasEntry(statusRows', s, st) => HasEntry(statusRows, s, st) \/ (s = x /\ st = v)
      /\ HasEntry(statuses', s, st) => HasEntry(statuses, s, st) \/ (s = x /\ st = v)
    BY SetIs
<1>2. \/ st = NoStatus \/ HasEntry(statusRows', s, st) \/ HasEntry(statuses', s, st)
      \/ Reading(st, s)
      \/ worker.pc = "save" /\ Task[2] = s /\ st = worker.snapshot
    BY DEF IsCopy, Reading, Task
<1> QED
    BY <1>1, <1>2 DEF IsCopy

LEMMA SameCopies ==
    ASSUME UNCHANGED <<statusRows, statuses, editor>>, worker'.pc # "save"
    PROVE  \A s, st : IsCopy(st, s)' => IsCopy(st, s)
BY DEF IsCopy, Reading

LEMMA StatusOfFits ==
    ASSUME CountsFit, NEW s \in Sinks
    PROVE  Fits(StatusOf(s), s) /\ StatusOf(s) \in Status
<1>1. IsCopy(StatusOf(s), s)
    BY DEF StatusOf, IsCopy, HasEntry
<1> QED
    BY <1>1 DEF CountsFit, Fits

-----------------------------------------------------------------------------
\* Nothing is settled and nothing dropped is counted.
NothingSettled ==
    /\ \A t \in Tasks, o \in Settled : outcome'[t] = o <=> outcome[t] = o
    /\ \A s \in Sinks : Dropping(s)' = Dropping(s)

LEMMA SameCounts ==
    ASSUME CountsFit, NothingSettled, NEW s \in Sinks
    PROVE  /\ CanBeCounted(s)'
           /\ \A o \in Settled : /\ HasBecome(s, o)' = HasBecome(s, o)
                                 /\ HasBecome(s, o) \in Nat
           /\ Cardinality(Dropping(s))' = Cardinality(Dropping(s))
           /\ Cardinality(Dropping(s)) \in Nat
<1>1. CanBeCounted(s)
    BY DEF CountsFit
<1>2. \A o \in Settled : /\ Become(s, o)' = Become(s, o)
                         /\ HasBecome(s, o)' = HasBecome(s, o)
                         /\ IsFiniteSet(Become(s, o)')
    BY <1>1, SameBecome DEF NothingSettled
<1>3. Dropping(s)' = Dropping(s)
    BY DEF NothingSettled
<1>4. CanBeCounted(s)'
    BY <1>1, <1>2, <1>3 DEF CanBeCounted
<1>5. \A o \in Settled : HasBecome(s, o) \in Nat
    BY <1>1, RoomIsNumber
<1>6. Cardinality(Dropping(s)) \in Nat
    BY <1>1, RoomIsNumber
<1> QED
    BY <1>2, <1>3, <1>4, <1>5, <1>6

\* The worker has settled nothing that it had not, and nothing less.
SameDebt == \A pcs \in {{"success"}, {"failure"}, {"failure", "save", "letter"}}, s \in Sinks :
                Debt(pcs, s)' = Debt(pcs, s)

LEMMA SameRooms ==
    ASSUME CountsFit, NothingSettled, SameDebt, NEW s \in Sinks
    PROVE  /\ CanBeCounted(s)'
           /\ DeliveredRoom(s)' >= DeliveredRoom(s)
           /\ FailedRoom(s)' >= FailedRoom(s)
           /\ DroppedRoom(s)' >= DroppedRoom(s)
           /\ LetterRoom(s)' = LetterRoom(s)
<1>1. /\ CanBeCounted(s)'
      /\ \A o \in Settled : /\ HasBecome(s, o)' = HasBecome(s, o)
                            /\ HasBecome(s, o) \in Nat
      /\ Cardinality(Dropping(s))' = Cardinality(Dropping(s))
      /\ Cardinality(Dropping(s)) \in Nat
    BY SameCounts
<1>2. \A pcs : Debt(pcs, s) \in {0, 1}
    BY DEF Debt
<1>3. \A pcs \in {{"success"}, {"failure"}, {"failure", "save", "letter"}} :
          Debt(pcs, s)' = Debt(pcs, s)
    BY DEF SameDebt
<1>4. DeliveredRoom(s)' >= DeliveredRoom(s)
    BY <1>1, <1>2, <1>3 DEF DeliveredRoom, Settled
<1>5. FailedRoom(s)' >= FailedRoom(s)
    BY <1>1, <1>2, <1>3 DEF FailedRoom, Settled
<1>6. LetterRoom(s)' = LetterRoom(s)
    BY <1>1, <1>2, <1>3 DEF LetterRoom, Settled
<1>7. DroppedRoom(s)' >= DroppedRoom(s)
    BY <1>1 DEF DroppedRoom, Settled
<1> QED
    BY <1>1, <1>4, <1>5, <1>6, <1>7

\* A step of another actor that settles nothing: the counters fit if the new
\* copies do.
LEMMA CountsFitAgain ==
    ASSUME CountsFit, NothingSettled, SameDebt,
           \A s \in Sinks : /\ \A st : IsCopy(st, s)' => IsCopy(st, s) \/ Fits(st, s)'
                            /\ deadLetters'[s] <= deadLetters[s],
           deadLetters \in [Sinks -> Nat], deadLetters' \in [Sinks -> Nat]
    PROVE  CountsFit'
<1> SUFFICES ASSUME NEW s \in Sinks
             PROVE  /\ CanBeCounted(s)'
                    /\ DeliveredRoom(s)' >= DeliveredRoom(s)
                    /\ FailedRoom(s)' >= FailedRoom(s)
                    /\ DroppedRoom(s)' >= DroppedRoom(s)
                    /\ \A st : IsCopy(st, s)' => IsCopy(st, s) \/ Fits(st, s)'
                    /\ deadLetters'[s] <= LetterRoom(s)'
    BY FitAgain
<1>1. /\ CanBeCounted(s)'
      /\ DeliveredRoom(s)' >= DeliveredRoom(s)
      /\ FailedRoom(s)' >= FailedRoom(s)
      /\ DroppedRoom(s)' >= DroppedRoom(s)
      /\ LetterRoom(s)' = LetterRoom(s)
    BY SameRooms
<1>2. deadLetters[s] <= LetterRoom(s) /\ CanBeCounted(s)
    BY DEF CountsFit
<1>3. LetterRoom(s) \in Int
    BY <1>2, RoomIsNumber
<1>4. deadLetters'[s] <= LetterRoom(s)'
    BY <1>1, <1>2, <1>3
<1> QED
    BY <1>1, <1>4

LEMMA SameWorker == ASSUME UNCHANGED worker PROVE SameDebt
BY DEF SameDebt, Debt, Task

LEMMA SameOwed ==
    ASSUME \A m \in Emitters : emitter'[m].owed = emitter[m].owed
    PROVE  \A s : Dropping(s)' = Dropping(s)
BY DEF Dropping

\* A counter that fits still does when there is as much room.
LEMMA StillFits ==
    ASSUME CountsFit, NothingSettled, SameDebt, NEW s \in Sinks, NEW st, Fits(st, s)
    PROVE  Fits(st, s)'
<1>1. /\ DeliveredRoom(s)' >= DeliveredRoom(s)
      /\ FailedRoom(s)' >= FailedRoom(s)
      /\ DroppedRoom(s)' >= DroppedRoom(s)
    BY SameRooms
<1>2. CanBeCounted(s) /\ CanBeCounted(s)'
    BY SameRooms DEF CountsFit
<1>3. /\ DeliveredRoom(s) \in Int /\ FailedRoom(s) \in Int /\ DroppedRoom(s) \in Int
    BY <1>2, RoomIsNumber
<1>4. /\ DeliveredRoom(s)' \in Int /\ FailedRoom(s)' \in Int /\ DroppedRoom(s)' \in Int
    BY <1>2, RoomIsNumberAgain
<1>5. /\ st \in Status /\ st.delivered \in Nat /\ st.failed \in Nat /\ st.dropped \in Nat
      /\ st.delivered <= DeliveredRoom(s) /\ st.failed <= FailedRoom(s)
      /\ st.dropped <= DroppedRoom(s)
    BY DEF Fits, Status
<1>6. /\ st.delivered <= DeliveredRoom(s)' /\ st.failed <= FailedRoom(s)'
      /\ st.dropped <= DroppedRoom(s)'
    BY <1>1, <1>3, <1>4, <1>5
<1> QED
    BY <1>5, <1>6 DEF Fits

\* The room is the same: what was counted as a debt has happened.
LEMMA RoomSame ==
    ASSUME CountsFit, UNCHANGED deadLetters,
           \A s \in Sinks :
               /\ CanBeCounted(s)'
               /\ DeliveredRoom(s)' = DeliveredRoom(s)
               /\ FailedRoom(s)' = FailedRoom(s)
               /\ DroppedRoom(s)' = DroppedRoom(s)
               /\ LetterRoom(s)' = LetterRoom(s),
           \A s, st : IsCopy(st, s)' => IsCopy(st, s)
    PROVE  CountsFit'
<1> SUFFICES ASSUME NEW s \in Sinks
             PROVE  /\ CanBeCounted(s)'
                    /\ DeliveredRoom(s)' >= DeliveredRoom(s)
                    /\ FailedRoom(s)' >= FailedRoom(s)
                    /\ DroppedRoom(s)' >= DroppedRoom(s)
                    /\ \A st : IsCopy(st, s)' => IsCopy(st, s) \/ Fits(st, s)'
                    /\ deadLetters'[s] <= LetterRoom(s)'
    BY FitAgain
<1>1. CanBeCounted(s) /\ deadLetters[s] <= LetterRoom(s)
    BY DEF CountsFit
<1>2. DeliveredRoom(s) \in Int /\ FailedRoom(s) \in Int /\ DroppedRoom(s) \in Int
    BY <1>1, RoomIsNumber
<1>3. /\ DeliveredRoom(s)' >= DeliveredRoom(s)
      /\ FailedRoom(s)' >= FailedRoom(s)
      /\ DroppedRoom(s)' >= DroppedRoom(s)
    BY <1>2
<1> QED
    BY <1>1, <1>3

-----------------------------------------------------------------------------
LEMMA WaitsStays == ASSUME WaitsOnce, UNCHANGED <<queue, worker, outcome>> PROVE WaitsOnce'
BY DEF WaitsOnce, AtWork

LEMMA WorkerStays == ASSUME WorkerTyped, UNCHANGED worker PROVE WorkerTyped'
BY DEF WorkerTyped

\* The tables' types, for whoever does not edit.
LEMMA TablesStay ==
    ASSUME TablesTyped, UNCHANGED <<table, cache, editor>>,
           DOMAIN statusRows' \subseteq Sinks, DOMAIN statuses' \subseteq Sinks,
           deadLetters' \in [Sinks -> Nat]
    PROVE  TablesTyped'
BY DEF TablesTyped

\* An emitter that is given another record of what it owes.
LEMMA EmitterIs ==
    ASSUME EmittersOK, NEW m \in Emitters, NEW v, emitter' = [emitter EXCEPT ![m] = v]
    PROVE  emitter'[m] = v /\ \A n \in Emitters \ {m} : emitter'[n] = emitter[n]
BY DEF EmittersOK

LEMMA StartEmitCounts ==
    ASSUME LogInv, NEW m \in Emitters, NEW e, NEW sinks, StartEmit(m, e, sinks)
    PROVE  CountInv'
<1>1. /\ emitter' = [emitter EXCEPT ![m].todo = {e} \X sinks]
      /\ UNCHANGED <<table, statusRows, deadLetters, cache, statuses, queue, worker,
                     editor, outcome>>
    BY DEF StartEmit
<1>2. EmittersOK /\ TablesTyped /\ WorkerTyped /\ OwedTyped /\ WaitsOnce /\ CountsFit
      /\ outcome \in [Tasks -> Outcomes]
    BY DEF LogInv, DeliveryInv, CountInv
<1>3. PICK v : v = [emitter[m] EXCEPT !.todo = {e} \X sinks]
    OBVIOUS
<1>4. v.owed = emitter[m].owed
    BY <1>2, <1>3 DEF EmittersOK, IsEmitter
<1>5. emitter' = [emitter EXCEPT ![m] = v]
    BY <1>1, <1>2, <1>3 DEF EmittersOK
<1>6. \A n \in Emitters : emitter'[n].owed = emitter[n].owed
    BY <1>2, <1>4, <1>5, EmitterIs
<1>7. OwedTyped'
    BY <1>2, <1>6 DEF OwedTyped
<1>8. NothingSettled
    BY <1>1, <1>6, SameOwed DEF NothingSettled
<1>9. CountsFit'
    <2>1. deadLetters \in [Sinks -> Nat]
        BY <1>2 DEF TablesTyped
    <2>2. \A s, st : IsCopy(st, s)' => IsCopy(st, s)
        BY <1>1 DEF IsCopy, Reading, Task
    <2>3. \A s \in Sinks : deadLetters'[s] <= deadLetters[s]
        BY <1>1, <2>1
    <2>4. SameDebt
        BY <1>1, SameWorker
    <2>5. deadLetters' \in [Sinks -> Nat]
        BY <1>1, <2>1
    <2> QED
        BY <1>2, <1>8, <2>1, <2>2, <2>3, <2>4, <2>5, CountsFitAgain
<1>10. TablesTyped'
    BY <1>1, <1>2 DEF TablesTyped
<1>11. WorkerTyped' /\ WaitsOnce' /\ outcome' \in [Tasks -> Outcomes]
    BY <1>1, <1>2, WaitsStays, WorkerStays
<1> QED
    BY <1>7, <1>9, <1>10, <1>11 DEF CountInv

\* What is offered is accepted, and waits, or is dropped, and is to be counted.
LEMMA OfferWaits ==
    ASSUME LogInv, NEW m \in Emitters, NEW t \in Tasks, Offer(m, t)
    PROVE  WaitsOnce' /\ outcome' \in [Tasks -> Outcomes]
<1>1. /\ WaitsOnce /\ WorkerTyped /\ outcome \in [Tasks -> Outcomes]
      /\ outcome[t] = "none" /\ queue \in Seq(Tasks) /\ UNCHANGED worker
    BY DEF LogInv, CountInv, DeliveryInv, QueueOK, EmittersOK, Offer
<1>2. PICK o \in {"waiting", "dropped"} : /\ outcome' = [outcome EXCEPT ![t] = o]
                                          /\ o = "waiting" => queue' = Append(queue, t)
                                          /\ o = "dropped" => queue' = queue
    BY DEF Offer
<1>3. /\ outcome' \in [Tasks -> Outcomes] /\ outcome'[t] = o
      /\ \A x \in Tasks \ {t} : outcome'[x] = outcome[x]
    BY <1>1, <1>2 DEF Outcomes
<1>4. \A i \in DOMAIN queue : /\ queue[i] \in Tasks /\ queue[i] # t
                              /\ outcome'[queue[i]] = "waiting"
    BY <1>1, <1>3 DEF WaitsOnce
<1>5. \A i, j \in DOMAIN queue : queue[i] = queue[j] => i = j
    BY <1>1 DEF WaitsOnce
<1>6. AtWork => \A x \in Tasks : worker.task = <<x>> =>
          x # t /\ outcome'[x] = "waiting" /\ \A i \in DOMAIN queue : queue[i] # x
    BY <1>1, <1>3 DEF WaitsOnce
<1>7. CASE o = "waiting"
    <2>1. /\ queue' \in Seq(Tasks) /\ Len(queue) \in Nat
          /\ queue'[Len(queue) + 1] = t
          /\ \A i \in DOMAIN queue : queue'[i] = queue[i]
          /\ \A i \in DOMAIN queue' : i \in DOMAIN queue \/ i = Len(queue) + 1
          /\ Len(queue) + 1 \notin DOMAIN queue
        BY <1>1, <1>2, <1>7
    <2>2. \A i \in DOMAIN queue' : outcome'[queue'[i]] = "waiting"
        BY <1>3, <1>4, <1>7, <2>1
    <2>3. \A i, j \in DOMAIN queue' : queue'[i] = queue'[j] => i = j
        BY <1>4, <1>5, <2>1
    <2>4. AtWork => \A x \in Tasks : worker.task = <<x>> =>
              outcome'[x] = "waiting" /\ \A i \in DOMAIN queue' : queue'[i] # x
        BY <1>6, <2>1
    <2> QED
        BY <1>1, <1>3, <2>2, <2>3, <2>4 DEF WaitsOnce, AtWork
<1>8. CASE o = "dropped"
    <2>1. queue' = queue
        BY <1>2, <1>8
    <2> QED
        BY <1>1, <1>3, <1>4, <1>5, <1>6, <2>1 DEF WaitsOnce, AtWork
<1> QED
    BY <1>7, <1>8

LEMMA OfferCounts ==
    ASSUME LogInv, NEW m \in Emitters, NEW t \in Tasks, Offer(m, t)
    PROVE  CountInv'
<1>1. /\ emitter[m].owed = {}
      /\ UNCHANGED <<table, statusRows, deadLetters, cache, statuses, worker, editor>>
    BY DEF Offer
<1>2. /\ EmittersOK /\ TablesTyped /\ WorkerTyped /\ OwedTyped /\ CountsFit
      /\ outcome \in [Tasks -> Outcomes] /\ outcome[t] = "none"
    BY DEF LogInv, DeliveryInv, CountInv, EmittersOK, Offer
<1>3. PICK o \in {"waiting", "dropped"}, d \in {"depth", "dropped"} :
          /\ (o = "waiting" /\ d = "depth") \/ (o = "dropped" /\ d = "dropped")
          /\ outcome' = [outcome EXCEPT ![t] = o]
          /\ emitter' = [emitter EXCEPT ![m] = [todo |-> @.todo \ {t}, owed |-> {<<t[2], d>>}]]
    <2>1. CASE /\ outcome' = [outcome EXCEPT ![t] = "waiting"]
               /\ emitter' = [emitter EXCEPT ![m] =
                     [todo |-> @.todo \ {t}, owed |-> {<<t[2], "depth">>}]]
        BY <2>1
    <2>2. CASE /\ outcome' = [outcome EXCEPT ![t] = "dropped"]
               /\ emitter' = [emitter EXCEPT ![m] =
                     [todo |-> @.todo \ {t}, owed |-> {<<t[2], "dropped">>}]]
        BY <2>2
    <2> QED
        BY <2>1, <2>2 DEF Offer
<1>4. d = IF o = "waiting" THEN "depth" ELSE "dropped"
    BY <1>3
<1>5. PICK v : v = [todo |-> emitter[m].todo \ {t}, owed |-> {<<t[2], d>>}]
    OBVIOUS
<1>6. emitter'[m].owed = {<<t[2], d>>} /\ \A n \in Emitters \ {m} : emitter'[n] = emitter[n]
    <2>1. emitter' = [emitter EXCEPT ![m] = v]
        BY <1>2, <1>3, <1>5 DEF EmittersOK
    <2>2. emitter'[m] = v /\ \A n \in Emitters \ {m} : emitter'[n] = emitter[n]
        BY <1>2, <2>1, EmitterIs
    <2>3. v.owed = {<<t[2], d>>}
        BY <1>5
    <2> QED
        BY <2>2, <2>3
<1>7. t[2] \in Sinks
    BY DEF Tasks
<1>8. OwedTyped'
    BY <1>2, <1>6, <1>7 DEF OwedTyped
<1>9. \A s : Dropping(s)' = IF s = t[2] /\ d = "dropped" THEN Dropping(s) \union {m}
                            ELSE Dropping(s)
    <2> SUFFICES ASSUME NEW s
                 PROVE  Dropping(s)' = IF s = t[2] /\ d = "dropped" THEN Dropping(s) \union {m}
                                       ELSE Dropping(s)
        OBVIOUS
    <2>1. \A n \in Emitters : <<s, "dropped">> \in emitter'[n].owed
              <=> <<s, "dropped">> \in emitter[n].owed \/ (n = m /\ s = t[2] /\ d = "dropped")
        BY <1>1, <1>6
    <2> QED
        BY <2>1 DEF Dropping
<1>10. CountsFit'
    <2>1. \A s, st : IsCopy(st, s)' => IsCopy(st, s)
        BY <1>1 DEF IsCopy, Reading, Task
    <2>2. deadLetters \in [Sinks -> Nat]
        BY <1>2 DEF TablesTyped
    <2>3. SameDebt
        BY <1>1, SameWorker
    <2>4. CASE o = "waiting"
        <3>1. NothingSettled
            BY <1>2, <1>3, <1>4, <1>9, <2>4 DEF NothingSettled, Settled
        <3>2. \A s \in Sinks : deadLetters'[s] <= deadLetters[s]
            BY <1>1, <2>2
        <3> QED
            BY <1>1, <1>2, <2>1, <2>2, <2>3, <3>1, <3>2, CountsFitAgain
    <2>5. CASE o = "dropped"
        <3> SUFFICES ASSUME NEW s \in Sinks
                     PROVE  /\ CanBeCounted(s)'
                            /\ DeliveredRoom(s)' = DeliveredRoom(s)
                            /\ FailedRoom(s)' = FailedRoom(s)
                            /\ DroppedRoom(s)' = DroppedRoom(s)
                            /\ LetterRoom(s)' = LetterRoom(s)
            BY <1>1, <1>2, <2>1, RoomSame
        <3>1. CanBeCounted(s)
            BY <1>2 DEF CountsFit
        <3>2. \A p \in Settled :
                  /\ IsFiniteSet(Become(s, p)')
                  /\ HasBecome(s, p)' = IF s = t[2] /\ p = "dropped" THEN HasBecome(s, p) + 1
                                        ELSE HasBecome(s, p)
            BY <1>2, <1>3, <2>5, <3>1, OneMore DEF Settled
        <3>3. \A p \in Settled : HasBecome(s, p) \in Nat
            BY <3>1, RoomIsNumber
        <3>4. IsFiniteSet(Dropping(s)) /\ m \notin Dropping(s)
            BY <1>1, <3>1 DEF CanBeCounted, Dropping
        <3>5. /\ IsFiniteSet(Dropping(s)')
              /\ Cardinality(Dropping(s))' = IF s = t[2] THEN Cardinality(Dropping(s)) + 1
                                             ELSE Cardinality(Dropping(s))
            <4>1. Dropping(s)' = IF s = t[2] THEN Dropping(s) \union {m} ELSE Dropping(s)
                BY <1>4, <1>9, <2>5
            <4> QED
                BY <3>4, <4>1, FS_AddElement
        <3>6. \A pcs \in {{"success"}, {"failure"}, {"failure", "save", "letter"}} :
                  Debt(pcs, s)' = Debt(pcs, s)
            BY <2>3 DEF SameDebt
        <3>7. CanBeCounted(s)'
            BY <3>2, <3>5 DEF CanBeCounted
        <3>8. DeliveredRoom(s)' = DeliveredRoom(s)
            BY <3>2, <3>6 DEF DeliveredRoom, Settled
        <3>9. FailedRoom(s)' = FailedRoom(s) /\ LetterRoom(s)' = LetterRoom(s)
            BY <3>2, <3>6 DEF FailedRoom, LetterRoom, Settled
        <3>10. DroppedRoom(s)' = DroppedRoom(s)
            <4>1. Cardinality(Dropping(s)) \in Nat
                BY <3>1, RoomIsNumber
            <4>2. HasBecome(s, "dropped") \in Nat
                BY <3>3 DEF Settled
            <4>3. HasBecome(s, "dropped")' = IF s = t[2] THEN HasBecome(s, "dropped") + 1
                                             ELSE HasBecome(s, "dropped")
                BY <3>2 DEF Settled
            <4> QED
                BY <3>5, <4>1, <4>2, <4>3 DEF DroppedRoom
        <3> QED
            BY <3>7, <3>8, <3>9, <3>10
    <2> QED
        BY <2>4, <2>5
<1>11. TablesTyped'
    BY <1>1, <1>2 DEF TablesTyped
<1>12. WorkerTyped' /\ WaitsOnce' /\ outcome' \in [Tasks -> Outcomes]
    BY <1>1, <1>2, OfferWaits, WorkerStays
<1> QED
    BY <1>8, <1>10, <1>11, <1>12 DEF CountInv

\* An emitter counts what it has queued or dropped.
LEMMA CountOfferCounts ==
    ASSUME LogInv, NEW m \in Emitters, CountOffer(m)
    PROVE  CountInv'
<1>1. /\ emitter' = [emitter EXCEPT ![m].owed = {}]
      /\ UNCHANGED <<table, deadLetters, cache, queue, worker, editor, outcome>>
    BY DEF CountOffer
<1>2. /\ EmittersOK /\ TablesTyped /\ WorkerTyped /\ OwedTyped /\ WaitsOnce /\ CountsFit
      /\ outcome \in [Tasks -> Outcomes]
    BY DEF LogInv, DeliveryInv, CountInv
<1>3. PICK x \in Sinks, d \in {"depth", "dropped"} : emitter[m].owed = {<<x, d>>}
    BY <1>2 DEF OwedTyped, CountOffer
<1>4. PICK v : /\ SetStatus(x, v)
               /\ v = IF d = "depth" THEN AdjustQueueDepth(StatusOf(x), 1)
                      ELSE [StatusOf(x) EXCEPT !.dropped = @ + 1]
    <2>1. PICK o \in emitter[m].owed :
              SetStatus(o[1], IF o[2] = "depth" THEN AdjustQueueDepth(StatusOf(o[1]), 1)
                              ELSE [StatusOf(o[1]) EXCEPT !.dropped = @ + 1])
        BY DEF CountOffer
    <2>2. o = <<x, d>>
        BY <1>3, <2>1
    <2>3. o[1] = x /\ o[2] = d
        BY <2>2
    <2> QED
        BY <2>1, <2>3
<1>5. PICK e : e = [emitter[m] EXCEPT !.owed = {}]
    OBVIOUS
<1>6. e.owed = {}
    BY <1>2, <1>5 DEF EmittersOK, IsEmitter
<1>7. emitter'[m] = e /\ \A n \in Emitters \ {m} : emitter'[n] = emitter[n]
    <2>1. emitter' = [emitter EXCEPT ![m] = e]
        BY <1>1, <1>2, <1>5 DEF EmittersOK
    <2> QED
        BY <1>2, <2>1, EmitterIs
<1>8. OwedTyped'
    BY <1>2, <1>6, <1>7 DEF OwedTyped
<1>9. \A s : Dropping(s)' = IF s = x /\ d = "dropped" THEN Dropping(s) \ {m} ELSE Dropping(s)
    <2> SUFFICES ASSUME NEW s
                 PROVE  Dropping(s)' = IF s = x /\ d = "dropped" THEN Dropping(s) \ {m}
                                       ELSE Dropping(s)
        OBVIOUS
    <2>1. \A n \in Emitters : <<s, "dropped">> \in emitter'[n].owed
              <=> n # m /\ <<s, "dropped">> \in emitter[n].owed
        BY <1>6, <1>7
    <2>2. <<s, "dropped">> \in emitter[m].owed => s = x /\ d = "dropped"
        BY <1>3
    <2> QED
        BY <2>1, <2>2 DEF Dropping
<1>10. /\ \A s, st : IsCopy(st, s)' => IsCopy(st, s) \/ (s = x /\ st = v)
       /\ StatusOf(x) \in Status /\ Fits(StatusOf(x), x)
       /\ DOMAIN statusRows' \subseteq Sinks /\ DOMAIN statuses' \subseteq Sinks
    <2>1. \A s, st : IsCopy(st, s)' => IsCopy(st, s) \/ (s = x /\ st = v)
        BY <1>1, <1>4, NewCopy
    <2>2. StatusOf(x) \in Status /\ Fits(StatusOf(x), x)
        BY <1>2, StatusOfFits
    <2>3. /\ DOMAIN statusRows' \subseteq DOMAIN statusRows \union {x}
          /\ DOMAIN statuses' \subseteq DOMAIN statuses \union {x}
        BY <1>4, SetIs
    <2> QED
        BY <1>2, <2>1, <2>2, <2>3 DEF TablesTyped
<1>11. SameDebt /\ \A t \in Tasks, o \in Settled : outcome'[t] = o <=> outcome[t] = o
    BY <1>1, SameWorker
<1>12. deadLetters \in [Sinks -> Nat]
    BY <1>2 DEF TablesTyped
<1>13. CASE d = "depth"
    <2>1. NothingSettled
        BY <1>9, <1>11, <1>13 DEF NothingSettled
    <2>2. Fits(v, x)
        <3>1. /\ v \in Status /\ v.delivered = StatusOf(x).delivered
              /\ v.failed = StatusOf(x).failed /\ v.dropped = StatusOf(x).dropped
            <4>1. v = AdjustQueueDepth(StatusOf(x), 1) /\ 1 \in Int
                BY <1>4, <1>13
            <4> QED
                BY <1>10, <4>1, AdjustIs
        <3> QED
            BY <1>10, <3>1 DEF Fits
    <2>3. Fits(v, x)'
        BY <1>2, <1>4, <1>11, <2>1, <2>2, StillFits
    <2>4. \A s \in Sinks : deadLetters'[s] <= deadLetters[s]
        BY <1>1, <1>12
    <2>5. CountsFit'
        BY <1>1, <1>2, <1>10, <1>11, <1>12, <2>1, <2>3, <2>4, CountsFitAgain
    <2> QED
        BY <1>1, <1>2, <1>8, <1>10, <1>12, <2>5, TablesStay, WorkerStays, WaitsStays DEF CountInv
<1>14. CASE d = "dropped"
    <2>1. ASSUME NEW s \in Sinks
          PROVE  /\ CanBeCounted(s)'
                 /\ DeliveredRoom(s)' = DeliveredRoom(s)
                 /\ FailedRoom(s)' = FailedRoom(s)
                 /\ LetterRoom(s)' = LetterRoom(s)
                 /\ DroppedRoom(s)' = IF s = x THEN DroppedRoom(s) + 1 ELSE DroppedRoom(s)
        <3>1. CanBeCounted(s)
            BY <1>2 DEF CountsFit
        <3>2. \A o \in Settled : /\ IsFiniteSet(Become(s, o)')
                                 /\ HasBecome(s, o)' = HasBecome(s, o)
                                 /\ HasBecome(s, o) \in Nat
            BY <1>11, <3>1, SameBecome, RoomIsNumber
        <3>3. /\ IsFiniteSet(Dropping(s)')
              /\ Cardinality(Dropping(s)) \in Nat
              /\ Cardinality(Dropping(s))' = IF s = x THEN Cardinality(Dropping(s)) - 1
                                             ELSE Cardinality(Dropping(s))
            <4>1. Dropping(s)' = IF s = x THEN Dropping(s) \ {m} ELSE Dropping(s)
                BY <1>9, <1>14
            <4>2. IsFiniteSet(Dropping(s)) /\ Cardinality(Dropping(s)) \in Nat
                BY <3>1, RoomIsNumber DEF CanBeCounted
            <4>3. s = x => m \in Dropping(s)
                BY <1>3, <1>14 DEF Dropping
            <4>4. CASE s = x
                BY <4>1, <4>2, <4>3, <4>4, FS_RemoveElement
            <4>5. CASE s # x
                BY <4>1, <4>2, <4>5
            <4> QED
                BY <4>4, <4>5
        <3>4. \A pcs \in {{"success"}, {"failure"}, {"failure", "save", "letter"}} :
                  Debt(pcs, s)' = Debt(pcs, s)
            BY <1>11 DEF SameDebt
        <3>5. CanBeCounted(s)'
            BY <3>2, <3>3 DEF CanBeCounted
        <3>6. DeliveredRoom(s)' = DeliveredRoom(s)
            BY <3>2, <3>4 DEF DeliveredRoom, Settled
        <3>7. FailedRoom(s)' = FailedRoom(s) /\ LetterRoom(s)' = LetterRoom(s)
            BY <3>2, <3>4 DEF FailedRoom, LetterRoom, Settled
        <3>8. DroppedRoom(s)' = IF s = x THEN DroppedRoom(s) + 1 ELSE DroppedRoom(s)
            BY <3>2, <3>3 DEF DroppedRoom, Settled
        <3> QED
            BY <3>5, <3>6, <3>7, <3>8
    <2>2. Fits(v, x)'
        <3>1. /\ v \in Status /\ v.dropped = StatusOf(x).dropped + 1
              /\ v.delivered = StatusOf(x).delivered /\ v.failed = StatusOf(x).failed
            BY <1>4, <1>10, <1>14, StatusExcept
        <3>2. CanBeCounted(x)
            BY <1>2 DEF CountsFit
        <3>3. DroppedRoom(x) \in Int /\ StatusOf(x).dropped \in Nat
            BY <1>10, <3>2, RoomIsNumber DEF Status
        <3>4. StatusOf(x).dropped <= DroppedRoom(x) /\ StatusOf(x).delivered <= DeliveredRoom(x)
              /\ StatusOf(x).failed <= FailedRoom(x)
            BY <1>10 DEF Fits
        <3>5. /\ DeliveredRoom(x)' = DeliveredRoom(x) /\ FailedRoom(x)' = FailedRoom(x)
              /\ DroppedRoom(x)' = DroppedRoom(x) + 1
            BY <2>1
        <3> QED
            BY <3>1, <3>3, <3>4, <3>5 DEF Fits
    <2>3. CountsFit'
        <3> SUFFICES ASSUME NEW s \in Sinks
                     PROVE  /\ CanBeCounted(s)'
                            /\ DeliveredRoom(s)' >= DeliveredRoom(s)
                            /\ FailedRoom(s)' >= FailedRoom(s)
                            /\ DroppedRoom(s)' >= DroppedRoom(s)
                            /\ \A st : IsCopy(st, s)' => IsCopy(st, s) \/ Fits(st, s)'
                            /\ deadLetters'[s] <= LetterRoom(s)'
            BY <1>2, FitAgain
        <3>1. CanBeCounted(s) /\ deadLetters[s] <= LetterRoom(s)
            BY <1>2 DEF CountsFit
        <3>2. DeliveredRoom(s) \in Int /\ FailedRoom(s) \in Int /\ DroppedRoom(s) \in Int
            BY <3>1, RoomIsNumber
        <3>3. /\ DeliveredRoom(s)' >= DeliveredRoom(s) /\ FailedRoom(s)' >= FailedRoom(s)
              /\ DroppedRoom(s)' >= DroppedRoom(s)
            BY <2>1, <3>2
        <3>4. \A st : IsCopy(st, s)' => IsCopy(st, s) \/ Fits(st, s)'
            BY <1>10, <2>2
        <3>5. deadLetters'[s] <= LetterRoom(s)'
            BY <1>1, <2>1, <3>1
        <3> QED
            BY <2>1, <3>3, <3>4, <3>5
    <2> QED
        BY <1>1, <1>2, <1>8, <1>10, <1>12, <2>3, TablesStay, WorkerStays, WaitsStays DEF CountInv
<1> QED
    BY <1>13, <1>14

-----------------------------------------------------------------------------
(* The worker pays a debt when it counts what it has settled.              *)

ToCount  == {"success"}
ToFail   == {"failure"}
ToLetter == {"failure", "save", "letter"}

LEMMA RoomsByDebt ==
    ASSUME CountsFit, NothingSettled, NEW s \in Sinks
    PROVE  /\ CanBeCounted(s)'
           /\ DeliveredRoom(s) \in Int /\ FailedRoom(s) \in Int
           /\ LetterRoom(s) \in Int /\ DroppedRoom(s) \in Int
           /\ \A pcs : Debt(pcs, s) \in {0, 1} /\ Debt(pcs, s)' \in {0, 1}
           /\ DeliveredRoom(s)' = DeliveredRoom(s) + Debt(ToCount, s) - Debt(ToCount, s)'
           /\ FailedRoom(s)' = FailedRoom(s) + Debt(ToFail, s) - Debt(ToFail, s)'
           /\ LetterRoom(s)' = LetterRoom(s) + Debt(ToLetter, s) - Debt(ToLetter, s)'
           /\ DroppedRoom(s)' = DroppedRoom(s)
<1>1. /\ CanBeCounted(s)'
      /\ \A o \in Settled : /\ HasBecome(s, o)' = HasBecome(s, o)
                            /\ HasBecome(s, o) \in Nat
      /\ Cardinality(Dropping(s))' = Cardinality(Dropping(s))
      /\ Cardinality(Dropping(s)) \in Nat
    BY SameCounts
<1>2. \A pcs : Debt(pcs, s) \in {0, 1} /\ Debt(pcs, s)' \in {0, 1}
    BY DEF Debt
<1>3. /\ DeliveredRoom(s) \in Int
      /\ DeliveredRoom(s)' = DeliveredRoom(s) + Debt(ToCount, s) - Debt(ToCount, s)'
    BY <1>1, <1>2 DEF DeliveredRoom, Settled, ToCount
<1>4. /\ FailedRoom(s) \in Int
      /\ FailedRoom(s)' = FailedRoom(s) + Debt(ToFail, s) - Debt(ToFail, s)'
    BY <1>1, <1>2 DEF FailedRoom, Settled, ToFail
<1>5. /\ LetterRoom(s) \in Int
      /\ LetterRoom(s)' = LetterRoom(s) + Debt(ToLetter, s) - Debt(ToLetter, s)'
    BY <1>1, <1>2 DEF LetterRoom, Settled, ToLetter
<1>6. DroppedRoom(s) \in Int /\ DroppedRoom(s)' = DroppedRoom(s)
    BY <1>1 DEF DroppedRoom, Settled
<1> QED
    BY <1>1, <1>2, <1>3, <1>4, <1>5, <1>6

LEMMA CountedFits ==
    ASSUME CountsFit, NothingSettled,
           deadLetters \in [Sinks -> Nat], deadLetters' \in [Sinks -> Nat],
           \A s \in Sinks :
               /\ Debt(ToCount, s)' <= Debt(ToCount, s) /\ Debt(ToFail, s)' <= Debt(ToFail, s)
               /\ deadLetters'[s] <= deadLetters[s] + Debt(ToLetter, s) - Debt(ToLetter, s)'
               /\ \A st : IsCopy(st, s)' => IsCopy(st, s) \/ Fits(st, s)'
    PROVE  CountsFit'
<1> SUFFICES ASSUME NEW s \in Sinks
             PROVE  /\ CanBeCounted(s)'
                    /\ DeliveredRoom(s)' >= DeliveredRoom(s)
                    /\ FailedRoom(s)' >= FailedRoom(s)
                    /\ DroppedRoom(s)' >= DroppedRoom(s)
                    /\ \A st : IsCopy(st, s)' => IsCopy(st, s) \/ Fits(st, s)'
                    /\ deadLetters'[s] <= LetterRoom(s)'
    BY FitAgain
<1>1. /\ CanBeCounted(s)'
      /\ DeliveredRoom(s) \in Int /\ FailedRoom(s) \in Int
      /\ LetterRoom(s) \in Int /\ DroppedRoom(s) \in Int
      /\ \A pcs : Debt(pcs, s) \in {0, 1} /\ Debt(pcs, s)' \in {0, 1}
      /\ DeliveredRoom(s)' = DeliveredRoom(s) + Debt(ToCount, s) - Debt(ToCount, s)'
      /\ FailedRoom(s)' = FailedRoom(s) + Debt(ToFail, s) - Debt(ToFail, s)'
      /\ LetterRoom(s)' = LetterRoom(s) + Debt(ToLetter, s) - Debt(ToLetter, s)'
      /\ DroppedRoom(s)' = DroppedRoom(s)
    BY RoomsByDebt
<1>2. deadLetters[s] <= LetterRoom(s) /\ deadLetters[s] \in Nat /\ deadLetters'[s] \in Nat
    BY DEF CountsFit
<1>3. /\ DeliveredRoom(s)' >= DeliveredRoom(s) /\ FailedRoom(s)' >= FailedRoom(s)
      /\ DroppedRoom(s)' >= DroppedRoom(s)
    BY <1>1
<1>4. deadLetters'[s] <= LetterRoom(s)'
    BY <1>1, <1>2
<1> QED
    BY <1>1, <1>3, <1>4

\* A counter that rises by a debt that is paid fits.
LEMMA PaidFits ==
    ASSUME CountsFit, NothingSettled, NEW x \in Sinks, NEW st, Fits(st, x), NEW v \in Status,
           v.delivered <= st.delivered + Debt(ToCount, x) - Debt(ToCount, x)',
           v.failed <= st.failed + Debt(ToFail, x) - Debt(ToFail, x)',
           v.dropped <= st.dropped
    PROVE  Fits(v, x)'
<1>1. /\ DeliveredRoom(x) \in Int /\ FailedRoom(x) \in Int /\ DroppedRoom(x) \in Int
      /\ \A pcs : Debt(pcs, x) \in {0, 1} /\ Debt(pcs, x)' \in {0, 1}
      /\ DeliveredRoom(x)' = DeliveredRoom(x) + Debt(ToCount, x) - Debt(ToCount, x)'
      /\ FailedRoom(x)' = FailedRoom(x) + Debt(ToFail, x) - Debt(ToFail, x)'
      /\ DroppedRoom(x)' = DroppedRoom(x)
    BY RoomsByDebt
<1>2. /\ st.delivered \in Nat /\ st.failed \in Nat /\ st.dropped \in Nat
      /\ st.delivered <= DeliveredRoom(x) /\ st.failed <= FailedRoom(x)
      /\ st.dropped <= DroppedRoom(x)
      /\ v.delivered \in Nat /\ v.failed \in Nat /\ v.dropped \in Nat
    BY DEF Fits, Status
<1>3. /\ v.delivered <= DeliveredRoom(x)' /\ v.failed <= FailedRoom(x)'
      /\ v.dropped <= DroppedRoom(x)'
    BY <1>1, <1>2
<1> QED
    BY <1>3 DEF Fits

LEMMA InHand ==
    ASSUME WorkerTyped, worker.pc # "idle"
    PROVE  worker.task = <<Task>> /\ Task \in Tasks /\ Task[2] \in Sinks
<1>1. PICK t \in Tasks : worker.task = <<t>>
    BY DEF WorkerTyped
<1>2. Task = t
    BY <1>1 DEF Task
<1> QED
    BY <1>1, <1>2 DEF Tasks

LEMMA NowIs ==
    ASSUME IsWorker(worker), NEW pc, Now(pc)
    PROVE  /\ worker'.pc = pc /\ worker'.task = worker.task
           /\ worker'.attempt = worker.attempt /\ worker'.snapshot = worker.snapshot
           /\ Task' = Task
<1>1. /\ worker'.pc = pc /\ worker'.task = worker.task
      /\ worker'.attempt = worker.attempt /\ worker'.snapshot = worker.snapshot
    BY DEF IsWorker, Now
<1> QED
    BY <1>1 DEF Task

\* What a step of the worker that only counts leaves to show.
LEMMA WorkerCounts ==
    ASSUME LogInv, UNCHANGED <<table, cache, editor, emitter, queue, outcome>>,
           \/ worker'.task = worker.task /\ worker'.attempt = worker.attempt
              /\ worker.pc # "idle" /\ worker'.pc # "idle" /\ (AtWork' => AtWork)
           \/ worker' = Idle,
           DOMAIN statusRows' \subseteq Sinks, DOMAIN statuses' \subseteq Sinks,
           deadLetters' \in [Sinks -> Nat],
           \A s \in Sinks :
               /\ Debt(ToCount, s)' <= Debt(ToCount, s) /\ Debt(ToFail, s)' <= Debt(ToFail, s)
               /\ deadLetters'[s] <= deadLetters[s] + Debt(ToLetter, s) - Debt(ToLetter, s)'
               /\ \A st : IsCopy(st, s)' => IsCopy(st, s) \/ Fits(st, s)'
    PROVE  CountInv'
<1>1. /\ TablesTyped /\ WorkerTyped /\ OwedTyped /\ WaitsOnce /\ CountsFit
      /\ outcome \in [Tasks -> Outcomes] /\ deadLetters \in [Sinks -> Nat]
    BY DEF LogInv, CountInv, TablesTyped
<1>2. NothingSettled
    BY SameOwed DEF NothingSettled
<1>3. CountsFit'
    BY <1>1, <1>2, CountedFits
<1>4. TablesTyped' /\ OwedTyped' /\ outcome' \in [Tasks -> Outcomes]
    BY <1>1 DEF TablesTyped, OwedTyped
<1>5. WorkerTyped'
    <2>1. Idle.pc = "idle" /\ Idle.task = <<>> /\ Idle.attempt = 0 /\ 0 \in 0..Attempts - 1
        BY DEF Idle
    <2> QED
        BY <1>1, <2>1 DEF WorkerTyped
<1>6. WaitsOnce'
    <2>1. AtWork' => AtWork /\ worker'.task = worker.task
        BY IdleIs DEF AtWork
    <2> QED
        BY <1>1, <2>1 DEF WaitsOnce
<1> QED
    BY <1>1, <1>3, <1>4, <1>5, <1>6 DEF CountInv

LEMMA ReceiveCounts ==
    ASSUME LogInv, Worker_Receive
    PROVE  CountInv'
<1>1. /\ worker.pc = "idle" /\ queue # <<>> /\ queue' = Tail(queue)
      /\ UNCHANGED <<table, statusRows, deadLetters, cache, statuses, emitter, editor, outcome>>
    BY DEF Worker_Receive
<1>2. /\ TablesTyped /\ WorkerTyped /\ OwedTyped /\ WaitsOnce /\ CountsFit
      /\ outcome \in [Tasks -> Outcomes] /\ queue \in Seq(Tasks)
    BY DEF LogInv, CountInv, DeliveryInv, QueueOK
<1>3. /\ worker'.pc = "depth" /\ worker'.task = <<Head(queue)>> /\ worker'.attempt = 0
    <2>1. worker' = [pc |-> "depth", task |-> <<Head(queue)>>, attempt |-> 0,
                     snapshot |-> NoStatus]
        BY DEF Worker_Receive, Idle
    <2> QED
        BY <2>1
<1>4. /\ Head(queue) \in Tasks /\ Head(queue) = queue[1] /\ 1 \in DOMAIN queue
      /\ queue' \in Seq(Tasks)
      /\ \A i \in DOMAIN queue' : /\ queue'[i] = queue[i + 1]
                                  /\ i + 1 \in DOMAIN queue /\ i + 1 # 1
      /\ \A i, j \in DOMAIN queue' : i + 1 = j + 1 => i = j
    BY <1>1, <1>2
<1>5. WorkerTyped'
    BY <1>3, <1>4 DEF WorkerTyped
<1>6. WaitsOnce'
    <2>1. \A i \in DOMAIN queue' : outcome'[queue'[i]] = "waiting" /\ queue'[i] # queue[1]
        BY <1>1, <1>2, <1>4 DEF WaitsOnce
    <2>2. \A i, j \in DOMAIN queue' : queue'[i] = queue'[j] => i = j
        BY <1>2, <1>4 DEF WaitsOnce
    <2>3. outcome'[queue[1]] = "waiting"
        BY <1>1, <1>2, <1>4 DEF WaitsOnce
    <2>4. \A t \in Tasks : worker'.task = <<t>> => t = queue[1]
        BY <1>3, <1>4
    <2> QED
        BY <2>1, <2>2, <2>3, <2>4 DEF WaitsOnce
<1>7. CountsFit'
    <2>1. NothingSettled
        BY <1>1, SameOwed DEF NothingSettled
    <2>2. SameDebt
        BY <1>1, <1>3 DEF SameDebt, Debt
    <2>3. \A s, st : IsCopy(st, s)' => IsCopy(st, s)
        BY <1>1, <1>3, SameCopies
    <2>4. deadLetters \in [Sinks -> Nat] /\ deadLetters' \in [Sinks -> Nat]
        BY <1>1, <1>2 DEF TablesTyped
    <2>5. \A s \in Sinks : deadLetters'[s] <= deadLetters[s]
        BY <1>1, <2>4
    <2> QED
        BY <1>2, <2>1, <2>2, <2>3, <2>4, <2>5, CountsFitAgain
<1>8. TablesTyped' /\ OwedTyped' /\ outcome' \in [Tasks -> Outcomes]
    BY <1>1, <1>2 DEF TablesTyped, OwedTyped
<1> QED
    BY <1>5, <1>6, <1>7, <1>8 DEF CountInv

LEMMA DepthCounts ==
    ASSUME LogInv, Worker_Depth
    PROVE  CountInv'
<1>1. /\ worker.pc = "depth" /\ Now("deliver")
      /\ UNCHANGED <<table, deadLetters, cache, queue, emitter, editor, outcome>>
    BY DEF Worker_Depth
<1>2. /\ TablesTyped /\ WorkerTyped /\ CountsFit /\ IsWorker(worker)
    BY DEF LogInv, CountInv, DeliveryInv, WorkerOK
<1>3. /\ worker'.pc = "deliver" /\ worker'.task = worker.task
      /\ worker'.attempt = worker.attempt /\ Task' = Task
    BY <1>1, <1>2, NowIs
<1>4. PICK x \in Sinks : x = Task[2]
    BY <1>1, <1>2, InHand
<1>5. PICK v : v = AdjustQueueDepth(StatusOf(x), -1) /\ SetStatus(x, v)
    BY <1>4 DEF Worker_Depth
<1>6. StatusOf(x) \in Status /\ Fits(StatusOf(x), x)
    BY <1>2, StatusOfFits
<1>7. /\ v \in Status /\ v.delivered = StatusOf(x).delivered
      /\ v.failed = StatusOf(x).failed /\ v.dropped = StatusOf(x).dropped
    <2>1. -1 \in Int
        OBVIOUS
    <2> QED
        BY <1>5, <1>6, <2>1, AdjustIs
<1>8. \A pcs \in {ToCount, ToFail, ToLetter}, s \in Sinks :
          Debt(pcs, s) = 0 /\ Debt(pcs, s)' = 0
    BY <1>1, <1>3 DEF Debt, ToCount, ToFail, ToLetter
<1>9. Fits(v, x)'
    <2>1. NothingSettled
        BY <1>1, SameOwed DEF NothingSettled
    <2>2. /\ v.delivered <= StatusOf(x).delivered + Debt(ToCount, x) - Debt(ToCount, x)'
          /\ v.failed <= StatusOf(x).failed + Debt(ToFail, x) - Debt(ToFail, x)'
          /\ v.dropped <= StatusOf(x).dropped
        BY <1>6, <1>7, <1>8 DEF Status
    <2> QED
        BY <1>2, <1>6, <1>7, <2>1, <2>2, PaidFits
<1>10. \A s, st : IsCopy(st, s)' => IsCopy(st, s) \/ (s = x /\ st = v)
    BY <1>1, <1>3, <1>5, NewCopy
<1>11. DOMAIN statusRows' \subseteq Sinks /\ DOMAIN statuses' \subseteq Sinks
    BY <1>2, <1>5, SetIs DEF TablesTyped
<1>12. /\ deadLetters \in [Sinks -> Nat] /\ deadLetters' \in [Sinks -> Nat]
    BY <1>1, <1>2 DEF TablesTyped
<1>13. \A s \in Sinks :
          /\ Debt(ToCount, s)' <= Debt(ToCount, s) /\ Debt(ToFail, s)' <= Debt(ToFail, s)
          /\ deadLetters'[s] <= deadLetters[s] + Debt(ToLetter, s) - Debt(ToLetter, s)'
    BY <1>1, <1>8, <1>12
<1>14. /\ worker.pc # "idle" /\ worker'.pc # "idle" /\ (AtWork' => AtWork)
    BY <1>1, <1>3 DEF AtWork
<1> QED
    BY <1>1, <1>3, <1>9, <1>10, <1>11, <1>12, <1>13, <1>14, WorkerCounts

LEMMA SuccessCounts ==
    ASSUME LogInv, RecordDeliverySuccess
    PROVE  CountInv'
<1>1. /\ worker.pc = "success" /\ worker' = Idle
      /\ UNCHANGED <<table, deadLetters, cache, queue, emitter, editor, outcome>>
    BY DEF RecordDeliverySuccess
<1>2. /\ TablesTyped /\ WorkerTyped /\ CountsFit
    BY DEF LogInv, CountInv
<1>3. worker'.pc = "idle"
    BY <1>1, IdleIs
<1>4. PICK x \in Sinks : x = Task[2]
    BY <1>1, <1>2, InHand
<1>5. PICK v : v = [StatusOf(x) EXCEPT !.delivered = @ + 1] /\ SetStatus(x, v)
    BY <1>4 DEF RecordDeliverySuccess
<1>6. StatusOf(x) \in Status /\ Fits(StatusOf(x), x)
    BY <1>2, StatusOfFits
<1>7. /\ v \in Status /\ v.delivered = StatusOf(x).delivered + 1
      /\ v.failed = StatusOf(x).failed /\ v.dropped = StatusOf(x).dropped
    BY <1>5, <1>6, StatusExcept
<1>8. \A s \in Sinks : /\ Debt(ToCount, s) = IF s = x THEN 1 ELSE 0
                       /\ Debt(ToCount, s)' = 0
                       /\ Debt(ToFail, s) = 0 /\ Debt(ToFail, s)' = 0
                       /\ Debt(ToLetter, s) = 0 /\ Debt(ToLetter, s)' = 0
    BY <1>1, <1>3, <1>4 DEF Debt, ToCount, ToFail, ToLetter
<1>9. Fits(v, x)'
    <2>1. NothingSettled
        BY <1>1, SameOwed DEF NothingSettled
    <2>2. /\ v.delivered <= StatusOf(x).delivered + Debt(ToCount, x) - Debt(ToCount, x)'
          /\ v.failed <= StatusOf(x).failed + Debt(ToFail, x) - Debt(ToFail, x)'
          /\ v.dropped <= StatusOf(x).dropped
        BY <1>6, <1>7, <1>8 DEF Status
    <2> QED
        BY <1>2, <1>6, <1>7, <2>1, <2>2, PaidFits
<1>10. \A s, st : IsCopy(st, s)' => IsCopy(st, s) \/ (s = x /\ st = v)
    BY <1>1, <1>3, <1>5, NewCopy
<1>11. DOMAIN statusRows' \subseteq Sinks /\ DOMAIN statuses' \subseteq Sinks
    BY <1>2, <1>5, SetIs DEF TablesTyped
<1>12. /\ deadLetters \in [Sinks -> Nat] /\ deadLetters' \in [Sinks -> Nat]
    BY <1>1, <1>2 DEF TablesTyped
<1>13. \A s \in Sinks :
          /\ Debt(ToCount, s)' <= Debt(ToCount, s) /\ Debt(ToFail, s)' <= Debt(ToFail, s)
          /\ deadLetters'[s] <= deadLetters[s] + Debt(ToLetter, s) - Debt(ToLetter, s)'
    BY <1>1, <1>8, <1>12
<1> QED
    BY <1>1, <1>9, <1>10, <1>11, <1>12, <1>13, WorkerCounts

LEMMA FailureCounts ==
    ASSUME LogInv, RecordDeliveryFailure
    PROVE  CountInv'
<1>1. /\ worker.pc = "failure"
      /\ UNCHANGED <<table, statusRows, deadLetters, cache, queue, emitter, editor, outcome>>
    BY DEF RecordDeliveryFailure
<1>2. /\ TablesTyped /\ WorkerTyped /\ CountsFit /\ IsWorker(worker)
    BY DEF LogInv, CountInv, DeliveryInv, WorkerOK
<1>3. PICK x \in Sinks : x = Task[2]
    BY <1>1, <1>2, InHand
<1>4. PICK v : /\ v = [StatusOf(x) EXCEPT !.failed = @ + 1]
               /\ statuses' = Put(statuses, x, v)
               /\ worker' = [worker EXCEPT !.pc = "save", !.snapshot = v]
    BY <1>3 DEF RecordDeliveryFailure
<1>5. /\ worker'.pc = "save" /\ worker'.task = worker.task
      /\ worker'.attempt = worker.attempt /\ worker'.snapshot = v
    BY <1>2, <1>4 DEF IsWorker
<1>6. Task' = Task
    BY <1>5 DEF Task
<1>7. StatusOf(x) \in Status /\ Fits(StatusOf(x), x)
    BY <1>2, StatusOfFits
<1>8. /\ v \in Status /\ v.failed = StatusOf(x).failed + 1
      /\ v.delivered = StatusOf(x).delivered /\ v.dropped = StatusOf(x).dropped
    BY <1>4, <1>7, StatusExcept
<1>9. \A s \in Sinks : /\ Debt(ToCount, s) = 0 /\ Debt(ToCount, s)' = 0
                       /\ Debt(ToFail, s) = IF s = x THEN 1 ELSE 0
                       /\ Debt(ToFail, s)' = 0
                       /\ Debt(ToLetter, s) = IF s = x THEN 1 ELSE 0
                       /\ Debt(ToLetter, s)' = IF s = x THEN 1 ELSE 0
    BY <1>1, <1>3, <1>5, <1>6 DEF Debt, ToCount, ToFail, ToLetter
<1>10. Fits(v, x)'
    <2>1. NothingSettled
        BY <1>1, SameOwed DEF NothingSettled
    <2>2. /\ v.delivered <= StatusOf(x).delivered + Debt(ToCount, x) - Debt(ToCount, x)'
          /\ v.failed <= StatusOf(x).failed + Debt(ToFail, x) - Debt(ToFail, x)'
          /\ v.dropped <= StatusOf(x).dropped
        BY <1>7, <1>8, <1>9 DEF Status
    <2> QED
        BY <1>2, <1>7, <1>8, <2>1, <2>2, PaidFits
<1>11. ASSUME NEW s, NEW st, IsCopy(st, s)' PROVE IsCopy(st, s) \/ (s = x /\ st = v)
    <2>1. HasEntry(statuses', s, st) => HasEntry(statuses, s, st) \/ (s = x /\ st = v)
        <3>1. statuses' = Put(statuses, x, v)
            BY <1>4
        <3> QED
            BY <3>1, PutIs
    <2>2. \/ st = NoStatus \/ HasEntry(statusRows, s, st) \/ HasEntry(statuses', s, st)
          \/ Reading(st, s) \/ (s = x /\ st = v)
        BY <1>1, <1>3, <1>5, <1>6, <1>11 DEF IsCopy, Reading
    <2> QED
        BY <2>1, <2>2 DEF IsCopy
<1>12. DOMAIN statusRows' \subseteq Sinks /\ DOMAIN statuses' \subseteq Sinks
    <2>1. statuses' = Put(statuses, x, v)
        BY <1>4
    <2>2. DOMAIN statuses' = DOMAIN statuses \union {x}
        BY <2>1, PutIs
    <2> QED
        BY <1>1, <1>2, <2>2 DEF TablesTyped
<1>13. /\ deadLetters \in [Sinks -> Nat] /\ deadLetters' \in [Sinks -> Nat]
    BY <1>1, <1>2 DEF TablesTyped
<1>14. \A s \in Sinks :
          /\ Debt(ToCount, s)' <= Debt(ToCount, s) /\ Debt(ToFail, s)' <= Debt(ToFail, s)
          /\ deadLetters'[s] <= deadLetters[s] + Debt(ToLetter, s) - Debt(ToLetter, s)'
    BY <1>1, <1>9, <1>13
<1>15. /\ worker.pc # "idle" /\ worker'.pc # "idle" /\ (AtWork' => AtWork)
    BY <1>1, <1>5 DEF AtWork
<1> QED
    BY <1>1, <1>5, <1>10, <1>11, <1>12, <1>13, <1>14, <1>15, WorkerCounts

LEMMA SaveCounts ==
    ASSUME LogInv, RecordDeliveryFailure_Save
    PROVE  CountInv'
<1>1. /\ worker.pc = "save" /\ Now("letter")
      /\ UNCHANGED <<table, deadLetters, cache, statuses, queue, emitter, editor, outcome>>
    BY DEF RecordDeliveryFailure_Save
<1>2. /\ TablesTyped /\ WorkerTyped /\ CountsFit /\ IsWorker(worker)
    BY DEF LogInv, CountInv, DeliveryInv, WorkerOK
<1>3. /\ worker'.pc = "letter" /\ worker'.task = worker.task
      /\ worker'.attempt = worker.attempt /\ Task' = Task
    BY <1>1, <1>2, NowIs
<1>4. PICK x \in Sinks : x = Task[2]
    BY <1>1, <1>2, InHand
<1>5. UpsertStatus(x, worker.snapshot)
    BY <1>4 DEF RecordDeliveryFailure_Save
<1>6. \A s \in Sinks : /\ Debt(ToCount, s) = 0 /\ Debt(ToCount, s)' = 0
                       /\ Debt(ToFail, s) = 0 /\ Debt(ToFail, s)' = 0
                       /\ Debt(ToLetter, s) = Debt(ToLetter, s)'
                       /\ Debt(ToLetter, s) \in {0, 1}
    BY <1>1, <1>3 DEF Debt, ToCount, ToFail, ToLetter
<1>7. ASSUME NEW s, NEW st, IsCopy(st, s)' PROVE IsCopy(st, s)
    <2>1. HasEntry(statusRows', s, st) =>
              HasEntry(statusRows, s, st) \/ (s = x /\ st = worker.snapshot)
        BY <1>5, UpsertIs
    <2>2. \/ st = NoStatus \/ HasEntry(statusRows', s, st) \/ HasEntry(statuses, s, st)
          \/ Reading(st, s)
        BY <1>1, <1>3, <1>7 DEF IsCopy, Reading
    <2> QED
        BY <1>1, <1>4, <2>1, <2>2 DEF IsCopy
<1>8. DOMAIN statusRows' \subseteq Sinks /\ DOMAIN statuses' \subseteq Sinks
    BY <1>1, <1>2, <1>5, UpsertIs DEF TablesTyped
<1>9. /\ deadLetters \in [Sinks -> Nat] /\ deadLetters' \in [Sinks -> Nat]
    BY <1>1, <1>2 DEF TablesTyped
<1>10. \A s \in Sinks :
          /\ Debt(ToCount, s)' <= Debt(ToCount, s) /\ Debt(ToFail, s)' <= Debt(ToFail, s)
          /\ deadLetters'[s] <= deadLetters[s] + Debt(ToLetter, s) - Debt(ToLetter, s)'
    BY <1>1, <1>6, <1>9
<1>11. /\ worker.pc # "idle" /\ worker'.pc # "idle" /\ (AtWork' => AtWork)
    BY <1>1, <1>3 DEF AtWork
<1> QED
    BY <1>1, <1>3, <1>7, <1>8, <1>9, <1>10, <1>11, WorkerCounts

LEMMA LetterCounts ==
    ASSUME LogInv, InsertDeadLetter
    PROVE  CountInv'
<1>1. /\ worker.pc = "letter"
      /\ Now("prune") \/ worker' = Idle
      /\ UNCHANGED <<table, statusRows, cache, statuses, queue, emitter, editor, outcome>>
    BY DEF InsertDeadLetter
<1>2. /\ TablesTyped /\ WorkerTyped /\ CountsFit /\ IsWorker(worker)
      /\ deadLetters \in [Sinks -> Nat]
    BY DEF LogInv, CountInv, DeliveryInv, WorkerOK, TablesTyped
<1>3. /\ worker'.pc \in {"prune", "idle"}
      /\ \/ worker'.task = worker.task /\ worker'.attempt = worker.attempt /\ worker'.pc # "idle"
         \/ worker' = Idle
    BY <1>1, <1>2, NowIs, IdleIs
<1>4. PICK x \in Sinks : x = Task[2]
    BY <1>1, <1>2, InHand
<1>5. \A s \in Sinks : /\ Debt(ToCount, s) = 0 /\ Debt(ToCount, s)' = 0
                       /\ Debt(ToFail, s) = 0 /\ Debt(ToFail, s)' = 0
                       /\ Debt(ToLetter, s) = IF s = x THEN 1 ELSE 0
                       /\ Debt(ToLetter, s)' = 0
    BY <1>1, <1>3, <1>4 DEF Debt, ToCount, ToFail, ToLetter
<1>6. /\ deadLetters' \in [Sinks -> Nat]
      /\ \A s \in Sinks : deadLetters'[s] <= deadLetters[s] + IF s = x THEN 1 ELSE 0
    <2>1. CASE UNCHANGED deadLetters
        BY <1>2, <2>1
    <2>2. CASE deadLetters' = [deadLetters EXCEPT ![x] = @ + 1]
        BY <1>2, <2>2
    <2> QED
        BY <1>4, <2>1, <2>2 DEF InsertDeadLetter
<1>7. \A s, st : IsCopy(st, s)' => IsCopy(st, s)
    BY <1>1, <1>3, SameCopies
<1>8. DOMAIN statusRows' \subseteq Sinks /\ DOMAIN statuses' \subseteq Sinks
    BY <1>1, <1>2 DEF TablesTyped
<1>9. \A s \in Sinks :
          /\ Debt(ToCount, s)' <= Debt(ToCount, s) /\ Debt(ToFail, s)' <= Debt(ToFail, s)
          /\ deadLetters'[s] <= deadLetters[s] + Debt(ToLetter, s) - Debt(ToLetter, s)'
    BY <1>2, <1>5, <1>6
<1>10. worker.pc # "idle" /\ ~AtWork'
    BY <1>1, <1>3 DEF AtWork
<1> QED
    BY <1>1, <1>3, <1>6, <1>7, <1>8, <1>9, <1>10, WorkerCounts

LEMMA PruneCounts ==
    ASSUME LogInv, PruneDeadLetters
    PROVE  CountInv'
<1>1. /\ worker.pc = "prune" /\ worker' = Idle
      /\ UNCHANGED <<table, statusRows, cache, statuses, queue, emitter, editor, outcome>>
    BY DEF PruneDeadLetters
<1>2. /\ TablesTyped /\ WorkerTyped /\ CountsFit /\ deadLetters \in [Sinks -> Nat]
    BY DEF LogInv, CountInv, TablesTyped
<1>3. worker'.pc = "idle"
    BY <1>1, IdleIs
<1>4. PICK x \in Sinks : x = Task[2]
    BY <1>1, <1>2, InHand
<1>5. \A s \in Sinks : /\ Debt(ToCount, s) = 0 /\ Debt(ToCount, s)' = 0
                       /\ Debt(ToFail, s) = 0 /\ Debt(ToFail, s)' = 0
                       /\ Debt(ToLetter, s) = 0 /\ Debt(ToLetter, s)' = 0
    BY <1>1, <1>3 DEF Debt, ToCount, ToFail, ToLetter
<1>6. /\ deadLetters' \in [Sinks -> Nat]
      /\ \A s \in Sinks : deadLetters'[s] <= deadLetters[s]
    <2>1. CASE UNCHANGED deadLetters
        BY <1>2, <2>1
    <2>2. CASE deadLetters' = [deadLetters EXCEPT
                  ![x] = IF @ > DeadLetterLimit THEN DeadLetterLimit ELSE @]
        BY <1>2, <2>2
    <2> QED
        BY <1>4, <2>1, <2>2 DEF PruneDeadLetters
<1>7. \A s, st : IsCopy(st, s)' => IsCopy(st, s)
    BY <1>1, <1>3, SameCopies
<1>8. DOMAIN statusRows' \subseteq Sinks /\ DOMAIN statuses' \subseteq Sinks
    BY <1>1, <1>2 DEF TablesTyped
<1>9. \A s \in Sinks :
          /\ Debt(ToCount, s)' <= Debt(ToCount, s) /\ Debt(ToFail, s)' <= Debt(ToFail, s)
          /\ deadLetters'[s] <= deadLetters[s] + Debt(ToLetter, s) - Debt(ToLetter, s)'
    BY <1>2, <1>5, <1>6
<1> QED
    BY <1>1, <1>6, <1>7, <1>8, <1>9, WorkerCounts

\* An attempt that settles the task makes a debt of it.
LEMMA DeliverCounts ==
    ASSUME LogInv, DeliverSyslog
    PROVE  CountInv'
<1>1. /\ worker.pc = "deliver" /\ AtWork
      /\ UNCHANGED <<table, statusRows, deadLetters, cache, statuses, queue, emitter, editor>>
    BY DEF DeliverSyslog, AtWork
<1>2. /\ TablesTyped /\ WorkerTyped /\ OwedTyped /\ WaitsOnce /\ CountsFit /\ IsWorker(worker)
      /\ outcome \in [Tasks -> Outcomes] /\ queue \in Seq(Tasks)
      /\ deadLetters \in [Sinks -> Nat] /\ worker.attempt \in 0..Attempts - 1
    BY DEF LogInv, CountInv, DeliveryInv, WorkerOK, QueueOK, TablesTyped, WorkerTyped
<1>3. PICK t \in Tasks : worker.task = <<t>> /\ Task = t /\ t[2] \in Sinks
    BY <1>1, <1>2, InHand
<1>4. outcome[t] = "waiting" /\ \A i \in DOMAIN queue : queue[i] # t
    BY <1>1, <1>2, <1>3 DEF WaitsOnce
<1>5. TablesTyped' /\ OwedTyped'
    BY <1>1, <1>2 DEF TablesTyped, OwedTyped
<1>6. \A s : Dropping(s)' = Dropping(s)
    BY <1>1, SameOwed
<1>7. CASE /\ worker.attempt + 1 < Attempts
           /\ worker' = [worker EXCEPT !.attempt = @ + 1] /\ UNCHANGED outcome
    <2>1. /\ worker'.pc = worker.pc /\ worker'.task = worker.task
          /\ worker'.attempt = worker.attempt + 1
        BY <1>2, <1>7 DEF IsWorker
    <2>2. WorkerTyped'
        BY <1>2, <1>7, <2>1 DEF WorkerTyped
    <2>3. WaitsOnce' /\ outcome' \in [Tasks -> Outcomes]
        BY <1>1, <1>2, <1>7, <2>1 DEF WaitsOnce, AtWork
    <2>4. NothingSettled /\ SameDebt
        BY <1>6, <1>7, <2>1 DEF NothingSettled, SameDebt, Debt, Task
    <2>5. \A s, st : IsCopy(st, s)' => IsCopy(st, s)
        BY <1>1, <2>1, SameCopies
    <2>6. \A s \in Sinks : deadLetters'[s] <= deadLetters[s]
        BY <1>1, <1>2
    <2>7. deadLetters' \in [Sinks -> Nat]
        BY <1>1, <1>2
    <2>8. CountsFit'
        BY <1>2, <2>4, <2>5, <2>6, <2>7, CountsFitAgain
    <2> QED
        BY <1>5, <2>2, <2>3, <2>8 DEF CountInv
<1>8. ASSUME NEW o \in {"delivered", "failed"}, NEW pc,
             pc = IF o = "delivered" THEN "success" ELSE "failure",
             Now(pc), outcome' = [outcome EXCEPT ![t] = o]
      PROVE  CountInv'
    <2>1. /\ worker'.pc = pc /\ worker'.task = worker.task
          /\ worker'.attempt = worker.attempt /\ Task' = t
        BY <1>2, <1>3, <1>8, NowIs
    <2>2. pc \in {"success", "failure"}
        BY <1>8
    <2>3. WorkerTyped'
        BY <1>1, <1>2, <2>1, <2>2 DEF WorkerTyped
    <2>4. /\ outcome' \in [Tasks -> Outcomes]
          /\ \A x \in Tasks \ {t} : outcome'[x] = outcome[x]
        BY <1>2, <1>8 DEF Outcomes
    <2>5. WaitsOnce'
        <3>1. ~AtWork'
            BY <2>1, <2>2 DEF AtWork
        <3>2. \A i \in DOMAIN queue : queue[i] \in Tasks
            BY <1>2
        <3> QED
            BY <1>1, <1>2, <1>4, <2>4, <3>1, <3>2 DEF WaitsOnce
    <2>6. \A s, st : IsCopy(st, s)' => IsCopy(st, s)
        BY <1>1, <2>1, <2>2, SameCopies
    <2>7. ASSUME NEW s \in Sinks
          PROVE  /\ CanBeCounted(s)'
                 /\ DeliveredRoom(s)' = DeliveredRoom(s)
                 /\ FailedRoom(s)' = FailedRoom(s)
                 /\ DroppedRoom(s)' = DroppedRoom(s)
                 /\ LetterRoom(s)' = LetterRoom(s)
        <3>1. CanBeCounted(s)
            BY <1>2 DEF CountsFit
        <3>2. \A p \in Settled :
                  /\ IsFiniteSet(Become(s, p)')
                  /\ HasBecome(s, p)' = IF s = t[2] /\ p = o THEN HasBecome(s, p) + 1
                                        ELSE HasBecome(s, p)
            BY <1>2, <1>4, <1>8, <3>1, OneMore DEF Settled
        <3>3. /\ HasBecome(s, "delivered") \in Nat /\ HasBecome(s, "failed") \in Nat
              /\ HasBecome(s, "dropped") \in Nat
            BY <3>1, RoomIsNumber DEF Settled
        <3>4. /\ HasBecome(s, "delivered")' = IF s = t[2] /\ o = "delivered"
                                              THEN HasBecome(s, "delivered") + 1
                                              ELSE HasBecome(s, "delivered")
              /\ HasBecome(s, "failed")' = IF s = t[2] /\ o = "failed"
                                           THEN HasBecome(s, "failed") + 1
                                           ELSE HasBecome(s, "failed")
              /\ HasBecome(s, "dropped")' = HasBecome(s, "dropped")
            BY <3>2 DEF Settled
        <3>5. \A pcs \in {{"success"}, {"failure"}, {"failure", "save", "letter"}} :
                  Debt(pcs, s) = 0
            BY <1>1 DEF Debt
        <3>6. /\ Debt({"success"}, s)' = IF s = t[2] /\ o = "delivered" THEN 1 ELSE 0
              /\ Debt({"failure"}, s)' = IF s = t[2] /\ o = "failed" THEN 1 ELSE 0
              /\ Debt({"failure", "save", "letter"}, s)' =
                     IF s = t[2] /\ o = "failed" THEN 1 ELSE 0
            BY <1>8, <2>1 DEF Debt
        <3>7. CanBeCounted(s)'
            BY <1>6, <3>1, <3>2 DEF CanBeCounted
        <3>8. DeliveredRoom(s)' = DeliveredRoom(s)
            BY <3>3, <3>4, <3>5, <3>6 DEF DeliveredRoom
        <3>9. FailedRoom(s)' = FailedRoom(s)
            BY <3>3, <3>4, <3>5, <3>6 DEF FailedRoom
        <3>10. LetterRoom(s)' = LetterRoom(s)
            BY <3>3, <3>4, <3>5, <3>6 DEF LetterRoom
        <3>11. DroppedRoom(s)' = DroppedRoom(s)
            BY <1>6, <3>4 DEF DroppedRoom
        <3> QED
            BY <3>7, <3>8, <3>9, <3>10, <3>11
    <2>8. CountsFit'
        BY <1>1, <1>2, <2>6, <2>7, RoomSame
    <2> QED
        BY <1>5, <2>3, <2>4, <2>5, <2>8 DEF CountInv
<1>9. CASE Now("success") /\ outcome' = [outcome EXCEPT ![Task] = "delivered"]
    BY <1>3, <1>8, <1>9
<1>10. CASE Now("failure") /\ outcome' = [outcome EXCEPT ![Task] = "failed"]
    BY <1>3, <1>8, <1>10
<1> QED
    BY <1>7, <1>9, <1>10 DEF DeliverSyslog

LEMMA WorkerStep == LogInv /\ WorkerNext => CountInv'
BY ReceiveCounts, DepthCounts, DeliverCounts, SuccessCounts, FailureCounts, SaveCounts,
   LetterCounts, PruneCounts DEF WorkerNext

-----------------------------------------------------------------------------
(* Administrators: every status they store, load or read is a copy that    *)
(* there was.                                                              *)

LEMMA WithoutIs ==
    ASSUME NEW f, NEW S
    PROVE  /\ DOMAIN Without(f, S) \subseteq DOMAIN f
           /\ \A s, v : HasEntry(Without(f, S), s, v) => HasEntry(f, s, v)
<1>1. DOMAIN Without(f, S) \subseteq DOMAIN f
    BY DEF Without
<1>2. ASSUME NEW s, NEW v, HasEntry(Without(f, S), s, v) PROVE HasEntry(f, s, v)
    BY <1>2 DEF Without, HasEntry
<1> QED
    BY <1>1, <1>2

LEMMA NoneIs ==
    ASSUME NEW S
    PROVE  /\ DOMAIN [s \in S |-> NoStatus] = S
           /\ \A s, v : HasEntry([x \in S |-> NoStatus], s, v) => v = NoStatus
BY DEF HasEntry

LEMMA LoadedIs ==
    ASSUME NEW read, NEW known, NEW sinks
    PROVE  /\ DOMAIN Loaded(read, known, sinks) \subseteq DOMAIN read \union DOMAIN known \union sinks
           /\ \A s, v : HasEntry(Loaded(read, known, sinks), s, v) =>
                  HasEntry(read, s, v) \/ HasEntry(known, s, v) \/ v = NoStatus
<1> DEFINE r == Over(read, known)
           n == [s \in sinks |-> NoStatus]
<1>1. DOMAIN n = sinks /\ \A s, v : HasEntry(n, s, v) => v = NoStatus
    BY NoneIs
<1>2. /\ DOMAIN r = DOMAIN read \union DOMAIN known
      /\ \A s, v : HasEntry(r, s, v) => HasEntry(read, s, v) \/ HasEntry(known, s, v)
    BY OverIs
<1>3. Loaded(read, known, sinks) = Over(r, n)
    BY DEF Loaded
<1> HIDE DEF r, n
<1>4. /\ DOMAIN Over(r, n) = DOMAIN r \union DOMAIN n
      /\ \A s, v : HasEntry(Over(r, n), s, v) => HasEntry(r, s, v) \/ HasEntry(n, s, v)
    BY OverIs
<1>5. DOMAIN Loaded(read, known, sinks) \subseteq DOMAIN read \union DOMAIN known \union sinks
    <2>1. DOMAIN Loaded(read, known, sinks) = DOMAIN r \union DOMAIN n
        BY <1>3, <1>4
    <2> QED
        BY <1>1, <1>2, <2>1
<1>6. ASSUME NEW s, NEW v, HasEntry(Loaded(read, known, sinks), s, v)
      PROVE  HasEntry(read, s, v) \/ HasEntry(known, s, v) \/ v = NoStatus
    <2>1. HasEntry(r, s, v) \/ HasEntry(n, s, v)
        BY <1>3, <1>4, <1>6
    <2> QED
        BY <1>1, <1>2, <2>1
<1> QED
    BY <1>5, <1>6

LEMMA NothingToRead == DOMAIN <<>> = {} /\ \A s, v : ~HasEntry(<<>>, s, v)
BY EmptyDomain DEF HasEntry

LEMMA NoEditReads == NoEdit.read = <<>> /\ RequestTyped(NoEdit)
BY EmptyDomain DEF NoEdit, RequestTyped, NoConfig, Config

\* What the request is about, after its next statement.
LEMMA AdvanceReads ==
    ASSUME EditorInv, TablesTyped, NEW d \in Admins, editor[d].plan # <<>>
    PROVE  /\ RequestTyped(Advance(d))
           /\ \A s, v : HasEntry(Advance(d).read, s, v) => HasEntry(editor[d].read, s, v)
<1>1. CASE Len(editor[d].plan) = 1
    <2>1. Advance(d) = NoEdit
        BY <1>1 DEF Advance
    <2> QED
        BY <2>1, NoEditReads, NothingToRead
<1>2. CASE Len(editor[d].plan) # 1
    <2>1. PICK e : e = [editor[d] EXCEPT !.plan = Tail(@)]
        OBVIOUS
    <2>2. IsEditor(editor[d]) /\ RequestTyped(editor[d])
        BY DEF EditorInv, TablesTyped
    <2>3. /\ e.read = editor[d].read /\ e.sink = editor[d].sink
          /\ e.routes = editor[d].routes /\ e.config = editor[d].config
        BY <2>1, <2>2 DEF IsEditor
    <2>4. Advance(d) = e
        BY <1>2, <2>1 DEF Advance
    <2> QED
        BY <2>2, <2>3, <2>4 DEF RequestTyped
<1> QED
    BY <1>1, <1>2

\* One request is given another record, whose reload has read copies.
LEMMA RequestReads ==
    ASSUME LogInv, NEW d \in Admins, NEW e, editor' = [editor EXCEPT ![d] = e], RequestTyped(e),
           \A s, st : HasEntry(e.read, s, st) => IsCopy(st, s)
    PROVE  /\ \A a \in Admins : RequestTyped(editor'[a])
           /\ \A s, st : Reading(st, s)' => IsCopy(st, s)
<1>1. EditorInv /\ TablesTyped
    BY DEF LogInv, CountInv
<1>2. editor'[d] = e /\ \A a \in Admins : a # d => editor'[a] = editor[a]
    BY <1>1, EditIs
<1>3. \A a \in Admins : RequestTyped(editor'[a])
    <2> SUFFICES ASSUME NEW a \in Admins PROVE RequestTyped(editor'[a])
        OBVIOUS
    <2>1. RequestTyped(editor[a])
        BY <1>1 DEF TablesTyped
    <2> QED
        BY <1>2, <2>1
<1>4. ASSUME NEW s, NEW st, Reading(st, s)' PROVE IsCopy(st, s)
    <2>1. PICK a \in Admins : HasEntry(editor'[a].read, s, st)
        BY <1>4 DEF Reading
    <2>2. CASE a = d
        BY <1>2, <2>1, <2>2
    <2>3. CASE a # d
        BY <1>2, <2>1, <2>3 DEF IsCopy, Reading
    <2> QED
        BY <2>2, <2>3
<1> QED
    BY <1>3, <1>4

\* An administrative step leaves the delivery and so what has happened.
LEMMA EditCounts ==
    ASSUME LogInv, UNCHANGED <<queue, worker, emitter, outcome>>, TablesTyped',
           \A s, st : HasEntry(statusRows', s, st) => IsCopy(st, s),
           \A s, st : HasEntry(statuses', s, st) => IsCopy(st, s),
           \A s, st : Reading(st, s)' => IsCopy(st, s),
           \A s \in Sinks : deadLetters'[s] <= deadLetters[s]
    PROVE  CountInv'
<1>1. /\ TablesTyped /\ WorkerTyped /\ OwedTyped /\ WaitsOnce /\ CountsFit
      /\ outcome \in [Tasks -> Outcomes]
    BY DEF LogInv, CountInv
<1>2. NothingSettled /\ SameDebt
    BY SameOwed, SameWorker DEF NothingSettled
<1>3. ASSUME NEW s, NEW st, IsCopy(st, s)' PROVE IsCopy(st, s)
    <2>1. \/ st = NoStatus \/ HasEntry(statusRows', s, st) \/ HasEntry(statuses', s, st)
          \/ Reading(st, s)'
          \/ worker.pc = "save" /\ Task[2] = s /\ st = worker.snapshot
        BY <1>3 DEF IsCopy, Reading, Task
    <2>2. CASE st = NoStatus \/ (worker.pc = "save" /\ Task[2] = s /\ st = worker.snapshot)
        BY <2>2 DEF IsCopy
    <2> QED
        BY <2>1, <2>2
<1>4. deadLetters \in [Sinks -> Nat] /\ deadLetters' \in [Sinks -> Nat]
    BY <1>1 DEF TablesTyped
<1>5. CountsFit'
    BY <1>1, <1>2, <1>3, <1>4, CountsFitAgain
<1>6. WorkerTyped' /\ WaitsOnce' /\ OwedTyped' /\ outcome' \in [Tasks -> Outcomes]
    BY <1>1, WorkerStays, WaitsStays DEF OwedTyped
<1> QED
    BY <1>5, <1>6 DEF CountInv

LEMMA OldCopies ==
    ASSUME NEW s, NEW st,
           \/ HasEntry(statusRows, s, st) \/ HasEntry(statuses, s, st)
           \/ Reading(st, s) \/ st = NoStatus
    PROVE  IsCopy(st, s)
BY DEF IsCopy

\* A step that edits neither the statuses nor the dead letters.
LEMMA PlainEditCounts ==
    ASSUME LogInv, UNCHANGED <<statusRows, statuses, deadLetters, queue, worker, emitter, outcome>>,
           table' \in Config, cache' \in Config,
           \A a \in Admins : RequestTyped(editor'[a]),
           \A s, st : Reading(st, s)' => IsCopy(st, s)
    PROVE  CountInv'
<1>1. TablesTyped
    BY DEF LogInv, CountInv
<1>2. TablesTyped'
    BY <1>1 DEF TablesTyped
<1>3. \A s \in Sinks : deadLetters'[s] <= deadLetters[s]
    BY <1>1 DEF TablesTyped
<1>4. /\ \A s, st : HasEntry(statusRows', s, st) => IsCopy(st, s)
      /\ \A s, st : HasEntry(statuses', s, st) => IsCopy(st, s)
    BY OldCopies
<1> QED
    BY <1>2, <1>3, <1>4, EditCounts

\* A step that gives one request another record and edits neither.
LEMMA RequestCounts ==
    ASSUME LogInv, UNCHANGED <<statusRows, statuses, deadLetters, queue, worker, emitter, outcome>>,
           table' \in Config, cache' \in Config,
           NEW d \in Admins, NEW e, editor' = [editor EXCEPT ![d] = e], RequestTyped(e),
           \A s, st : HasEntry(e.read, s, st) => IsCopy(st, s)
    PROVE  CountInv'
<1>1. /\ \A a \in Admins : RequestTyped(editor'[a])
      /\ \A s, st : Reading(st, s)' => IsCopy(st, s)
    BY RequestReads
<1> QED
    BY <1>1, PlainEditCounts

LEMMA StartEditCounts ==
    ASSUME LogInv, NEW d \in Admins, NEW plan, NEW s \in SUBSET Sinks, NEW on,
           NEW routes \in SUBSET Sinks, StartEdit(d, plan, s, on, routes)
    PROVE  CountInv'
<1>1. PICK e : e = [plan |-> plan, sink |-> s, on |-> on, routes |-> routes,
                    config |-> NoConfig, read |-> <<>>]
    OBVIOUS
<1>2. e.read = <<>> /\ RequestTyped(e)
    BY <1>1, EmptyDomain DEF RequestTyped, NoConfig, Config
<1>3. editor' = [editor EXCEPT ![d] = e]
    BY <1>1 DEF StartEdit
<1>4. /\ UNCHANGED <<statusRows, statuses, deadLetters, queue, worker, emitter, outcome>>
      /\ table' \in Config /\ cache' \in Config
    BY DEF StartEdit, LogInv, CountInv, TablesTyped
<1> QED
    BY <1>2, <1>3, <1>4, NothingToRead, RequestCounts

LEMMA EditorCounts ==
    ASSUME LogInv, NEW d \in Admins, EditorNext(d)
    PROVE  CountInv'
<1>1. UNCHANGED <<queue, worker, emitter, outcome>>
    BY EditorLeavesDelivery
<1>2. EditorInv /\ TablesTyped
    BY DEF LogInv, CountInv
<1>3. /\ table \in Config /\ cache \in Config
      /\ RequestTyped(editor[d])
      /\ DOMAIN statusRows \subseteq Sinks /\ DOMAIN statuses \subseteq Sinks
      /\ deadLetters \in [Sinks -> Nat]
    BY <1>2 DEF TablesTyped
<1>4. PICK n : n = Advance(d)
    OBVIOUS
<1>5. ASSUME editor[d].plan # <<>>
      PROVE  /\ IsEditor(n) /\ RequestTyped(n)
             /\ \A s, st : HasEntry(n.read, s, st) => IsCopy(st, s)
    <2>1. IsEditor(n)
        BY <1>2, <1>4, <1>5, AdvanceIs
    <2>2. RequestTyped(n) /\ \A s, v : HasEntry(n.read, s, v) => HasEntry(editor[d].read, s, v)
        BY <1>2, <1>4, <1>5, AdvanceReads
    <2>3. \A s, v : HasEntry(editor[d].read, s, v) => IsCopy(v, s)
        BY DEF IsCopy, Reading
    <2> QED
        BY <2>1, <2>2, <2>3
<1>6. ASSUME UNCHANGED <<statusRows, statuses, deadLetters>>, editor[d].plan # <<>>,
             Advanced(d), table' \in Config, cache' \in Config
      PROVE  CountInv'
    <2>1. editor' = [editor EXCEPT ![d] = n]
        BY <1>4, <1>6 DEF Advanced, Edits
    <2> QED
        BY <1>1, <1>5, <1>6, <2>1, RequestCounts
<1>7. ASSUME UNCHANGED <<statusRows, statuses, deadLetters, table, cache>>, Fails(d)
      PROVE  CountInv'
    <2>1. PICK e : e = NoEdit
        OBVIOUS
    <2>2. editor' = [editor EXCEPT ![d] = e] /\ RequestTyped(e) /\ e.read = <<>>
        BY <1>7, <2>1, NoEditReads DEF Fails
    <2> QED
        BY <1>1, <1>3, <1>7, <2>2, NothingToRead, RequestCounts
<1>8. ASSUME editor[d].plan # <<>>, Advanced(d)
      PROVE  /\ \A a \in Admins : RequestTyped(editor'[a])
             /\ \A s, st : Reading(st, s)' => IsCopy(st, s)
    <2>1. editor' = [editor EXCEPT ![d] = n]
        BY <1>4, <1>8 DEF Advanced, Edits
    <2> QED
        BY <1>5, <1>8, <2>1, RequestReads
<1>9. FindSink \subseteq Sinks
    BY <1>3 DEF FindSink, Config
<1>10. CASE CreateSink(d) \/ UpdateSink(d) \/ DeleteSink(d) \/ UpdateRoutes(d)
    <2>1. CASE CreateSink(d)
        <3>1. PICK s \in Sinks, on \in BOOLEAN : StartEdit(d, CreatePlan, {s}, on, {})
            BY <2>1 DEF CreateSink
        <3> QED
            BY <3>1, StartEditCounts
    <2>2. CASE UpdateSink(d)
        <3>1. PICK s \in FindSink, on \in BOOLEAN : StartEdit(d, UpdatePlan, {s}, on, {})
            BY <2>2 DEF UpdateSink
        <3> QED
            BY <1>9, <3>1, StartEditCounts
    <2>3. CASE DeleteSink(d)
        <3>1. PICK s \in FindSink : StartEdit(d, DeletePlan, {s}, FALSE, {})
            BY <2>3 DEF DeleteSink
        <3>2. {s} \in SUBSET Sinks /\ {} \in SUBSET Sinks
            BY <1>9
        <3> QED
            BY <3>1, <3>2, StartEditCounts
    <2>4. CASE UpdateRoutes(d)
        <3>1. PICK routes \in SUBSET cache.sinks : StartEdit(d, RoutesPlan, {}, FALSE, routes)
            BY <2>4 DEF UpdateRoutes
        <3>2. routes \in SUBSET Sinks
            BY <1>3, <3>1 DEF Config
        <3> QED
            BY <3>1, <3>2, StartEditCounts
    <2> QED
        BY <1>10, <2>1, <2>2, <2>3, <2>4
<1>11. CASE UpsertSink(d)
    <2>1. table' \in Config
        BY <1>3, <1>11 DEF UpsertSink, Config, RequestTyped
    <2> QED
        BY <1>3, <1>6, <1>11, <2>1 DEF UpsertSink, Doing
<1>12. CASE UpsertRoutes(d)
    <2>1. table' \in Config
        BY <1>3, <1>12 DEF UpsertRoutes, Config, RequestTyped
    <2> QED
        BY <1>3, <1>6, <1>12, <2>1 DEF UpsertRoutes, Doing
<1>13. CASE LoadConfig(d)
    BY <1>3, <1>6, <1>13 DEF LoadConfig, Doing, RequestTyped
<1>14. CASE EnsureStatus(d)
    <2>1. editor[d].plan # <<>> /\ Advanced(d) /\ UNCHANGED <<table, deadLetters, cache>>
        BY <1>14 DEF EnsureStatus, Doing
    <2>2. PICK x \in editor[d].sink :
              UNCHANGED <<statuses, statusRows>> \/ SetStatus(x, NoStatus)
        BY <1>14 DEF EnsureStatus
    <2>3. CASE UNCHANGED <<statuses, statusRows>>
        BY <1>3, <1>6, <2>1, <2>3
    <2>4. CASE SetStatus(x, NoStatus)
        <3>1. /\ DOMAIN statusRows' \subseteq DOMAIN statusRows \union {x}
              /\ DOMAIN statuses' \subseteq DOMAIN statuses \union {x}
              /\ \A s, w : HasEntry(statusRows', s, w) =>
                     HasEntry(statusRows, s, w) \/ w = NoStatus
              /\ \A s, w : HasEntry(statuses', s, w) =>
                     HasEntry(statuses, s, w) \/ w = NoStatus
            BY <2>4, SetIs
        <3>2. /\ \A a \in Admins : RequestTyped(editor'[a])
              /\ \A s, st : Reading(st, s)' => IsCopy(st, s)
            BY <1>8, <2>1
        <3>3. TablesTyped'
            <4>1. x \in Sinks
                BY <1>3 DEF RequestTyped
            <4> QED
                BY <1>3, <2>1, <3>1, <3>2, <4>1 DEF TablesTyped
        <3>4. /\ \A s, st : HasEntry(statusRows', s, st) => IsCopy(st, s)
              /\ \A s, st : HasEntry(statuses', s, st) => IsCopy(st, s)
            BY <3>1, OldCopies
        <3>5. \A s \in Sinks : deadLetters'[s] <= deadLetters[s]
            BY <1>3, <2>1
        <3> QED
            BY <1>1, <3>2, <3>3, <3>4, <3>5, EditCounts
    <2> QED
        BY <2>2, <2>3, <2>4
<1>15. CASE DeleteSinkRow(d) \/ DeleteStatus(d)
    <2>1. editor[d].plan # <<>> /\ Advanced(d) /\ UNCHANGED <<cache, statuses>>
        BY <1>15 DEF DeleteSinkRow, DeleteStatus, Doing
    <2>2. table' \in Config
        BY <1>3, <1>15 DEF DeleteSinkRow, DeleteStatus, Config
    <2>3. UNCHANGED statusRows \/ statusRows' = Without(statusRows, editor[d].sink)
        BY <1>15 DEF DeleteSinkRow, DeleteStatus
    <2>4. /\ DOMAIN statusRows' \subseteq DOMAIN statusRows
          /\ \A s, st : HasEntry(statusRows', s, st) => HasEntry(statusRows, s, st)
        BY <2>3, WithoutIs
    <2>5. /\ deadLetters' \in [Sinks -> Nat]
          /\ \A s \in Sinks : deadLetters'[s] <= deadLetters[s]
        <3>1. CASE UNCHANGED deadLetters
            BY <1>3, <3>1
        <3>2. CASE deadLetters' = [s \in Sinks |->
                                       IF s \in editor[d].sink THEN 0 ELSE deadLetters[s]]
            BY <1>3, <3>2
        <3> QED
            BY <1>15, <3>1, <3>2 DEF DeleteSinkRow, DeleteStatus
    <2>6. /\ \A a \in Admins : RequestTyped(editor'[a])
          /\ \A s, st : Reading(st, s)' => IsCopy(st, s)
        BY <1>8, <2>1
    <2>7. TablesTyped'
        BY <1>3, <2>1, <2>2, <2>4, <2>5, <2>6 DEF TablesTyped
    <2>8. /\ \A s, st : HasEntry(statusRows', s, st) => IsCopy(st, s)
          /\ \A s, st : HasEntry(statuses', s, st) => IsCopy(st, s)
        BY <2>1, <2>4, OldCopies
    <2> QED
        BY <1>1, <2>5, <2>6, <2>7, <2>8, EditCounts
<1>16. CASE FilterRoutes(d)
    <2>1. /\ UNCHANGED <<table, statusRows, deadLetters, cache, statuses>>
          /\ editor[d].plan # <<>>
        BY <1>16 DEF FilterRoutes, Doing
    <2>2. PICK e : e = [n EXCEPT !.routes = cache.routes \ editor[d].sink]
        OBVIOUS
    <2>3. editor' = [editor EXCEPT ![d] = e]
        BY <1>4, <1>16, <2>2 DEF FilterRoutes, Edits
    <2>4. /\ e.sink = n.sink /\ e.read = n.read /\ e.config = n.config
          /\ e.routes = cache.routes \ editor[d].sink
        BY <1>5, <2>1, <2>2 DEF IsEditor
    <2>5. RequestTyped(e)
        BY <1>3, <1>5, <2>1, <2>4 DEF RequestTyped, Config
    <2> QED
        BY <1>1, <1>3, <1>5, <2>1, <2>3, <2>4, <2>5, RequestCounts
<1>17. CASE ValidateRoutes(d)
    BY <1>3, <1>6, <1>7, <1>17 DEF ValidateRoutes, Doing
<1>18. CASE ListSinks(d) \/ LoadRoutes(d)
    <2>1. /\ UNCHANGED <<table, statusRows, deadLetters, cache, statuses>>
          /\ editor[d].plan # <<>>
        BY <1>18 DEF ListSinks, LoadRoutes, Doing
    <2>2. IsEditor(n) /\ RequestTyped(n)
        BY <1>5, <2>1
    <2>3. PICK c \in Config : editor' = [editor EXCEPT ![d] = [n EXCEPT !.config = c]]
        <3>1. CASE ListSinks(d)
            <4>1. [table EXCEPT !.routes = {}] \in Config
                BY <1>3 DEF Config
            <4> QED
                BY <1>4, <3>1, <4>1 DEF ListSinks, Edits
        <3>2. CASE LoadRoutes(d)
            <4>1. PICK c : c = [n.config EXCEPT !.routes = table.routes]
                OBVIOUS
            <4>2. c \in Config
                BY <1>3, <2>2, <4>1 DEF Config, RequestTyped
            <4>3. [n EXCEPT !.config = [@ EXCEPT !.routes = table.routes]]
                      = [n EXCEPT !.config = c]
                BY <2>2, <4>1 DEF IsEditor
            <4>4. editor' = [editor EXCEPT ![d] =
                      [n EXCEPT !.config = [@ EXCEPT !.routes = table.routes]]]
                BY <1>4, <3>2 DEF LoadRoutes, Edits
            <4> QED
                BY <4>2, <4>3, <4>4
        <3> QED
            BY <1>18, <3>1, <3>2
    <2>4. PICK e : e = [n EXCEPT !.config = c]
        OBVIOUS
    <2>5. e.sink = n.sink /\ e.read = n.read /\ e.routes = n.routes /\ e.config = c
        BY <2>2, <2>4 DEF IsEditor
    <2>6. RequestTyped(e)
        BY <2>2, <2>5 DEF RequestTyped
    <2> QED
        BY <1>1, <1>3, <1>5, <2>1, <2>3, <2>4, <2>5, <2>6, RequestCounts
<1>19. CASE ListStatuses(d)
    <2>1. /\ UNCHANGED <<table, statusRows, deadLetters, cache, statuses>>
          /\ editor[d].plan # <<>>
        BY <1>19 DEF ListStatuses, Doing
    <2>2. PICK e : e = [n EXCEPT !.read = statusRows]
        OBVIOUS
    <2>3. editor' = [editor EXCEPT ![d] = e]
        BY <1>4, <1>19, <2>2 DEF ListStatuses, Edits
    <2>4. /\ e.sink = n.sink /\ e.read = statusRows /\ e.routes = n.routes
          /\ e.config = n.config
        BY <1>5, <2>1, <2>2 DEF IsEditor
    <2>5. \A s, st : HasEntry(e.read, s, st) => IsCopy(st, s)
        BY <2>4, OldCopies
    <2>6. RequestTyped(e)
        BY <1>3, <1>5, <2>1, <2>4 DEF RequestTyped
    <2> QED
        BY <1>1, <1>3, <2>1, <2>3, <2>5, <2>6, RequestCounts
<1>20. CASE LoadStatuses(d)
    <2>1. /\ UNCHANGED <<table, deadLetters, cache>> /\ editor[d].plan # <<>> /\ Advanced(d)
          /\ statuses' = Loaded(editor[d].read, statuses, editor[d].config.sinks)
        BY <1>20 DEF LoadStatuses, Doing
    <2>2. editor[d].config.sinks \subseteq Sinks /\ DOMAIN editor[d].read \subseteq Sinks
        BY <1>3 DEF Config, RequestTyped
    <2>3. /\ DOMAIN statuses' \subseteq Sinks
          /\ \A s, st : HasEntry(statuses', s, st) => IsCopy(st, s)
        <3>1. /\ DOMAIN statuses' \subseteq
                     DOMAIN editor[d].read \union DOMAIN statuses \union editor[d].config.sinks
              /\ \A s, st : HasEntry(statuses', s, st) =>
                     HasEntry(editor[d].read, s, st) \/ HasEntry(statuses, s, st) \/ st = NoStatus
            BY <2>1, LoadedIs
        <3>2. \A s, st : HasEntry(editor[d].read, s, st) => Reading(st, s)
            BY DEF Reading
        <3> QED
            BY <1>3, <2>2, <3>1, <3>2, OldCopies
    <2>4. /\ DOMAIN statusRows' \subseteq Sinks
          /\ \A s, st : HasEntry(statusRows', s, st) => IsCopy(st, s)
        <3>1. CASE UNCHANGED statusRows
            BY <1>3, <3>1, OldCopies
        <3>2. ASSUME NEW f, f = Without(statuses', DOMAIN editor[d].read \union DOMAIN statuses),
                     statusRows' = Over(f, statusRows)
              PROVE  /\ DOMAIN statusRows' \subseteq Sinks
                     /\ \A s, st : HasEntry(statusRows', s, st) => IsCopy(st, s)
            <4>1. /\ DOMAIN f \subseteq DOMAIN statuses'
                  /\ \A s, st : HasEntry(f, s, st) => HasEntry(statuses', s, st)
                BY <3>2, WithoutIs
            <4>2. DOMAIN statusRows' = DOMAIN f \union DOMAIN statusRows
                BY <3>2, OverIs
            <4>3. \A s, st : HasEntry(statusRows', s, st) =>
                      HasEntry(f, s, st) \/ HasEntry(statusRows, s, st)
                BY <3>2, OverIs
            <4> QED
                BY <1>3, <2>3, <4>1, <4>2, <4>3, OldCopies
        <3> QED
            BY <1>20, <3>1, <3>2 DEF LoadStatuses
    <2>5. /\ \A a \in Admins : RequestTyped(editor'[a])
          /\ \A s, st : Reading(st, s)' => IsCopy(st, s)
        BY <1>8, <2>1
    <2>6. TablesTyped'
        BY <1>3, <2>1, <2>3, <2>4, <2>5 DEF TablesTyped
    <2>7. \A s \in Sinks : deadLetters'[s] <= deadLetters[s]
        BY <1>3, <2>1
    <2> QED
        BY <1>1, <2>3, <2>4, <2>5, <2>6, <2>7, EditCounts
<1>21. CASE EditFails(d)
    BY <1>7, <1>21 DEF EditFails
<1> QED
    BY <1>10, <1>11, <1>12, <1>13, <1>14, <1>15, <1>16, <1>17, <1>18, <1>19, <1>20, <1>21
    DEF EditorNext

\* The server stops: what was to be counted is forgotten, what was counted and
\* stored is read again.
LEMMA RestartCounts ==
    ASSUME LogInv, Restart
    PROVE  CountInv'
<1>1. /\ cache' = table /\ statuses' = Loaded(statusRows, <<>>, table.sinks)
      /\ statusRows' = statuses'
      /\ queue' = <<>> /\ worker' = Idle /\ emitter' = [m \in Emitters |-> NotEmitting]
      /\ editor' = [d \in Admins |-> NoEdit] /\ UNCHANGED <<table, deadLetters>>
      /\ outcome' = [t \in Tasks |-> IF outcome[t] = "waiting" THEN "lost" ELSE outcome[t]]
    BY DEF Restart
<1>2. TablesTyped /\ CountsFit /\ outcome \in [Tasks -> Outcomes]
    BY DEF LogInv, CountInv
<1>3. /\ table \in Config /\ DOMAIN statusRows \subseteq Sinks
      /\ deadLetters \in [Sinks -> Nat]
    BY <1>2 DEF TablesTyped
<1>4. /\ DOMAIN statuses' \subseteq Sinks
      /\ \A s, st : HasEntry(statuses', s, st) => HasEntry(statusRows, s, st) \/ st = NoStatus
    <2>1. /\ DOMAIN statuses' \subseteq DOMAIN statusRows \union DOMAIN <<>> \union table.sinks
          /\ \A s, st : HasEntry(statuses', s, st) =>
                 HasEntry(statusRows, s, st) \/ HasEntry(<<>>, s, st) \/ st = NoStatus
        BY <1>1, LoadedIs
    <2>2. table.sinks \subseteq Sinks
        BY <1>3 DEF Config
    <2> QED
        BY <1>3, <2>1, <2>2, NothingToRead
<1>5. \A d \in Admins : editor'[d].read = <<>> /\ RequestTyped(editor'[d])
    BY <1>1, NoEditReads
<1>6. TablesTyped'
    BY <1>1, <1>3, <1>4, <1>5, NothingToRead DEF TablesTyped
<1>7. worker'.pc = "idle" /\ worker'.task = <<>> /\ worker'.attempt = 0
    BY <1>1 DEF Idle
<1>8. \A m \in Emitters : emitter'[m].owed = {}
    BY <1>1, NotEmittingIs
<1>9. WorkerTyped' /\ OwedTyped' /\ WaitsOnce'
    BY <1>1, <1>7, <1>8 DEF WorkerTyped, OwedTyped, WaitsOnce, AtWork
<1>10. outcome' \in [Tasks -> Outcomes]
    BY <1>1, <1>2 DEF Outcomes
<1>11. CountsFit'
    <2> SUFFICES ASSUME NEW s \in Sinks
                 PROVE  /\ CanBeCounted(s)'
                        /\ DeliveredRoom(s)' >= DeliveredRoom(s)
                        /\ FailedRoom(s)' >= FailedRoom(s)
                        /\ DroppedRoom(s)' >= DroppedRoom(s)
                        /\ \A st : IsCopy(st, s)' => IsCopy(st, s) \/ Fits(st, s)'
                        /\ deadLetters'[s] <= LetterRoom(s)'
        BY <1>2, FitAgain
    <2>1. CanBeCounted(s) /\ deadLetters[s] <= LetterRoom(s)
        BY <1>2 DEF CountsFit
    <2>2. \A t \in Tasks, o \in Settled : outcome'[t] = o <=> outcome[t] = o
        BY <1>1, <1>2 DEF Settled
    <2>3. \A o \in Settled : /\ HasBecome(s, o)' = HasBecome(s, o)
                             /\ IsFiniteSet(Become(s, o)')
                             /\ HasBecome(s, o) \in Nat
        BY <2>1, <2>2, SameBecome, RoomIsNumber
    <2>4. Dropping(s)' = {}
        BY <1>8 DEF Dropping
    <2>5. Cardinality(Dropping(s))' = 0 /\ IsFiniteSet(Dropping(s)')
        BY <2>4, FS_EmptySet
    <2>6. Cardinality(Dropping(s)) \in Nat
        BY <2>1, RoomIsNumber
    <2>7. \A pcs \in {{"success"}, {"failure"}, {"failure", "save", "letter"}} :
              Debt(pcs, s) \in {0, 1} /\ Debt(pcs, s)' = 0
        BY <1>7 DEF Debt
    <2>8. CanBeCounted(s)'
        BY <2>3, <2>5 DEF CanBeCounted
    <2>9. DeliveredRoom(s)' >= DeliveredRoom(s)
        BY <2>3, <2>7 DEF DeliveredRoom, Settled
    <2>10. FailedRoom(s)' >= FailedRoom(s)
        BY <2>3, <2>7 DEF FailedRoom, Settled
    <2>11. DroppedRoom(s)' >= DroppedRoom(s)
        BY <2>3, <2>5, <2>6 DEF DroppedRoom, Settled
    <2>12. ASSUME NEW st, IsCopy(st, s)' PROVE IsCopy(st, s)
        <3>1. \/ st = NoStatus \/ HasEntry(statuses', s, st) \/ HasEntry(<<>>, s, st)
            BY <1>1, <1>5, <1>7, <2>12 DEF IsCopy, Reading
        <3> QED
            BY <1>4, <3>1, NothingToRead, OldCopies
    <2>13. deadLetters'[s] <= LetterRoom(s)'
        <3>1. deadLetters[s] \in Nat /\ deadLetters'[s] = deadLetters[s]
            BY <1>1, <1>3
        <3> QED
            BY <2>1, <2>3, <2>7, <3>1 DEF LetterRoom, Settled
    <2> QED
        BY <2>8, <2>9, <2>10, <2>11, <2>12, <2>13
<1> QED
    BY <1>6, <1>9, <1>10, <1>11 DEF CountInv

LEMMA InitCounts == LogInit => CountInv
<1> SUFFICES ASSUME LogInit PROVE CountInv
    OBVIOUS
<1>1. PICK S \in SUBSET Sinks : table = [sinks |-> S, enabled |-> S, routes |-> S]
    BY DEF LogInit
<1>2. /\ statusRows = [s \in S |-> NoStatus] /\ statuses = statusRows
      /\ deadLetters = [s \in Sinks |-> 0] /\ cache = table
      /\ queue = <<>> /\ worker = Idle /\ emitter = [m \in Emitters |-> NotEmitting]
      /\ editor = [d \in Admins |-> NoEdit] /\ outcome = [t \in Tasks |-> "none"]
    BY <1>1 DEF LogInit
<1>3. \A d \in Admins : editor[d].read = <<>> /\ RequestTyped(editor[d])
    BY <1>2, NoEditReads
<1>4. worker.pc = "idle" /\ worker.task = <<>> /\ worker.attempt = 0
    BY <1>2 DEF Idle
<1>5. \A m \in Emitters : emitter[m].owed = {}
    BY <1>2, NotEmittingIs
<1>6. /\ DOMAIN statusRows = S /\ DOMAIN statuses = S
      /\ \A s, v : HasEntry(statusRows, s, v) => v = NoStatus
      /\ \A s, v : HasEntry(statuses, s, v) => v = NoStatus
    BY <1>2, NoneIs
<1>7. TablesTyped
    BY <1>1, <1>2, <1>3, <1>6, NothingToRead DEF TablesTyped, Config
<1>8. WorkerTyped /\ OwedTyped /\ WaitsOnce /\ outcome \in [Tasks -> Outcomes]
    BY <1>2, <1>4, <1>5 DEF WorkerTyped, OwedTyped, WaitsOnce, AtWork, Outcomes
<1>9. CountsFit
    <2> SUFFICES ASSUME NEW s \in Sinks
                 PROVE  /\ CanBeCounted(s)
                        /\ \A st : IsCopy(st, s) => Fits(st, s)
                        /\ deadLetters[s] <= LetterRoom(s)
        BY DEF CountsFit
    <2>1. \A o \in Settled : Become(s, o) = {}
        BY <1>2 DEF Become, Settled
    <2>2. Dropping(s) = {}
        BY <1>5 DEF Dropping
    <2>3. \A o \in Settled : HasBecome(s, o) = 0
        BY <2>1, FS_EmptySet DEF HasBecome
    <2>4. CanBeCounted(s)
        BY <2>1, <2>2, FS_EmptySet DEF CanBeCounted
    <2>5. \A pcs \in {{"success"}, {"failure"}, {"failure", "save", "letter"}} : Debt(pcs, s) = 0
        BY <1>4 DEF Debt
    <2>6. /\ DeliveredRoom(s) = 0 /\ FailedRoom(s) = 0
          /\ LetterRoom(s) = 0 /\ DroppedRoom(s) = 0
        <3>1. Cardinality(Dropping(s)) = 0
            BY <2>2, FS_EmptySet
        <3> QED
            BY <2>3, <2>5, <3>1 DEF DeliveredRoom, FailedRoom, LetterRoom, DroppedRoom, Settled
    <2>7. ASSUME NEW st, IsCopy(st, s) PROVE st = NoStatus
        BY <1>3, <1>4, <1>6, <2>7, NothingToRead DEF IsCopy, Reading
    <2>8. Fits(NoStatus, s)
        BY <2>6, NoStatusIs DEF Fits, NoStatus
    <2> QED
        BY <1>2, <2>4, <2>6, <2>7, <2>8
<1> QED
    BY <1>7, <1>8, <1>9 DEF CountInv

LEMMA CountStep == LogInv /\ [LogNext]_logVars => CountInv'
<1> SUFFICES ASSUME LogInv, [LogNext]_logVars PROVE CountInv'
    OBVIOUS
<1>1. ASSUME NEW m \in Emitters, Emit(m) \/ TestDelivery(m)
      PROVE  CountInv'
    BY <1>1, StartEmitCounts DEF Emit, TestDelivery
<1>2. ASSUME NEW m \in Emitters, CountOffer(m)
      PROVE  CountInv'
    BY <1>2, CountOfferCounts
<1>3. ASSUME NEW m \in Emitters, NEW t \in Tasks, Offer(m, t)
      PROVE  CountInv'
    BY <1>3, OfferCounts
<1>4. CASE UNCHANGED logVars
    <2>1. UNCHANGED <<table, statusRows, deadLetters, cache, statuses, queue, worker,
                      emitter, editor, outcome>>
        BY <1>4 DEF logVars, volatile
    <2>2. TablesTyped
        BY DEF LogInv, CountInv
    <2> QED
        BY <2>1, <2>2, OldCopies, PlainEditCounts DEF TablesTyped, Reading
<1> QED
    BY <1>1, <1>2, <1>3, <1>4, WorkerStep, EditorCounts, RestartCounts DEF LogNext

\* The table, the memory, the reload under way and the write under way: what
\* each of them says of a sink has happened (SetStatus, LoadStatuses).
THEOREM CountersInvariance == LogSpec => []LogInv
<1>1. LogInit => LogInv
    BY InitEditor, InitDelivery, InitCounts DEF LogInv
<1>2. LogInv /\ [LogNext]_logVars => LogInv'
    BY EditorStep, DeliveryStep, CountStep DEF LogInv
<1> QED
    BY <1>1, <1>2, PTL DEF LogSpec

\* The queue never holds more than the channel can and the worker tries no more
\* often than the schedule says (NewService, deliverWithRetry).
THEOREM LogExportIsTyped == LogSpec => []LogTypeOK
<1>1. ASSUME LogInv PROVE LogTypeOK
    <2>1. /\ TablesTyped /\ WorkerTyped /\ CountsFit /\ outcome \in [Tasks -> Outcomes]
          /\ queue \in Seq(Tasks) /\ Len(queue) <= QueueSize
        BY <1>1 DEF LogInv, CountInv, DeliveryInv, QueueOK
    <2>2. ASSUME NEW f \in {statusRows, statuses} \union {editor[d].read : d \in Admins}
          PROVE  DOMAIN f \subseteq Sinks /\ \A s \in DOMAIN f : f[s] \in Status
        <3>1. f = statusRows \/ f = statuses \/ \E d \in Admins : f = editor[d].read
            BY <2>2
        <3>2. DOMAIN f \subseteq Sinks
            BY <2>1, <3>1 DEF TablesTyped, RequestTyped
        <3>3. ASSUME NEW s \in DOMAIN f PROVE f[s] \in Status
            <4>1. s \in Sinks
                BY <3>2
            <4>2. PICK st : st = f[s]
                OBVIOUS
            <4>3. HasEntry(f, s, st)
                BY <4>2 DEF HasEntry
            <4>4. IsCopy(st, s)
                BY <3>1, <4>3 DEF IsCopy, Reading
            <4>5. Fits(st, s)
                BY <2>1, <4>1, <4>4 DEF CountsFit
            <4> QED
                BY <4>2, <4>5 DEF Fits
        <3> QED
            BY <3>2, <3>3
    <2>3. \A i \in DOMAIN worker.task : worker.task[i] \in Tasks
        <3>1. CASE worker.pc = "idle"
            BY <2>1, <3>1, EmptyDomain DEF WorkerTyped
        <3>2. CASE worker.pc # "idle"
            <4>1. PICK t \in Tasks : worker.task = <<t>>
                BY <2>1, <3>2 DEF WorkerTyped
            <4> QED
                BY <4>1
        <3> QED
            BY <3>1, <3>2
    <2> QED
        BY <2>1, <2>2, <2>3 DEF LogTypeOK, TablesTyped, RequestTyped, WorkerTyped, Outcomes
<1> QED
    BY <1>1, CountersInvariance, PTL

\* What GetStatus shows of a sink, and what the table will show after a
\* restart, has happened, whatever reloads, writes and faults interleave.
THEOREM CountersAreHonest == LogSpec => []CountersNeverExceed
<1>1. ASSUME LogInv PROVE CountersNeverExceed
    <2>1. TablesTyped /\ CountsFit
        BY <1>1 DEF LogInv, CountInv
    <2>2. ASSUME NEW s \in Sinks, NEW st, IsCopy(st, s) PROVE HasHappened(st, s)
        <3>1. CanBeCounted(s) /\ Fits(st, s)
            BY <2>1, <2>2 DEF CountsFit
        <3>2. /\ HasBecome(s, "delivered") \in Nat /\ HasBecome(s, "failed") \in Nat
              /\ HasBecome(s, "dropped") \in Nat /\ Cardinality(Dropping(s)) \in Nat
            BY <3>1, RoomIsNumber DEF Settled
        <3>3. /\ st.delivered \in Nat /\ st.failed \in Nat /\ st.dropped \in Nat
              /\ st.delivered <= DeliveredRoom(s) /\ st.failed <= FailedRoom(s)
              /\ st.dropped <= DroppedRoom(s)
            BY <3>1 DEF Fits, Status
        <3>4. \A pcs : Debt(pcs, s) \in {0, 1}
            BY DEF Debt
        <3> QED
            BY <3>2, <3>3, <3>4 DEF HasHappened, DeliveredRoom, FailedRoom, DroppedRoom
    <2>3. ASSUME NEW s \in Sinks PROVE deadLetters[s] <= HasBecome(s, "failed")
        <3>1. CanBeCounted(s) /\ deadLetters[s] <= LetterRoom(s) /\ deadLetters[s] \in Nat
            BY <2>1 DEF CountsFit, TablesTyped
        <3>2. HasBecome(s, "failed") \in Nat
            BY <3>1, RoomIsNumber DEF Settled
        <3>3. \A pcs : Debt(pcs, s) \in {0, 1}
            BY DEF Debt
        <3> QED
            BY <3>1, <3>2, <3>3 DEF LetterRoom
    <2>4. ASSUME NEW s \in DOMAIN statuses
          PROVE  s \in Sinks /\ HasHappened(statuses[s], s)
        <3>1. PICK st : st = statuses[s]
            OBVIOUS
        <3>2. s \in Sinks /\ IsCopy(st, s)
            BY <2>1, <3>1, OldCopies DEF TablesTyped, HasEntry
        <3> QED
            BY <2>2, <3>1, <3>2
    <2>5. ASSUME NEW s \in DOMAIN statusRows PROVE HasHappened(statusRows[s], s)
        <3>1. PICK st : st = statusRows[s]
            OBVIOUS
        <3>2. s \in Sinks /\ IsCopy(st, s)
            BY <2>1, <3>1, OldCopies DEF TablesTyped, HasEntry
        <3> QED
            BY <2>2, <3>1, <3>2
    <2>6. /\ DOMAIN GetStatus = DOMAIN statuses
          /\ \A s \in DOMAIN statuses : /\ GetStatus[s].counters = statuses[s]
                                        /\ GetStatus[s].letters = deadLetters[s]
        BY DEF GetStatus
    <2> QED
        BY <2>3, <2>4, <2>5, <2>6 DEF CountersNeverExceed
<1> QED
    BY <1>1, CountersInvariance, PTL
===============================================================================
