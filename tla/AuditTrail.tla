------------------------------ MODULE AuditTrail ------------------------------
(***************************************************************************)
(* The audit log (internal/audit, auditrepo, api/audit_export.go): events  *)
(* are chained by the hash of the latest one, under a mutex of the server  *)
(* process, and exported page by page while more are recorded.             *)
(*                                                                         *)
(* A step is one statement.  A hash is the id of its row.  created_at is a *)
(* text whose order need not be that of time: RFC3339Nano drops trailing   *)
(* zeros, and "...5Z" sorts after "...51Z".                                *)
(***************************************************************************)
EXTENDS Naturals, Sequences, FiniteSets

CONSTANTS
    EventIds,    \* ids that newEventID may draw, ordered
    Recorders,   \* calls of Record at the same time
    Servers,     \* processes that share the database
    LastInstant, \* bound: time goes from 1 to here
    TextRank,    \* the place of each instant's text among the others
    PageSize     \* events per page of an export

ASSUME AuditAssumption ==
    /\ EventIds \subseteq Nat \ {0}
    /\ LastInstant \in Nat \ {0}
    /\ TextRank \in [1..LastInstant -> Nat]
    /\ PageSize \in Nat \ {0}

VARIABLES
    clock,
    event,       \* audit_events: the rows, in the order they were inserted
    server,      \* which process each recorder belongs to
    recorder,    \* calls of Record in progress
    holder,      \* Service.mu of each server: the recorder that holds it
    export       \* the export in progress or finished

audVars == <<clock, event, server, recorder, holder, export>>

Root == 0

NotRecording == [pc |-> "none", id |-> Root, at |-> 1, prev |-> Root]
NotExporting == [pc |-> "none", cursor |-> <<>>, lines |-> <<>>, before |-> {}]

AudInit ==
    /\ clock = 1
    /\ event = <<>>
    /\ server \in [Recorders -> Servers]
    /\ recorder = [c \in Recorders |-> NotRecording]
    /\ holder = [s \in Servers |-> {}]
    /\ export = NotExporting

Rows == {event[i] : i \in DOMAIN event}

\* ORDER BY created_at, id
Older(r, s) ==
    \/ TextRank[r.at] < TextRank[s.at]
    \/ TextRank[r.at] = TextRank[s.at] /\ r.id < s.id

-----------------------------------------------------------------------------
Tick ==
    /\ clock < LastInstant
    /\ clock' = clock + 1
    /\ UNCHANGED <<event, server, recorder, holder, export>>

\* The id and created_at are taken before the mutex.
Record_Stamp(c) ==
    \E id \in EventIds :
        /\ recorder[c].pc = "none"
        /\ id \notin {r.id : r \in Rows} \union {recorder[d].id : d \in Recorders}
        /\ recorder' = [recorder EXCEPT ![c] =
               [NotRecording EXCEPT !.pc = "stamped", !.id = id, !.at = clock]]
        /\ UNCHANGED <<clock, event, server, holder, export>>

Latest == {r \in Rows : \A s \in Rows : s = r \/ Older(s, r)}

\* Mutant: the mutex is taken for the insertion only.
Record_LatestHash_Unlocked(c) ==
    /\ recorder[c].pc = "stamped"
    /\ recorder' = [recorder EXCEPT
           ![c].pc = "read",
           ![c].prev = IF Latest = {} THEN Root ELSE (CHOOSE r \in Latest : TRUE).id]
    /\ UNCHANGED <<clock, event, server, holder, export>>

Record_LatestHash(c) ==
    /\ recorder[c].pc = "stamped"
    /\ holder[server[c]] = {}
    /\ holder' = [holder EXCEPT ![server[c]] = {c}]
    /\ recorder' = [recorder EXCEPT
           ![c].pc = "read",
           ![c].prev = IF Latest = {} THEN Root ELSE (CHOOSE r \in Latest : TRUE).id]
    /\ UNCHANGED <<clock, event, server, export>>

Record_Returns(c) ==
    /\ holder' = [holder EXCEPT ![server[c]] = @ \ {c}]
    /\ recorder' = [recorder EXCEPT ![c] = NotRecording]
    /\ UNCHANGED <<clock, server, export>>

Record_Insert(c) ==
    /\ recorder[c].pc = "read"
    /\ event' = Append(event, [id |-> recorder[c].id, at |-> recorder[c].at,
                               prev |-> recorder[c].prev, server |-> server[c]])
    /\ Record_Returns(c)

Record_Fails(c) ==
    /\ recorder[c].pc # "none"
    /\ UNCHANGED event
    /\ Record_Returns(c)

-----------------------------------------------------------------------------
(* ExportNDJSON, newest to oldest; every row matches the filter.           *)

\* Mutant: the cursor goes on strictly before its time.
Beyond_TimeOnly(cursor, r) ==
    cursor = <<>> \/ TextRank[r.at] < TextRank[cursor[1].at]

Beyond(cursor, r) == cursor = <<>> \/ Older(r, cursor[1])

\* The rows of ListPage: the first of those beyond the cursor.
IsPage(page, cursor) ==
    LET left == {r \in Rows : Beyond(cursor, r)}
        got  == {page[i] : i \in DOMAIN page} IN
    /\ got \subseteq left
    /\ Len(page) = IF Cardinality(left) < PageSize THEN Cardinality(left) ELSE PageSize
    /\ \A i, j \in DOMAIN page : i < j => Older(page[j], page[i])
    /\ \A r \in got, s \in left \ got : Older(s, r)

Pages == UNION {[1..n -> Rows] : n \in 0..PageSize}

ExportNDJSON ==
    /\ export.pc # "paging"
    /\ export' = [NotExporting EXCEPT !.pc = "paging", !.before = Rows]
    /\ UNCHANGED <<clock, event, server, recorder, holder>>

ListPage ==
    \E page \in Pages :
        /\ export.pc = "paging"
        /\ IsPage(page, export.cursor)
        /\ LET hasMore == \E r \in Rows : Beyond(export.cursor, r)
                                          /\ \A i \in DOMAIN page : page[i] # r IN
           export' = [export EXCEPT
               !.lines = @ \o page,
               !.pc = IF hasMore THEN "paging" ELSE "done",
               !.cursor = IF hasMore THEN <<page[Len(page)]>> ELSE @]
        /\ UNCHANGED <<clock, event, server, recorder, holder>>

\* The statement fails or the client goes away; the temporary file is removed.
Export_Fails ==
    /\ export.pc = "paging"
    /\ export' = NotExporting
    /\ UNCHANGED <<clock, event, server, recorder, holder>>

AudNext ==
    \/ Tick
    \/ \E c \in Recorders :
        \/ Record_Stamp(c) \/ Record_LatestHash(c)
        \/ Record_Insert(c) \/ Record_Fails(c)
    \/ ExportNDJSON \/ ListPage \/ Export_Fails

AudSpec == AudInit /\ [][AudNext]_audVars

-----------------------------------------------------------------------------
\* A finished export has every event that was in the table when it began, and
\* no event twice, whatever was recorded between its pages, at the same
\* instant or with an older stamp (ListPage, ExportNDJSON).
ExportIsComplete ==
    export.pc = "done" =>
        /\ \A r \in export.before : \E i \in DOMAIN export.lines : export.lines[i] = r
        /\ \A i, j \in DOMAIN export.lines :
               export.lines[i] = export.lines[j] => i = j

\* Two events follow the same one only if two processes recorded them, or if
\* the first of them was not the latest by its text when the second was
\* recorded: the mutex leaves no other way to fork the chain (Record).
ForksAreExplained ==
    \A i, j \in DOMAIN event :
        /\ i < j
        /\ event[i].prev = event[j].prev
        => \/ event[i].server # event[j].server
           \/ \E k \in 1..j - 1 : Older(event[i], event[k])
=============================================================================
