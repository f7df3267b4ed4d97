------------------------------ MODULE RateLimiter ------------------------------
(***************************************************************************)
(* The rate limiter that servers share (api/rate_limit_db.go,              *)
(* ratelimitrepo): attempts of one key are counted, and then recorded, by  *)
(* two statements.  Instants are stored as RFC 3339 texts without trailing *)
(* zeros, and the statements compare texts: "...05.5Z" sorts before        *)
(* "...05Z".                                                               *)
(***************************************************************************)
EXTENDS Naturals, FiniteSets

CONSTANTS
    Callers,     \* calls of allow at the same time
    MaxN,        \* attempts admitted per window
    Window,      \* length of the window
    Horizon,     \* bound: time goes from Window to here
    SecondOf,    \* the second that an instant lies in
    TextPlace    \* the place of an instant's text in the order of texts

ASSUME RateAssumption ==
    /\ IsFiniteSet(Callers)
    /\ MaxN \in Nat \ {0}
    /\ Window \in Nat
    /\ Horizon \in Nat
    /\ Window <= Horizon

\* Texts of different seconds sort as time does: only fractions vary in width.
ASSUME TextAssumption ==
    /\ SecondOf \in [0..Horizon -> Nat]
    /\ TextPlace \in [0..Horizon -> Nat]
    /\ \A s, t \in 0..Horizon : s <= t => SecondOf[s] <= SecondOf[t]
    /\ \A s, t \in 0..Horizon : SecondOf[s] < SecondOf[t] => TextPlace[s] < TextPlace[t]

VARIABLES
    time,
    entries,     \* rate_limit_entries: rows, numbered among those of an instant
    caller       \* calls of allow in progress

rateVars == <<time, entries, caller>>

Instants == 0..Horizon
Moments  == Window..Horizon   \* those at which a window can end
NotCalling == [pc |-> "none", at |-> Window]
Calling    == {c \in Callers : caller[c] # NotCalling}

RateInit ==
    /\ time = Window
    /\ entries = {}
    /\ caller = [c \in Callers |-> NotCalling]

TimeAdvances ==
    /\ time < Horizon
    /\ time' = time + 1
    /\ UNCHANGED <<entries, caller>>

Allow(c) ==
    /\ caller[c].pc = "none"
    /\ caller' = [caller EXCEPT ![c] = [pc |-> "count", at |-> time]]
    /\ UNCHANGED <<time, entries>>

\* The instants whose texts sort after that of the start of the window that
\* ends at t.
Within(t) == {s \in Instants : TextPlace[s] > TextPlace[t - Window]}
RowsOf(S) == {r \in entries : r.at \in S}
Total(S)  == Cardinality(RowsOf(S))

\* Mutant: the attempt that makes the window full is not counted.
Admits_OneMore(at) == Total(Within(at)) <= MaxN

Admits(at) == Total(Within(at)) < MaxN

Count(c) ==
    /\ caller[c].pc = "count"
    /\ caller' = [caller EXCEPT ![c] =
           IF Admits(@.at) THEN [@ EXCEPT !.pc = "record"] ELSE NotCalling]
    /\ UNCHANGED <<time, entries>>

Record(c) ==
    /\ caller[c].pc = "record"
    /\ entries' = entries \union
           {[at |-> caller[c].at, no |-> Total({caller[c].at}) + 1]}
    /\ caller' = [caller EXCEPT ![c] = NotCalling]
    /\ UNCHANGED time

\* A statement fails or takes two seconds: the attempt is admitted unrecorded.
AllowFailsOpen(c) ==
    /\ caller[c].pc # "none"
    /\ caller' = [caller EXCEPT ![c] = NotCalling]
    /\ UNCHANGED <<time, entries>>

\* Entries are kept for five minutes: longer, by more than a second, than any
\* window and any call.
CleanupEntries ==
    \E cutoff \in Instants :
        /\ \A t \in {time} \union {caller[c].at : c \in Calling} :
               SecondOf[cutoff] < SecondOf[t - Window]
        /\ entries' = RowsOf({s \in Instants : TextPlace[s] >= TextPlace[cutoff]})
        /\ UNCHANGED <<time, caller>>

RateNext ==
    \/ TimeAdvances \/ CleanupEntries
    \/ \E c \in Callers : Allow(c) \/ Count(c) \/ Record(c) \/ AllowFailsOpen(c)

RateSpec == RateInit /\ [][RateNext]_rateVars

-----------------------------------------------------------------------------
\* Callers that have been admitted by the count, at an instant of S.
AboutToRecord(S) == {c \in Callers : caller[c].pc = "record" /\ caller[c].at \in S}

\* The window that ends at t, from the first whole second in it: the part of a
\* second before that may go uncounted, its texts sorting before the start's.
WholeSeconds(t) == {s \in 0..t : SecondOf[s] > SecondOf[t - Window]}

\* The check and the record are two statements, so that a limit of MaxN is
\* exceeded by attempts that overlap; but the attempts that are recorded, or
\* about to be, in the whole seconds of any window exceed it by no more than
\* there are other attempts in progress, in whatever order the texts of one
\* second sort.  Attempts that a failed statement lets through (AllowFailsOpen)
\* leave no record and are not limited (allow).
OvershootIsBounded ==
    \A t \in Moments :
        Total(WholeSeconds(t)) + Cardinality(AboutToRecord(WholeSeconds(t)))
            <= MaxN + Cardinality(Callers) - 1
=============================================================================
