------------------------------ MODULE LogPages ------------------------------
(***************************************************************************)
(* "Load older": pages of log lines, newest first, by a cursor of the      *)
(* oldest instant shown and the number of lines shown at it                *)
(* (logs/pagination.py, VictoriaLogsClient.query).  Lines may share an     *)
(* instant; VictoriaLogs answers with the newest lines up to a limit, and  *)
(* which lines of the last instant are among them is its choice, anew for  *)
(* every query.  The caps on bytes are left out.                           *)
(***************************************************************************)
EXTENDS Integers, FiniteSets, FiniteSetsExt

CONSTANTS
    LogLine,
    MaxInstant,    \* bound on the instants of the window
    MaxPageSize

\* What an instance assumes of the constants.
PagesAssumption == IsFiniteSet(LogLine) /\ MaxInstant \in Nat /\ MaxPageSize \in Nat

VARIABLES
    at,        \* the instant of each line
    pageSize,
    cursor,    \* t and n of LogCursor; more: has_more
    shown      \* how often a line was shown, up to 2

vars == <<at, pageSize, cursor, shown>>

Init ==
    /\ at \in [LogLine -> 1..MaxInstant]
    /\ pageSize \in 1..MaxPageSize
    /\ cursor = [t |-> MaxInstant, n |-> 0, more |-> TRUE]
    /\ shown = [l \in LogLine |-> 0]

\* The newest lines of s, at most limit, ties in any order.
Newest(s, limit) ==
    {f \in SUBSET s : /\ Cardinality(f) <= limit /\ (f = s \/ Cardinality(f) = limit)
                      /\ \A l \in f, k \in s \ f : at[l] >= at[k]}

\* Mutant: the lines of the oldest instant as the query cut them.
CompletedAsCut(rest, oldest) == rest

\* A query that was cut may have split the lines of its oldest instant: they are
\* fetched again, all of them.
Completed(rest, oldest) == {l \in rest : at[l] > oldest} \cup {l \in LogLine : at[l] = oldest}

NewCount(page, oldest) ==
    Cardinality({l \in page : at[l] = oldest}) + IF oldest = cursor.t THEN cursor.n ELSE 0

\* An empty page: has_more may have been too hopeful before.
NoOlder == [cursor EXCEPT !.more = FALSE]

\* paginate_older
LoadOlder ==
    LET window == {l \in LogLine : at[l] <= cursor.t}
        limit == pageSize + cursor.n IN
    /\ cursor.more
    /\ \E fetched \in Newest(window, limit) : \E seen \in Newest(fetched, cursor.n) :
         LET rest == fetched \ seen
             oldest == Min({at[l] : l \in rest})
             page == IF Cardinality(fetched) >= limit THEN Completed(rest, oldest) ELSE rest IN
         IF rest = {}
         THEN cursor' = NoOlder /\ UNCHANGED shown
         ELSE /\ shown' = [l \in LogLine |-> IF l \in page /\ shown[l] < 2 THEN shown[l] + 1 ELSE shown[l]]
              /\ cursor' = [t |-> oldest, n |-> NewCount(page, oldest), more |-> Cardinality(window) > limit]
    /\ UNCHANGED <<at, pageSize>>

Next == LoadOlder

Fairness == WF_vars(LoadOlder)
Spec == Init /\ [][Next]_vars /\ Fairness

TypeOK ==
    /\ cursor \in [t : 1..MaxInstant, n : 0..(2 * Cardinality(LogLine)), more : BOOLEAN]
    /\ shown \in [LogLine -> 0..2]

\* "Gap-free and dup-free under _time collisions": no line is shown twice, and
\* when there is no more, every line was shown.
PagesAreExact ==
    /\ \A l \in LogLine : shown[l] <= 1
    /\ ~cursor.more => \A l \in LogLine : shown[l] = 1
=============================================================================
