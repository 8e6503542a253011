------------------------------ MODULE LiveTail ------------------------------
(***************************************************************************)
(* The live tail of the logs: GET /logs/tail (api/routers/logs.py) with    *)
(* the count of its connections and its poll loop (logs/tail_service.py),  *)
(* and one browser tab that follows a query (ui/src/lib/logsTail.ts).      *)
(* A request is one of the tab's event source, or the fetch by which the   *)
(* tab finds out why the source failed.  Lines are numbered in the order   *)
(* in which the server sorts them; they arrive in that order here, so that *)
(* a line never arrives behind one of its instant that was already polled. *)
(***************************************************************************)
EXTENDS Naturals, Sequences, FiniteSets, FiniteSetsExt

CONSTANTS
    Req,               \* requests that are not over yet
    MaxConnections,    \* max_connections
    MaxPerSecond,      \* max_lines_per_sec
    MaxDuration,       \* max_duration_s
    MaxErrors,         \* _MAX_CONSECUTIVE_FAILURES
    MaxFailures,       \* bound on the failures that the tab counts
    MaxTime, MaxLines, \* bounds on the clock and on the lines
    None

\* What an instance assumes of the constants.
TailAssumption == MaxPerSecond \in Nat /\ None \notin Req

VARIABLES
    now,      \* the second
    log,      \* the instants of the lines of VictoriaLogs
    active,   \* TailRegistry._active
    req,      \* the requests: their kind, where they are, and whether the client is gone
    session,  \* their poll loops: cursor (last, n), what was shown and dropped; seen and
              \* cut are for the properties: the lines there were at the last poll, and the
              \* instants of those that an answer left out
    enabled, status, failures, source, check, opened  \* the tab; source and check are requests

server == <<now, log, active, req, session>>
tab == <<enabled, status, failures, source, check, opened>>
vars == <<server, tab>>

NewSession(t) ==
    [started |-> t, last |-> t, n |-> 0, shown |-> <<>>, dropped |-> 0, seen |-> 0, cut |-> {},
     errors |-> 0, window |-> t, emitted |-> 0]

Free == [kind |-> "none", at |-> "none", gone |-> FALSE]

Init ==
    /\ now = 1 /\ log = <<>> /\ active = 0
    /\ req = [i \in Req |-> Free]
    /\ session = [i \in Req |-> NewSession(0)]
    /\ enabled = FALSE /\ status = "idle" /\ failures = 0
    /\ source = None /\ check = None /\ opened = FALSE

-----------------------------------------------------------------------------
(* The server.                                                             *)

\* The request ends at the server; a slot it holds is given back (TailRegistry.release).
Over(i, answer) ==
    /\ req' = [req EXCEPT ![i] = IF @.gone THEN Free ELSE [@ EXCEPT !.at = answer]]
    /\ active' = active - 1
    /\ session' = [session EXCEPT ![i] = NewSession(0)]

\* try_acquire: 503 at the limit.
Acquire(i) ==
    /\ req[i].at = "sent"
    /\ IF active >= MaxConnections
       THEN /\ req' = [req EXCEPT ![i] = IF @.gone THEN Free ELSE [@ EXCEPT !.at = "refused"]]
            /\ UNCHANGED active
       ELSE /\ req' = [req EXCEPT ![i].at = "probing"]
            /\ active' = active + 1
    /\ UNCHANGED <<now, log, session, tab>>

\* The probe fails: 502, or 422 for a bad expression.
ProbeFails(i) ==
    /\ req[i].at = "probing"
    /\ \E answer \in {"failed", "invalid"} : Over(i, answer)
    /\ UNCHANGED <<now, log, tab>>

\* The response is handed to the server framework.
ProbeSucceeds(i) ==
    /\ req[i].at = "probing"
    /\ req' = [req EXCEPT ![i].at = "answered"]
    /\ UNCHANGED <<now, log, active, session, tab>>

\* The framework sends the header and asks gen for the first event.
StreamStarts(i) ==
    /\ req[i].at = "answered" /\ ~req[i].gone
    /\ req' = [req EXCEPT ![i].at = "streaming"]
    /\ session' = [session EXCEPT ![i] = NewSession(now)]
    /\ UNCHANGED <<now, log, active, tab>>

\* The client left during the probe: the framework sees that first and never starts
\* gen, so that its finally does not run.
StreamNeverStarts(i) ==
    /\ req[i].at = "answered" /\ req[i].gone
    /\ req' = [req EXCEPT ![i] = Free]
    /\ UNCHANGED <<now, log, active, session, tab>>

\* The client leaves a stream: gen is closed.
StreamIsLeft(i) ==
    /\ req[i].at = "streaming" /\ req[i].gone
    /\ Over(i, "ended")
    /\ UNCHANGED <<now, log, tab>>

Polling(i) == req[i].at = "streaming" /\ ~req[i].gone
TooOld(i) == now - session[i].started >= MaxDuration

DurationEnds(i) ==
    /\ Polling(i) /\ TooOld(i)
    /\ Over(i, "ended")
    /\ UNCHANGED <<now, log, tab>>

\* VictoriaLogs fails: an error event, and the end after too many of them.
PollFails(i) ==
    /\ Polling(i) /\ ~TooOld(i)
    /\ IF session[i].errors + 1 >= MaxErrors
       THEN Over(i, "ended")
       ELSE session' = [session EXCEPT ![i].errors = @ + 1] /\ UNCHANGED <<req, active>>
    /\ UNCHANGED <<now, log, tab>>

\* VictoriaLogsClient.query: the lines from the cursor's instant on.  The answer may be
\* cut by its limits of lines and of bytes; which lines they leave is not for the tail to
\* say, and it does not read result.truncated.
Window(s) == {l \in DOMAIN log : log[l] >= s.last}

LinesAt(fetched, t) == {l \in fetched : log[l] = t}

\* ForwardCursor.advance: what is newer than the cursor's instant, and all but the first n
\* of that instant.
Emitted(s, fetched) ==
    {l \in fetched : log[l] = s.last => Cardinality({k \in LinesAt(fetched, s.last) : k < l}) >= s.n}

\* Mutant: only the lines that are emitted count.
Advanced_Emitted(s, fetched) ==
    LET newest == log[Max(fetched)] IN
    [s EXCEPT !.last = newest, !.n = Cardinality(LinesAt(Emitted(s, fetched), newest))]

\* All lines that were fetched count.
Advanced(s, fetched) ==
    LET newest == log[Max(fetched)] IN
    [s EXCEPT !.last = newest, !.n = Cardinality(LinesAt(fetched, newest))]

\* A new second brings a new budget; the oldest lines beyond it are dropped.
Budgeted(s) == IF now - s.window >= 1 THEN [s EXCEPT !.window = now, !.emitted = 0] ELSE s

Kept(emit, room) == {l \in emit : Cardinality({k \in emit : k > l}) < room}

InOrder(shown) == \A j, k \in DOMAIN shown : j < k => shown[j] < shown[k]

Poll(i) ==
    /\ Polling(i) /\ ~TooOld(i)
    /\ \E fetched \in SUBSET Window(session[i]) :
         LET s == session[i]
             emit == Emitted(s, fetched)
             b == Budgeted(IF emit = {} THEN s ELSE Advanced(s, fetched))
             room == IF b.emitted >= MaxPerSecond THEN 0 ELSE MaxPerSecond - b.emitted
             kept == Kept(emit, room) IN
         \E lines \in [1..Cardinality(kept) -> kept] :
           /\ InOrder(lines)
           /\ session' = [session EXCEPT ![i] =
                [b EXCEPT !.errors = 0, !.seen = Len(log),
                          !.cut = @ \cup {log[l] : l \in Window(s) \ fetched},
                          !.dropped = @ + Cardinality(emit \ kept),
                          !.shown = @ \o lines,
                          !.emitted = @ + Cardinality(kept)]]
    /\ UNCHANGED <<now, log, active, req, tab>>

-----------------------------------------------------------------------------
(* The tab.  Leaves(R) is what becomes of the requests R that it drops.    *)

Leaves(R) ==
    [i \in Req |->
        IF i \notin R THEN req[i]
        ELSE IF req[i].at \in {"sent", "probing", "answered", "streaming"}
             THEN [req[i] EXCEPT !.gone = TRUE] ELSE Free]

Sends(r, i, kind) == [r EXCEPT ![i] = [kind |-> kind, at |-> "sent", gone |-> FALSE]]

\* open(): the old source is closed, a fetch under way is aborted.
Open ==
    /\ \E i \in Req : /\ req[i] = Free
                      /\ req' = Sends(Leaves({source, check}), i, "source")
                      /\ source' = i
    /\ check' = None /\ opened' = FALSE /\ status' = "connecting"
    /\ UNCHANGED <<now, log, active, session>>

\* The tail is switched on, its query changes, or the user asks to reconnect().
Follow == Open /\ enabled' = TRUE /\ failures' = 0

\* The backoff is over.
Retry == Open /\ enabled /\ status = "error" /\ failures > 0 /\ UNCHANGED <<enabled, failures>>

\* teardown().  A fetch under way is aborted, and classifyFailure takes that for a
\* network error.
Disable ==
    /\ enabled /\ enabled' = FALSE
    /\ req' = Leaves({source, check})
    /\ source' = None /\ check' = None /\ opened' = FALSE
    /\ IF check # None THEN status' = "error" /\ failures' = 1
                       ELSE status' = "idle" /\ failures' = 0
    /\ UNCHANGED <<now, log, active, session>>

Opened ==
    /\ source # None /\ ~opened /\ req[source].at = "streaming"
    /\ opened' = TRUE /\ status' = "open" /\ failures' = 0
    /\ UNCHANGED <<server, enabled, source, check>>

Failures(n) == IF n < MaxFailures THEN n + 1 ELSE n

\* handleTransportError: the source failed, by an answer, at its end or by the network.
\* One that was never open leaves the question why, which a fetch answers.
SourceFails ==
    /\ source # None /\ source' = None
    /\ IF opened
       THEN /\ req' = Leaves({source})
            /\ failures' = Failures(failures) /\ status' = "error"
            /\ UNCHANGED check
       ELSE /\ \E i \in Req : /\ req[i] = Free
                              /\ req' = Sends(Leaves({source}), i, "check")
                              /\ check' = i
            /\ UNCHANGED <<failures, status>>
    /\ UNCHANGED <<now, log, active, session, enabled, opened>>

\* classifyFailure: the status is all that is read; over the limit, or for a bad
\* expression, nothing is tried again.
CheckAnswered ==
    /\ check # None /\ req[check].at \in {"refused", "invalid", "failed", "streaming", "ended"}
    /\ req' = Leaves({check}) /\ check' = None
    /\ failures' = IF req[check].at \in {"refused", "invalid"} THEN failures ELSE Failures(failures)
    /\ status' = "error"
    /\ UNCHANGED <<now, log, active, session, enabled, source, opened>>

-----------------------------------------------------------------------------

Tick ==
    /\ now < MaxTime /\ now' = now + 1
    /\ UNCHANGED <<log, active, req, session, tab>>

Arrive ==
    /\ Len(log) < MaxLines
    /\ log' = Append(log, now)
    /\ UNCHANGED <<now, active, req, session, tab>>

Next ==
    \/ \E i \in Req : \/ Acquire(i) \/ ProbeFails(i) \/ ProbeSucceeds(i)
                      \/ StreamStarts(i) \/ StreamNeverStarts(i) \/ StreamIsLeft(i)
                      \/ DurationEnds(i) \/ PollFails(i) \/ Poll(i)
    \/ Follow \/ Retry \/ Disable \/ Opened \/ SourceFails \/ CheckAnswered
    \/ Tick \/ Arrive

Spec == Init /\ [][Next]_vars

-----------------------------------------------------------------------------

\* A tail shows lines of after its start, in the order of their instants, and none twice
\* at an instant of which no answer left a line out.  While no answer was cut, it shows
\* all of them but those that it counts as dropped (TailSession.events,
\* ForwardCursor.advance).  Lines that a cut leaves behind the cursor are neither shown
\* nor counted.
TailIsExact ==
    \A i \in Req : req[i].at = "streaming" =>
        LET s == session[i]
            since == {l \in 1..s.seen : log[l] >= s.started} IN
        /\ \A k \in DOMAIN s.shown : s.shown[k] \in since
        /\ \A j, k \in DOMAIN s.shown : j < k =>
             /\ log[s.shown[j]] <= log[s.shown[k]]
             /\ log[s.shown[j]] \notin s.cut => s.shown[j] < s.shown[k]
        /\ s.cut = {} => Len(s.shown) + s.dropped = Cardinality(since)

\* STAGE-004-023.md:151: gen's finally "guarantees release on disconnect/cancel/
\* duration-close": a slot is held by a request that is under way (logs_tail).
SlotsAreReleased ==
    active = Cardinality({i \in Req : req[i].at \in {"probing", "answered", "streaming"}})
=============================================================================
