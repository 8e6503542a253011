------------------------------ MODULE CronRuns ------------------------------
(***************************************************************************)
(* The runs of one cron job: the wrapper's pings (api/routers/heartbeat.py, *)
(* A-mode), the log lines that Vector posts (api/routers/cron_events.py,    *)
(* B-mode), the tables heartbeats_state and cron_runs, and the collector    *)
(* that closes, enriches and prunes runs (metrics/cron_run_reconciler.py).  *)
(*                                                                          *)
(* Pings are best effort: lost, late, repeated and reordered.  Vector       *)
(* delivers at least once.  A handler reads the heartbeat row before the    *)
(* first write opens the SQLite transaction, so the read and the write are  *)
(* two steps; a run row is written in a transaction of its own.             *)
(***************************************************************************)
EXTENDS Integers, FiniteSets

CONSTANTS
    Task,         \* requests that can be served at the same time
    WrapperRun,   \* run ids chosen by the wrapper
    Line,         \* log lines, each with its journald cursor
    LogRun,       \* run ids the server generates for log lines
    Timeout,      \* bmode_timeout_hours
    Grace,        \* enrich_grace_seconds
    Retention,    \* retention_days
    FailRetention, \* cron_failure_enrich_retention_days
    MaxRows,      \* max_rows_per_cron
    MaxFailRows,  \* cron_failure_enrich_max_rows_per_cron
    MaxPerTick,   \* enrich_max_per_tick
    MaxTime,      \* bound on the clock
    LastJob,      \* bound on the time of the jobs themselves
    MaxRepeats,   \* bound on repeated deliveries
    MaxCrashes,   \* bound on restarts
    None

ASSUME IdsAssumption == None \notin WrapperRun \cup Line \cup LogRun

ASSUME TimesAssumption ==
    /\ Timeout \in Nat /\ Grace \in Nat /\ Retention \in Nat /\ FailRetention \in Nat
    /\ MaxRows \in Nat /\ MaxFailRows \in Nat /\ MaxPerTick \in Nat
    /\ MaxTime \in Nat /\ LastJob \in Nat /\ MaxRepeats \in Nat /\ MaxCrashes \in Nat

VARIABLES
    now,          \* the clock
    pings,        \* wrapper pings posted
    received,     \* pings that arrived
    lines,        \* log lines written, by Vector delivered or not
    cursors,      \* cron_event_cursors
    hb,           \* heartbeats_state
    seen,         \* crons.last_seen_state
    runs,         \* cron_runs
    failureRows,  \* cron_run_failure_enrichments: when the row of a run was made
    alerted,      \* homelab_cron_run_failure_total of a run
    task,         \* requests and their locals
    rec,          \* the reconciler's tick and its locals
    counted,      \* lines whose observed run was recorded
    repeats, crashes

tables == <<cursors, hb, seen, runs, failureRows, alerted>>
vars == <<now, pings, received, lines, tables, task, rec, counted, repeats, crashes>>

RunId == WrapperRun \cup LogRun
NoTime == -1
Closed == {"ok", "fail", "unknown"}

\* A cron_runs row; state "none": there is no row.  line is the log line that
\* made the row, which the table does not record.
RunRow == [state : {"none", "running"} \cup Closed, source : {"wrapper", "logscrape"},
           started : Int, ended : Int, enriched : BOOLEAN, overlapping : BOOLEAN,
           line : Line \cup {None}]

NoRun == [state |-> "none", source |-> "wrapper", started |-> 0, ended |-> NoTime,
          enriched |-> FALSE, overlapping |-> FALSE, line |-> None]

\* A heartbeats_state row; streak, times and duration follow the state.
Beat == [state : {"unknown", "running", "ok", "failed"}, observed : Nat]

\* What a request is about: a ping of a wrapper's run or a log line.
Ping == [kind : {"start", "ok", "fail"}, run : WrapperRun]

NoTask == [pc |-> "idle", kind |-> "start", run |-> None, line |-> None, prev |-> None]
NoTick == [pc |-> "idle", at |-> 0, todo |-> {}, failed |-> {}, run |-> None]

Init ==
    /\ now = 0
    /\ pings = {} /\ received = {} /\ lines = [l \in Line |-> None] /\ cursors = {}
    /\ hb = [state |-> "unknown", observed |-> 0]
    /\ seen = "unknown"
    /\ runs = [i \in RunId |-> NoRun]
    /\ failureRows = [i \in RunId |-> NoTime] /\ alerted = [i \in RunId |-> 0]
    /\ task = [t \in Task |-> NoTask]
    /\ rec = NoTick
    /\ counted = {} /\ repeats = 0 /\ crashes = 0

----------------------------------------------------------------------------
(* The cron job, its wrapper and its log. *)

\* One unit is longer than any request; a tick of the reconciler may be longer.
Tick ==
    /\ now < MaxTime
    /\ \A t \in Task : task[t].pc = "idle"
    /\ now' = now + 1
    /\ UNCHANGED <<pings, received, lines, tables, task, rec, counted, repeats, crashes>>

\* The wrapper posts /start, and /ok or /fail when the command ends; the
\* requests may overtake each other.
WrapperPosts(p) ==
    /\ now <= LastJob
    /\ p \notin pings
    /\ \A q \in pings : q.run = p.run => {p.kind, q.kind} # {"ok", "fail"}
    /\ pings' = pings \cup {p}
    /\ UNCHANGED <<now, received, lines, tables, task, rec, counted, repeats, crashes>>

\* cron writes a line: the dispatch of the command or its exit.
LineWritten(l, kind) ==
    /\ now <= LastJob
    /\ lines[l] = None
    /\ lines' = [lines EXCEPT ![l] = [kind |-> kind, ts |-> now]]
    /\ UNCHANGED <<now, pings, received, tables, task, rec, counted, repeats, crashes>>

----------------------------------------------------------------------------
(* Requests. *)

Goto(t, l) == task' = [task EXCEPT ![t].pc = l]
Finish(t) == task' = [task EXCEPT ![t] = NoTask]

\* A ping arrives (or is refused by the rate limiter: then nothing happens);
\* it may arrive again.
ReceivePing(t, p) ==
    /\ task[t].pc = "idle" /\ p \in pings
    /\ p \in received => repeats < MaxRepeats
    /\ repeats' = IF p \in received THEN repeats + 1 ELSE repeats
    /\ received' = received \cup {p}
    /\ task' = [task EXCEPT ![t] = [NoTask EXCEPT !.pc = "read", !.kind = p.kind, !.run = p.run]]
    /\ UNCHANGED <<now, pings, lines, tables, rec, counted, crashes>>

\* try_claim_cursor: an INSERT that a known cursor turns into nothing.
Claims(l) == l \notin cursors

\* A log line arrives, once or again; its cursor is claimed in a transaction of
\* its own.  match_by_log_key then finds one cron, or none or several: dropped.
ReceiveLine(t, l) ==
    /\ task[t].pc = "idle" /\ lines[l] # None
    /\ l \in cursors => repeats < MaxRepeats
    /\ repeats' = IF l \in cursors THEN repeats + 1 ELSE repeats
    /\ cursors' = cursors \cup {l}
    /\ \/ UNCHANGED task
       \/ /\ Claims(l)
          /\ task' = [task EXCEPT ![t] = [NoTask EXCEPT !.line = l,
                 !.kind = lines[l].kind,
                 !.pc = IF lines[l].kind = "start" THEN "observe" ELSE "read"]]
    /\ UNCHANGED <<now, pings, received, lines, hb, seen, runs, failureRows, alerted, rec, counted, crashes>>

\* record_observed_run: one UPSERT that only counts.
ObserveRun(t) ==
    /\ task[t].pc = "observe"
    /\ hb' = [hb EXCEPT !.observed = @ + 1]
    /\ counted' = counted \cup {task[t].line}
    /\ Goto(t, "insert")
    /\ UNCHANGED <<now, pings, received, lines, cursors, seen, runs, failureRows, alerted, rec, repeats, crashes>>

\* _record_state_transition reads the previous row ...
ReadBeat(t) ==
    /\ task[t].pc = "read"
    /\ task' = [task EXCEPT ![t].pc = "write", ![t].prev = hb]
    /\ UNCHANGED <<now, pings, received, lines, tables, rec, counted, repeats, crashes>>

StateOf(kind) == CASE kind = "start" -> "running" [] kind = "ok" -> "ok" [] kind = "fail" -> "failed"

\* Mutant: the UPSERT writes back the counter it read as well.
TransitionAll(prev, kind) == [prev EXCEPT !.state = StateOf(kind)]

\* What the UPSERT updates; observed_runs_total is not among its columns.
Transition(prev, kind) == [hb EXCEPT !.state = StateOf(kind)]

\* ... and writes the new one, with the mirror in crons.
WriteBeat(t) ==
    /\ task[t].pc = "write"
    /\ hb' = Transition(task[t].prev, task[t].kind)
    /\ seen' = StateOf(task[t].kind)
    /\ Goto(t, IF task[t].line # None THEN "find"
               ELSE IF task[t].kind = "start" THEN "insert" ELSE "close")
    /\ UNCHANGED <<now, pings, received, lines, cursors, runs, failureRows, alerted, rec, counted, repeats, crashes>>

\* INSERT OR IGNORE: an existing row stays.
Inserts(i) == runs[i].state = "none"

\* insert_run for /start: the wrapper's id and the server's clock; for a
\* dispatch line: a fresh id and the time of the line.
InsertRun(t) ==
    /\ task[t].pc = "insert"
    /\ \E i \in RunId :
         /\ IF task[t].line = None THEN i = task[t].run
                                   ELSE i \in LogRun /\ runs[i].line = None
         /\ runs' = IF Inserts(i)
                    THEN [runs EXCEPT ![i] = [NoRun EXCEPT !.state = "running",
                             !.source = IF task[t].line = None THEN "wrapper" ELSE "logscrape",
                             !.started = IF task[t].line = None THEN now ELSE lines[task[t].line].ts,
                             !.line = task[t].line]]
                    ELSE runs
    /\ Finish(t)
    /\ UNCHANGED <<now, pings, received, lines, cursors, hb, seen, failureRows, alerted, rec, counted, repeats, crashes>>

\* close_run: an UPSERT without a look at the state.  Where there is no row (a
\* lost /start, a row pruned meanwhile) it inserts one.
CloseRow(i, state, end, missing) ==
    [(IF runs[i].state = "none" THEN missing ELSE runs[i]) EXCEPT !.state = state, !.ended = end]

\* /ok and /fail; the start of a missing row is derived from the duration.
CloseWrapperRun(t) ==
    LET i == task[t].run IN
    /\ task[t].pc = "close"
    /\ \E duration \in 0..now :
         runs' = [runs EXCEPT ![i] = CloseRow(i, task[t].kind, now, [NoRun EXCEPT !.started = now - duration])]
    /\ Finish(t)
    /\ UNCHANGED <<now, pings, received, lines, cursors, hb, seen, failureRows, alerted, rec, counted, repeats, crashes>>

\* find_open_run_by_fingerprint: runs of either source.
OpenAt(ts) == {i \in RunId : runs[i].state = "running" /\ runs[i].started <= ts}

\* _close_bmode_run looks for the newest open run ...
FindOpenRun(t) ==
    /\ task[t].pc = "find"
    /\ LET open == OpenAt(lines[task[t].line].ts) IN
       \/ open = {} /\ Finish(t)
       \/ \E i \in open :
            /\ \A j \in open : runs[j].started <= runs[i].started
            /\ task' = [task EXCEPT ![t].pc = "closeLine", ![t].run = i, ![t].prev = runs[i]]
    /\ UNCHANGED <<now, pings, received, lines, tables, rec, counted, repeats, crashes>>

\* ... and closes it at the time of the line, in another transaction.
CloseLogRun(t) ==
    LET i == task[t].run IN
    /\ task[t].pc = "closeLine"
    /\ runs' = [runs EXCEPT ![i] = CloseRow(i, task[t].kind, lines[task[t].line].ts,
                   [task[t].prev EXCEPT !.source = "logscrape", !.enriched = FALSE, !.overlapping = FALSE])]
    /\ Finish(t)
    /\ UNCHANGED <<now, pings, received, lines, cursors, hb, seen, failureRows, alerted, rec, counted, repeats, crashes>>

----------------------------------------------------------------------------
(* The reconciler: one tick at a time (its concurrency group), cut off by the
   scheduler's timeout at any point; a phase that raises ends early. *)

ScanOrder(i, j) == runs[i].started <= runs[j].started

\* list_open_bmode_runs.
OpenLogRuns == {i \in LogRun : runs[i].state = "running"}

TickStarts ==
    /\ rec.pc = "idle"
    /\ rec' = [NoTick EXCEPT !.pc = "finalize", !.at = now, !.todo = OpenLogRuns]
    /\ UNCHANGED <<now, pings, received, lines, tables, task, counted, repeats, crashes>>

\* Mutant: the UPDATE does not look at the state.
FinalizedAnyway(i, end) == [runs[i] EXCEPT !.state = "unknown", !.ended = end]

\* finalize_bmode_run: only a run that is still open.
Finalized(i, end) ==
    IF runs[i].state = "running" THEN [runs[i] EXCEPT !.state = "unknown", !.ended = end] ELSE runs[i]

\* Mutant: the comparison the wrong way round.
TimedOutYoung(i) == runs[i].started > rec.at - Timeout

TimedOut(i) == runs[i].started < rec.at - Timeout

\* _window_finalize for the next run of the snapshot: closed at the start of the
\* one after it, or at the cap once that is past, and then marked overlapping
\* whatever its state (in a transaction of its own; nothing reads the mark).
FinalizeRun(i) ==
    LET rest == rec.todo \ {i} IN
    /\ rec.pc = "finalize" /\ i \in rec.todo
    /\ \A j \in rest : ScanOrder(i, j)
    /\ rec' = [rec EXCEPT !.todo = rest]
    /\ \/ \E j \in rest :
            /\ \A k \in rest : ScanOrder(j, k)
            /\ runs' = [runs EXCEPT ![i] = Finalized(i, runs[j].started)]
       \/ /\ rest = {} /\ TimedOut(i)
          /\ runs' = [runs EXCEPT ![i] =
                        [Finalized(i, runs[i].started + Timeout) EXCEPT !.overlapping = TRUE]]
       \/ rest = {} /\ ~TimedOut(i) /\ UNCHANGED runs
    /\ UNCHANGED <<now, pings, received, lines, cursors, hb, seen, failureRows, alerted, task, counted, repeats, crashes>>

\* list_runs_needing_enrich: closed, not enriched, past the grace delay ...
Pending == {i \in RunId : runs[i].state \in Closed /\ ~runs[i].enriched
                          /\ runs[i].ended <= rec.at - Grace}

\* ... the oldest enrich_max_per_tick of them.
Slices == {s \in SUBSET Pending :
             /\ Cardinality(s) <= MaxPerTick
             /\ s = Pending \/ Cardinality(s) = MaxPerTick
             /\ \A i \in s, j \in Pending \ s : runs[i].ended <= runs[j].ended}

\* The rows are read once; the loop keeps their states.
EnrichStarts ==
    /\ rec.pc = "finalize"
    /\ \E s \in Slices :
         rec' = [rec EXCEPT !.pc = "enrich", !.todo = s,
                            !.failed = {i \in s : runs[i].state = "fail"}]
    /\ UNCHANGED <<now, pings, received, lines, tables, task, counted, repeats, crashes>>

\* set_enrichment of a run, then its failure step if it was failed when read.
EnrichRun(i) ==
    /\ rec.pc = "enrich" /\ i \in rec.todo
    /\ \A j \in rec.todo : runs[i].ended <= runs[j].ended
    /\ runs' = IF runs[i].state = "none" THEN runs ELSE [runs EXCEPT ![i].enriched = TRUE]
    /\ rec' = [rec EXCEPT !.todo = @ \ {i}, !.pc = IF i \in rec.failed THEN "failure" ELSE "enrich",
                          !.run = i]
    /\ UNCHANGED <<now, pings, received, lines, cursors, hb, seen, failureRows, alerted, task, counted, repeats, crashes>>

\* VictoriaLogs or the database fails, or the cron is gone: the run waits.
SkipEnrich(i) ==
    /\ rec.pc = "enrich" /\ i \in rec.todo
    /\ rec' = [rec EXCEPT !.todo = @ \ {i}]
    /\ UNCHANGED <<now, pings, received, lines, tables, task, counted, repeats, crashes>>

\* Mutant: a plain INSERT with a fresh failure_id.
NewFailureAlways(i) == TRUE

\* INSERT OR IGNORE on (cron_fingerprint, run_id).
NewFailure(i) == failureRows[i] = NoTime

\* _failure_enrich_run inserts the row; only a new one raises the counter.  A
\* database error skips the step for good: the run is already enriched.
FailureRow ==
    /\ rec.pc = "failure"
    /\ \/ /\ NewFailure(rec.run)
          /\ failureRows' = [failureRows EXCEPT ![rec.run] = now]
          /\ rec' = [rec EXCEPT !.pc = "alert"]
       \/ UNCHANGED failureRows /\ rec' = [rec EXCEPT !.pc = "enrich"]
    /\ UNCHANGED <<now, pings, received, lines, cursors, hb, seen, runs, alerted, task, counted, repeats, crashes>>

FailureAlert ==
    /\ rec.pc = "alert"
    /\ alerted' = [alerted EXCEPT ![rec.run] = @ + 1]
    /\ rec' = [rec EXCEPT !.pc = "enrich"]
    /\ UNCHANGED <<now, pings, received, lines, cursors, hb, seen, runs, failureRows, task, counted, repeats, crashes>>

\* What may be left of the rows s of one cron: the newest max by key, the ties in any order.
Newest(s, key, max) ==
    {k \in SUBSET s : /\ Cardinality(k) = IF Cardinality(s) < max THEN Cardinality(s) ELSE max
                      /\ \A i \in k, j \in s \ k : key[i] >= key[j]}

\* prune_runs: by age, then by count.  line stays, so that an id is not reused.
PruneRuns ==
    LET young == {i \in RunId : runs[i].state # "none" /\ runs[i].started >= rec.at - Retention} IN
    /\ rec.pc = "enrich"
    /\ \E kept \in Newest(young, [i \in RunId |-> runs[i].started], MaxRows) :
          runs' = [i \in RunId |-> IF i \in kept THEN runs[i] ELSE [NoRun EXCEPT !.line = runs[i].line]]
    /\ rec' = [rec EXCEPT !.pc = "prune", !.todo = {}]
    /\ UNCHANGED <<now, pings, received, lines, cursors, hb, seen, failureRows, alerted, task, counted, repeats, crashes>>

\* The failure rows have a horizon and a count of their own.  alerted starts again with
\* the row, as the series of a run does when nothing remembers it.
PruneFailures ==
    LET young == {i \in RunId : failureRows[i] # NoTime /\ failureRows[i] >= rec.at - FailRetention} IN
    /\ rec.pc = "prune"
    /\ \E kept \in Newest(young, failureRows, MaxFailRows) :
          /\ failureRows' = [i \in RunId |-> IF i \in kept THEN failureRows[i] ELSE NoTime]
          /\ alerted' = [i \in RunId |-> IF i \in kept THEN alerted[i] ELSE 0]
    /\ rec' = NoTick
    /\ UNCHANGED <<now, pings, received, lines, cursors, hb, seen, runs, task, counted, repeats, crashes>>

\* The scheduler cancels a tick that takes too long.
TickCut ==
    /\ rec.pc # "idle"
    /\ rec' = NoTick
    /\ UNCHANGED <<now, pings, received, lines, tables, task, counted, repeats, crashes>>

----------------------------------------------------------------------------

\* The process restarts: the tables survive, requests and the tick do not.
Crash ==
    /\ crashes < MaxCrashes
    /\ crashes' = crashes + 1
    /\ task' = [t \in Task |-> NoTask] /\ rec' = NoTick
    /\ UNCHANGED <<now, pings, received, lines, tables, counted, repeats>>

Serve(t) == ObserveRun(t) \/ ReadBeat(t) \/ WriteBeat(t) \/ InsertRun(t) \/ CloseWrapperRun(t)
            \/ FindOpenRun(t) \/ CloseLogRun(t)

Next ==
    \/ Tick
    \/ \E p \in Ping : WrapperPosts(p)
    \/ \E l \in Line, k \in {"start", "ok", "fail"} : LineWritten(l, k)
    \/ \E t \in Task : Serve(t)
    \/ \E t \in Task, p \in Ping : ReceivePing(t, p)
    \/ \E t \in Task, l \in Line : ReceiveLine(t, l)
    \/ TickStarts \/ EnrichStarts \/ FailureRow \/ FailureAlert \/ PruneRuns \/ PruneFailures \/ TickCut
    \/ \E i \in RunId : FinalizeRun(i) \/ EnrichRun(i) \/ SkipEnrich(i)
    \/ Crash

\* The clock runs, requests are served, ticks start and end, by themselves or by
\* the scheduler's timeout; the database does not fail a phase for ever.
Fairness ==
    /\ WF_vars(Tick)
    /\ \A t \in Task : WF_vars(Serve(t))
    /\ WF_vars(TickStarts) /\ WF_vars(TickCut)
    /\ \A i \in LogRun : SF_vars(FinalizeRun(i))

Spec == Init /\ [][Next]_vars /\ Fairness

----------------------------------------------------------------------------

TypeOK ==
    /\ now \in 0..MaxTime /\ pings \subseteq Ping /\ cursors \subseteq Line
    /\ hb \in Beat /\ seen \in {"unknown", "running", "ok", "failed"}
    /\ runs \in [RunId -> RunRow]
    /\ failureRows \in [RunId -> Int] /\ alerted \in [RunId -> Nat]
    /\ rec.todo \subseteq RunId /\ counted \subseteq Line

\* Every observed run is counted once although transitions write back a row that
\* they read earlier (heartbeats_state.observed_runs_total).
NoObservedRunLost == hb.observed = Cardinality(counted)

\* A failed run is alerted at most once as long as its failure row is kept, also
\* when its lifecycle row was pruned and came back with a late /fail.
FailureReportedOnce == \A i \in RunId : alerted[i] <= IF failureRows[i] = NoTime THEN 0 ELSE 1

KeepsClosed ==
    \A i \in RunId :
        /\ runs[i].state \in Closed => runs'[i].state # "running"
        /\ runs[i].state \in {"ok", "fail"} => runs'[i].state # "unknown"

\* A late or repeated /start never reopens a closed run, and the window rule never
\* takes back the verdict of an exit that arrived between its scan and its UPDATE.
ClosedRunsStayClosed == [][KeepsClosed]_vars

\* A log-tailed run does not stay open for ever: its exit, the next run or the
\* cap closes it, or it is pruned.
LogRunsClose == \A i \in LogRun : runs[i].state = "running" ~> runs[i].state # "running"
=============================================================================
