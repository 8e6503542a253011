----------------------------- MODULE PluginRuns -----------------------------
(***************************************************************************)
(* A subprocess plugin: its manifest and the loader (plugins/manifest.py,  *)
(* loader.py), a run of it (subprocess_collector.py, subprocess_runner.py) *)
(* under the scheduler's deadline (scheduler.py, _tick), and the processes *)
(* that runs start.  A process writes lines to a pipe; an asyncio task of  *)
(* the run, its reader, drains them.  A run is called by the scheduler, or *)
(* directly, as tests/test_subprocess_runner.py does.                      *)
(***************************************************************************)
EXTENDS Naturals, Sequences, FiniteSets

CONSTANTS
    Proc,         \* the processes that can be started: numbers, in their order
    MaxLines,     \* bound on the lines of a process
    MinInterval,  \* _MIN_INTERVAL
    Durations     \* what a manifest may say of its interval and its timeout

VARIABLES
    caller,       \* who calls run_subprocess
    manifest,     \* plugin.yaml
    loaded,       \* the plugin is registered
    now,          \* time since the run was called
    run,          \* the run under way: its process, where it is, when its own deadline began
    proc,         \* the processes
    reader,       \* their readers
    reported      \* what the runs told the scheduler

vars == <<caller, manifest, loaded, now, run, proc, reader, reported>>

Callers == {"scheduler", "test"}
Manifest == [interval : Durations, timeout : Durations, executable : BOOLEAN]

\* A line of the protocol: a metric, the result, one that is skipped (not JSON, an
\* unknown type, a field of the wrong type, an event), or one that the reader
\* cannot take (longer than the stream's limit, a number that does not fit).
Line == {"metric", "ok", "failed", "skipped", "fatal"}
Results == {"ok", "failed"}

NoProc == [alive |-> FALSE, code |-> 0, held |-> FALSE, wrote |-> <<>>]
NoReader == [at |-> "none", read |-> 0, metrics |-> 0, result |-> "none"]
NoRun == [id |-> 0, at |-> "idle", began |-> 0]

TypeOK ==
    /\ caller \in Callers /\ manifest \in Manifest /\ loaded \in BOOLEAN
    /\ now \in Nat
    /\ run \in [id : Proc \cup {0}, at : {"idle", "wait", "term", "killed", "drain", "stderr"},
                began : Nat]
    /\ proc \in [Proc -> [alive : BOOLEAN, code : 0..1, held : BOOLEAN, wrote : Seq(Line)]]
    /\ reader \in [Proc -> [at : {"none", "on", "end", "crashed", "cancelled"}, read : Nat,
                            metrics : Nat, result : Results \cup {"none"}]]
    /\ reported \in [Proc -> Results \cup {"none", "timeout", "stopped"}]

-----------------------------------------------------------------------------
(* The manifest and the loader.                                            *)

\* SubprocessManifest
Valid(m) == m.interval >= MinInterval /\ m.timeout < m.interval

\* load_subprocess_plugins
Loads(m) == Valid(m) /\ m.executable

-----------------------------------------------------------------------------
(* A run.                                                                  *)

Init ==
    /\ caller \in Callers
    /\ manifest \in Manifest /\ loaded = Loads(manifest)
    /\ now = 0 /\ run = NoRun
    /\ proc = [i \in Proc |-> NoProc]
    /\ reader = [i \in Proc |-> NoReader]
    /\ reported = [i \in Proc |-> "none"]

Unused == {i \in Proc : reported[i] = "none" /\ i # run.id}
Ends(outcome) ==
    /\ run' = NoRun
    /\ reported' = [reported EXCEPT ![run.id] = outcome]

\* The scheduler starts its deadline; the process is started in a session of its
\* own, or cannot be.  The deadline of the runner begins after that.
Start ==
    /\ loaded /\ run.at = "idle" /\ Unused # {}
    /\ \E i \in Unused, spawn \in 0..1 :
        /\ \A j \in Unused : i <= j
        /\ now' = spawn
        /\ \/ /\ run' = [id |-> i, at |-> "wait", began |-> spawn]
              /\ proc' = [proc EXCEPT ![i].alive = TRUE]
              /\ reader' = [reader EXCEPT ![i].at = "on"]
              /\ UNCHANGED reported
           \/ /\ reported' = [reported EXCEPT ![i] = "failed"]
              /\ UNCHANGED <<run, proc, reader>>
    /\ UNCHANGED <<caller, manifest, loaded>>

\* Time passes while a run is under way, up to the second after its deadlines.
Wait ==
    /\ run.at # "idle" /\ now <= run.began + manifest.timeout
    /\ now' = now + 1
    /\ UNCHANGED <<caller, manifest, loaded, run, proc, reader, reported>>

SchedulerDue == caller = "scheduler" /\ now >= manifest.timeout

\* The task of the run is cancelled while it waits for the process or for a reader:
\* nothing in run_subprocess catches that.
Cut(outcome) ==
    /\ run.at # "idle"
    /\ Ends(outcome)
    /\ reader' = IF run.at = "drain"     \* the task that is awaited is cancelled too
                 THEN [reader EXCEPT ![run.id].at = IF @ = "on" THEN "cancelled" ELSE @]
                 ELSE reader
    /\ UNCHANGED <<caller, manifest, loaded, now, proc>>

\* asyncio.timeout of _tick.
SchedulerDeadline == SchedulerDue /\ Cut("timeout")

\* Scheduler.stop cancels the ticks.
Stop == caller = "scheduler" /\ Cut("stopped")

\* asyncio.timeout of run_subprocess, unless the scheduler's has fired: SIGTERM for the
\* process group, which the process may ignore.
OwnDeadline ==
    /\ run.at = "wait" /\ proc[run.id].alive
    /\ now >= run.began + manifest.timeout /\ ~SchedulerDue
    /\ run' = [run EXCEPT !.at = "term"]
    /\ UNCHANGED <<caller, manifest, loaded, now, proc, reader, reported>>

\* SIGTERM_GRACE_SECONDS later, SIGKILL.
Kill ==
    /\ run.at = "term" /\ proc[run.id].alive
    /\ run' = [run EXCEPT !.at = "killed"]
    /\ proc' = [proc EXCEPT ![run.id] = [@ EXCEPT !.alive = FALSE, !.code = 1, !.held = FALSE]]
    /\ UNCHANGED <<caller, manifest, loaded, now, reader, reported>>

\* Waiting for the process is over.  That it was for a timeout is kept in run.began.
Reaped ==
    /\ run.at \in {"wait", "term", "killed"} /\ ~proc[run.id].alive
    /\ run' = [run EXCEPT !.at = "drain",
                          !.began = IF run.at = "wait" THEN @ ELSE now + 1]
    /\ UNCHANGED <<caller, manifest, loaded, now, proc, reader, reported>>

TimedOut == run.began > now

Drained ==
    /\ run.at = "drain" /\ reader[run.id].at \in {"end", "crashed"}
    /\ run' = [run EXCEPT !.at = "stderr"]
    /\ UNCHANGED <<caller, manifest, loaded, now, proc, reader, reported>>

\* A descendant of the process keeps its output open: the run waits for a second.
DrainTimeout ==
    /\ run.at = "drain" /\ reader[run.id].at = "on"
    /\ reader' = [reader EXCEPT ![run.id].at = "cancelled"]
    /\ run' = [run EXCEPT !.at = "stderr"]
    /\ UNCHANGED <<caller, manifest, loaded, now, proc, reported>>

\* Mutant: the exit code is not looked at.
Outcome_AnyExit(i) ==
    IF TimedOut THEN "timeout"
    ELSE IF reader[i].at = "end" /\ reader[i].result = "ok" THEN "ok" ELSE "failed"

Outcome(i) ==
    IF TimedOut THEN "timeout"
    ELSE IF reader[i].at = "end" /\ reader[i].result = "ok" /\ proc[i].code = 0 THEN "ok"
    ELSE "failed"

Return ==
    /\ run.at = "stderr"
    /\ Ends(Outcome(run.id))
    /\ UNCHANGED <<caller, manifest, loaded, now, proc, reader>>

-----------------------------------------------------------------------------
(* Readers and processes.                                                  *)

\* _drain_stdout: what follows the result is ignored, unless it is too long to be read.
ReadLine(i) ==
    LET line == proc[i].wrote[reader[i].read + 1]
        counts == reader[i].result = "none" IN
    /\ reader[i].at = "on" /\ reader[i].read < Len(proc[i].wrote)
    /\ \E crashes \in {line = "fatal", line = "fatal" /\ counts} :
         reader' = [reader EXCEPT
             ![i].read = @ + 1,
             ![i].at = IF crashes THEN "crashed" ELSE @,
             ![i].metrics = IF line = "metric" /\ counts THEN @ + 1 ELSE @,
             ![i].result = IF line \in Results /\ counts THEN line ELSE @]
    /\ UNCHANGED <<caller, manifest, loaded, now, run, proc, reported>>

EndOfOutput(i) ==
    /\ reader[i].at = "on" /\ reader[i].read = Len(proc[i].wrote)
    /\ ~proc[i].alive /\ ~proc[i].held
    /\ reader' = [reader EXCEPT ![i].at = "end"]
    /\ UNCHANGED <<caller, manifest, loaded, now, run, proc, reported>>

ProcessWrites(i) ==
    /\ proc[i].alive /\ Len(proc[i].wrote) < MaxLines
    /\ \E line \in Line : proc' = [proc EXCEPT ![i].wrote = Append(@, line)]
    /\ UNCHANGED <<caller, manifest, loaded, now, run, reader, reported>>

ProcessExits(i) ==
    /\ proc[i].alive
    /\ \E code \in 0..1, held \in BOOLEAN :
        proc' = [proc EXCEPT ![i] = [@ EXCEPT !.alive = FALSE, !.code = code, !.held = held]]
    /\ UNCHANGED <<caller, manifest, loaded, now, run, reader, reported>>

DescendantExits(i) ==
    /\ proc[i].held /\ proc' = [proc EXCEPT ![i].held = FALSE]
    /\ UNCHANGED <<caller, manifest, loaded, now, run, reader, reported>>

\* The server is restarted, after an edit of the manifest: processes that still run
\* lose their readers.
Restart ==
    /\ run.at = "idle"
    /\ manifest' \in Manifest /\ loaded' = Loads(manifest')
    /\ now' = 0
    /\ reader' = [i \in Proc |-> IF reader[i].at = "on"
                                 THEN [reader[i] EXCEPT !.at = "cancelled"] ELSE reader[i]]
    /\ UNCHANGED <<caller, run, proc, reported>>

Next ==
    \/ Start \/ Wait \/ SchedulerDeadline \/ Stop \/ OwnDeadline \/ Kill
    \/ Reaped \/ Drained \/ DrainTimeout \/ Return \/ Restart
    \/ \E i \in Proc : \/ ReadLine(i) \/ EndOfOutput(i)
                       \/ ProcessWrites(i) \/ ProcessExits(i) \/ DescendantExits(i)

Spec == Init /\ [][Next]_vars

-----------------------------------------------------------------------------

\* The metrics among the first n lines of a process.
MetricsOf(i, n) == Cardinality({k \in 1..n : proc[i].wrote[k] = "metric"})

\* A run is reported ok only if its process said so and exited with 0, and then every
\* metric that the process wrote before its result has been recorded (run_subprocess,
\* _drain_stdout): no exit, early end of output, cut or late line makes it up.
SuccessIsEarned ==
    \A i \in Proc : reported[i] = "ok" =>
        /\ ~proc[i].alive /\ proc[i].code = 0
        /\ \E n \in DOMAIN proc[i].wrote :
            /\ proc[i].wrote[n] = "ok"
            /\ \A k \in 1..(n - 1) : proc[i].wrote[k] \notin Results
            /\ reader[i].metrics = MetricsOf(i, n - 1)

\* STAGE-001-009.md:44: "Enforces `timeout`: on expiry, sends SIGTERM, waits 2s, then
\* SIGKILL": no process outlives the report of its timeout (run_subprocess).
TimedOutPluginsAreKilled == \A i \in Proc : reported[i] = "timeout" => ~proc[i].alive
=============================================================================
