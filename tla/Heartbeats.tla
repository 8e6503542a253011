----------------------------- MODULE Heartbeats -----------------------------
(***************************************************************************)
(* Is a job silent?  The deadline that an /ok sets (heartbeat/repository.py *)
(* with cron/schedule.py), the series of HeartbeatStateCollector            *)
(* (metrics/heartbeat_collector.py), the rules vmalert evaluates on them    *)
(* (deploy/vmalert/metrics/heartbeats.yaml) and the badge of the wrapper    *)
(* (api/routers/crons.py), for one job while its line comes and goes and    *)
(* operators hide and show it.                                              *)
(*                                                                          *)
(* A handler is one step here: CronRuns has the race of two pings, and      *)
(* CronInventory the steps of a scan.  A unit of time is longer than a      *)
(* request and than the minute of the rules.                                *)
(***************************************************************************)
EXTENDS Integers, FiniteSets

CONSTANTS
    Cadence,      \* compute_average_interval_seconds; 0: @reboot
    Grace,        \* expected_grace_seconds
    StaleRuns,    \* _WRAPPER_STALE_THRESHOLD, and the 3 of WrapperPossiblyStale
    MaxTime,      \* bound on the clock
    LastJob,      \* bound on the time of the jobs
    MaxEdits,     \* bound on operators' changes and reboots
    None

VARIABLES
    now,
    boot,         \* btime of the host
    job,          \* the job
    pings, lines, \* pings and dispatch lines on their way (at most one)
    line,         \* the job's line in the crontab
    row,          \* crons
    hb,           \* heartbeats_state
    series,       \* what the collector exported last
    pending, firing, \* alerts of vmalert
    onTime,       \* history: no run was missed, no ping lost or late
    edits

hostVars == <<boot, job, pings, lines, line>>
alertVars == <<pending, firing>>
vars == <<now, hostVars, row, hb, series, alertVars, onTime, edits>>

NoTime == -1
Kind == {"start", "ok", "fail"}

\* hidden: hidden_at; deleted: soft_deleted_at; installed: wrapper_installed;
\* current: wrapper_format_version; discovered: last_discovered_at >= boot.
Row == [hidden : BOOLEAN, deleted : BOOLEAN, installed : BOOLEAN, current : BOOLEAN, discovered : BOOLEAN]

\* due: expected_next_at; since: logscrape_runs_since_heartbeat.
Beat == [state : {"unknown", "running", "ok", "failed"}, ok : Int, due : Int, since : 0..StaleRuns]

Init ==
    /\ now = 0 /\ boot = 0
    /\ job = [running |-> FALSE, at |-> NoTime]
    /\ pings = {} /\ lines = 0 /\ line = "wrapped"
    /\ row = [hidden |-> FALSE, deleted |-> FALSE, installed |-> TRUE, current |-> TRUE, discovered |-> TRUE]
    /\ hb = [state |-> "unknown", ok |-> NoTime, due |-> NoTime, since |-> 0]
    /\ series = None /\ pending = {} /\ firing = {}
    /\ onTime = TRUE /\ edits = 0

----------------------------------------------------------------------------
(* The host: cron, the job and its wrapper. *)

\* The schedule is uniform: its average interval is its interval.
Scheduled(t) == IF Cadence = 0 THEN t = boot ELSE t % Cadence = 0

Tick ==
    /\ now < MaxTime
    /\ now' = now + 1
    /\ onTime' = (onTime /\ pings = {} /\ (Scheduled(now) => job.at = now))
    /\ UNCHANGED <<hostVars, row, hb, series, alertVars, edits>>

\* cron starts the job and logs the dispatch; the wrapper posts /start.
Dispatch ==
    /\ line # "absent" /\ Scheduled(now) /\ now <= LastJob
    /\ ~job.running /\ job.at # now
    /\ job' = [running |-> TRUE, at |-> now]
    /\ lines' = 1
    /\ pings' = IF line = "wrapped" THEN pings \cup {"start"} ELSE pings
    /\ onTime' = (onTime /\ line = "wrapped")
    /\ UNCHANGED <<now, boot, line, row, hb, series, alertVars, edits>>

JobEnds(kind) ==
    /\ job.running
    /\ job' = [job EXCEPT !.running = FALSE]
    /\ pings' = IF line = "wrapped" THEN pings \cup {kind} ELSE pings
    /\ UNCHANGED <<now, boot, lines, line, row, hb, series, alertVars, onTime, edits>>

\* Pings are best effort; the rate limiter answers 429 and nothing is retried.
PingLost(kind) ==
    /\ kind \in pings
    /\ pings' = pings \ {kind}
    /\ onTime' = FALSE
    /\ UNCHANGED <<now, boot, job, lines, line, row, hb, series, alertVars, edits>>

\* The line is removed, or written anew without the wrapper.
EditLine ==
    /\ edits < MaxEdits /\ edits' = edits + 1
    /\ line' \in {"absent", "plain"} \ {line}
    /\ UNCHANGED <<now, boot, job, pings, lines, row, hb, series, alertVars, onTime>>

Reboot ==
    /\ edits < MaxEdits /\ edits' = edits + 1
    /\ now > boot
    /\ boot' = now
    /\ job' = [job EXCEPT !.running = FALSE]
    /\ row' = [row EXCEPT !.discovered = FALSE]
    /\ UNCHANGED <<now, pings, lines, line, hb, series, alertVars, onTime>>

----------------------------------------------------------------------------
(* The heartbeat. *)

\* compute_expected_next_at: no deadline without a cadence.
ExpectedNext(ok) == IF Cadence > 0 THEN ok + Cadence + Grace ELSE NoTime

\* Mutant: a cron without a grace period has no deadline.
Transition_Graceless(kind) ==
    CASE kind = "ok" -> [state |-> "ok", ok |-> now, since |-> 0,
                         due |-> IF Grace > 0 THEN ExpectedNext(now) ELSE NoTime]
      [] kind = "start" -> [hb EXCEPT !.state = "running", !.due = NoTime, !.since = 0]
      [] kind = "fail" -> [hb EXCEPT !.state = "failed", !.due = NoTime, !.since = 0]

\* Mutant: a /start keeps the deadline of the last run.
Transition_Kept(kind) ==
    CASE kind = "ok" -> [state |-> "ok", ok |-> now, due |-> ExpectedNext(now), since |-> 0]
      [] kind = "start" -> [hb EXCEPT !.state = "running", !.since = 0]
      [] kind = "fail" -> [hb EXCEPT !.state = "failed", !.due = NoTime, !.since = 0]

\* _record_state_transition: an /ok sets a deadline, a /start or /fail clears it,
\* and each proves that the wrapper works.
Transition(kind) ==
    CASE kind = "ok" -> [state |-> "ok", ok |-> now, due |-> ExpectedNext(now), since |-> 0]
      [] kind = "start" -> [hb EXCEPT !.state = "running", !.due = NoTime, !.since = 0]
      [] kind = "fail" -> [hb EXCEPT !.state = "failed", !.due = NoTime, !.since = 0]

\* A ping arrives: a hidden or soft-deleted cron is known too.
ReceivePing(kind) ==
    /\ kind \in pings
    /\ pings' = pings \ {kind}
    /\ hb' = Transition(kind)
    /\ UNCHANGED <<now, boot, job, lines, line, row, series, alertVars, onTime, edits>>

\* receive_register, by the wrapper: a soft-deleted row comes back.
Register ==
    /\ line = "wrapped" /\ job.running
    /\ row' = [row EXCEPT !.deleted = FALSE]
    /\ UNCHANGED <<now, hostVars, hb, series, alertVars, onTime, edits>>

\* A dispatch line arrives: match_by_log_key passes over soft-deleted rows, and
\* record_observed_run counts (here up to the threshold).
ReceiveLine ==
    /\ lines = 1 /\ lines' = 0
    /\ hb' = IF row.deleted \/ hb.since = StaleRuns THEN hb ELSE [hb EXCEPT !.since = @ + 1]
    /\ UNCHANGED <<now, boot, job, pings, line, row, series, alertVars, onTime, edits>>

----------------------------------------------------------------------------
(* The inventory. *)

\* A scan of the discoverer, or discover_now under its lock and throttle.
Discover ==
    /\ row' = IF line = "absent"
              THEN [row EXCEPT !.deleted = TRUE]
              ELSE [row EXCEPT !.deleted = FALSE, !.installed = line = "wrapped", !.discovered = TRUE]
    /\ UNCHANGED <<now, hostVars, hb, series, alertVars, onTime, edits>>

\* update_cron with hidden_at, and delete_cron, which only hides.
SetHidden ==
    /\ edits < MaxEdits /\ edits' = edits + 1
    /\ row' = [row EXCEPT !.hidden = ~@]
    /\ UNCHANGED <<now, hostVars, hb, series, alertVars, onTime>>

\* install_wrapper, of a listed or hidden row: the executor wraps the line.
Install ==
    /\ line = "plain"
    /\ line' = "wrapped"
    /\ row' = [row EXCEPT !.installed = TRUE, !.current = TRUE, !.discovered = TRUE]
    /\ UNCHANGED <<now, boot, job, pings, lines, hb, series, alertVars, onTime, edits>>

\* uninstall_wrapper.
Uninstall ==
    /\ edits < MaxEdits /\ edits' = edits + 1
    /\ line = "wrapped"
    /\ line' = "plain"
    /\ row' = [row EXCEPT !.installed = FALSE, !.discovered = TRUE]
    /\ UNCHANGED <<now, boot, job, pings, lines, hb, series, alertVars, onTime>>

\* A release with a newer WRAPPER_FORMAT_VERSION.
NewFormat ==
    /\ edits < MaxEdits /\ edits' = edits + 1
    /\ row.current
    /\ row' = [row EXCEPT !.current = FALSE]
    /\ UNCHANGED <<now, hostVars, hb, series, alertVars, onTime>>

\* The rows list_crons shows by default.
Listed == ~row.hidden /\ ~row.deleted

\* _compute_wrapper_health: an old format hides silence.
WrapperHealth ==
    CASE ~row.installed -> "unknown"
      [] row.installed /\ ~row.current -> "format_outdated"
      [] row.installed /\ row.current /\ hb.since >= StaleRuns -> "stale"
      [] row.installed /\ row.current /\ hb.since < StaleRuns -> "ok"

----------------------------------------------------------------------------
(* The collector and the rules. *)

\* _compute_reboot_expected_next: negative from the boot on until an /ok.
RebootExpected ==
    IF \/ hb.ok = NoTime /\ ~row.discovered
       \/ hb.ok # NoTime /\ hb.ok < boot
    THEN boot - now
    ELSE 0

\* homelab_heartbeat_expected_next_seconds; the host's /proc is mounted.
ExpectedNextSeconds ==
    CASE Cadence > 0 /\ hb.due = NoTime -> None
      [] Cadence > 0 /\ hb.due # NoTime -> hb.due - now
      [] Cadence = 0 -> RebootExpected

\* _collect_cron_metrics: the samples of the row and their wrapper_installed label.
Samples == [next |-> ExpectedNextSeconds, since |-> hb.since, installed |-> row.installed]

\* run: replace_family of every family, with the rows of the query.  A query
\* that fails leaves the series alone.
Collect ==
    /\ series' = IF ~row.hidden /\ ~row.deleted THEN Samples ELSE None
    /\ UNCHANGED <<now, hostVars, row, hb, alertVars, onTime, edits>>

\* HeartbeatStale_*.
Overdue == series # None /\ series.next # None /\ series.next < 0

\* WrapperPossiblyStale.
WrapperQuiet == series # None /\ series.installed /\ series.since >= StaleRuns

\* vmalert evaluates the rules: pending, then firing.
Evaluate ==
    LET true == {a \in {"stale", "wrapper"} : IF a = "stale" THEN Overdue ELSE WrapperQuiet} IN
    /\ pending' = true
    /\ firing' = true \cap pending
    /\ UNCHANGED <<now, hostVars, row, hb, series, onTime, edits>>

Next ==
    \/ Tick \/ Dispatch \/ EditLine \/ Reboot
    \/ \E kind \in {"ok", "fail"} : JobEnds(kind)
    \/ \E kind \in Kind : PingLost(kind) \/ ReceivePing(kind)
    \/ Register \/ ReceiveLine
    \/ Discover \/ SetHidden \/ Install \/ Uninstall \/ NewFormat
    \/ Collect \/ Evaluate

\* The collector and vmalert run for ever.
Fairness == WF_vars(Collect) /\ WF_vars(Evaluate)

Spec == Init /\ [][Next]_vars /\ Fairness

----------------------------------------------------------------------------

TypeOK ==
    /\ now \in 0..MaxTime /\ boot \in 0..MaxTime /\ edits \in 0..MaxEdits
    /\ pings \subseteq Kind /\ lines \in {0, 1} /\ line \in {"absent", "plain", "wrapped"}
    /\ row \in Row /\ hb \in Beat
    /\ pending \subseteq {"stale", "wrapper"} /\ firing \subseteq {"stale", "wrapper"}

\* A job whose runs all start on schedule and report, however long they take
\* before the next one, never raises the overdue alert (heartbeat/repository.py:
\* a /start clears the deadline).
OnTimeIsQuiet == Cadence > 0 /\ onTime => "stale" \notin firing

\* A run was due after the last /ok and has not been heard of.
Missed ==
    IF Cadence > 0 THEN hb.state = "ok" /\ now > hb.ok + Cadence + Grace
                   ELSE hb.ok # NoTime /\ hb.ok < boot /\ boot < now

\* A listed job that stays silent after an /ok raises the overdue alert; one that
\* the log shows running without heartbeats raises the wrapper's alert; and the
\* alerts of a job that is hidden or gone end (metrics/heartbeat_collector.py).
SilenceIsNoticed ==
    /\ Listed /\ Missed ~> "stale" \in firing \/ ~(Listed /\ Missed)
    /\ Listed /\ WrapperHealth = "stale" ~> "wrapper" \in firing \/ ~(Listed /\ WrapperHealth = "stale")
    /\ ~Listed ~> firing = {} \/ Listed
=============================================================================
