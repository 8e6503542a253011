# A verification project for homelab-monitor

TLA+ models of the parts of homelab-monitor whose correctness depends on
interleaving, failure and restarts, the TLC runs that check them on small
instances, and TLAPS proofs of the properties that matter most. Paths below are
relative to `src/apps/monitor/homelab_monitor/` unless they start with `src/`.

## 1. The system

homelab-monitor is one Python process (FastAPI and asyncio, SQLite) with a React
client. Plugins called collectors sample hosts, containers and services on a
schedule and write Prometheus series that vmalert evaluates; alerts come back
through a webhook or are raised by the monitor itself; cron jobs report their runs;
a "fixer" container runs Claude on runbooks that operators wrote, to repair what an
alert reports. All of it shares one event loop: nothing is preempted between two
awaits, and everything can change across one.

### Inventory

| Part | State it keeps | Operations | What is hard about it |
| --- | --- | --- | --- |
| Auto-fix orchestrator (`kernel/autofix/orchestrator.py`) | `runbook_runs`, `runbook_run_approvals`, `_locks`, `_transcript_lock`, `_current_run` | alert, operator trigger, approve, reject, kill | gates checked before waiting for locks; approval spent once across races and crashes; a kill that races the exec |
| Files of fixes (`intents.py`, `feedback_parser.py`, `transcript_rotator.py`) | a shared directory, columns of the run | attribute, execute intents, rotate | files are told apart by when they appeared; passes that are cut off |
| Kill switch, approval API, runbook registry | `app_settings.autofix_enabled`, `runbooks` | toggle, approve, reject, rescan, patch gates, prune | both change while requests are past the gate |
| fixer-runner, docker exec (`kernel/docker/socket_client.py`) | a container, its processes | exec with a timeout, kill | the process outlives the call that started it |
| Collector scheduler (`kernel/scheduler/scheduler.py`) | one loop per collector, queue of immediate runs, group locks, awaitables | tick, immediate run, stop | overlapping ticks, lock waits with a timeout, cancellation |
| Failure budget (`kernel/scheduler/failure_budget.py`) | counters and quarantines in memory and in `collectors` | record, clear, load | two copies written in two steps; retries in between |
| Collectors (`plugins/collectors/`) | series in the registry | one run | several calls of which some fail; a run cut off between them; series that stay |
| Clients (`kernel/synology`, `pihole`, `unifi`, `ha`) | a session id, a lock of logins | request, login, logout | several callers find the session refused at once |
| Home Assistant websocket (`kernel/ha/websocket.py`) | pending commands by id | connect, send, dispatch | answers that arrive while the connection breaks; ids start again |
| Plugin runner (`kernel/plugins/`) | a process and its reader | run, deadline, kill | two deadlines of the same length; output that is still in the pipe |
| Lifespan (`kernel/api/lifespan.py`) | clients and background tasks | start, abort, stop | a startup that fails half way; order of closing |
| Alerts (`kernel/alerts/`, `api/routers/alerts.py`) | `alerts`, `alert_outcomes` | webhook, acknowledge, dismiss, resolve | duplicated and concurrent notifications |
| Karma reconciler (`kernel/analyzer/`) | the time of the last reconciliation | tick | an outage or a cut in the middle of a tick |
| Cron runs (`kernel/cron/`, `metrics/cron_run_reconciler.py`) | `cron_runs`, `heartbeats_state`, enrichments | pings, log lines, finalise, enrich, prune | lost, repeated, reordered events; reads before the transaction opens |
| Cron inventory, wrapper installation | `crons`, the host's files | discover, install, uninstall, execute as root | snapshots older than the file; an executor that is interrupted |
| Heartbeats (`kernel/heartbeat/`, `metrics/heartbeat_collector.py`) | `heartbeats_state`, series | ping, evaluate | the deadline races the late ping |
| Compose actions | per-container lock, `compose_actions` | check, accept, pull, up, terminal state | queued actions, timeouts, shutdowns |
| Docker probes | `probe_targets`, suggestions, tasks | discover, accept, override files, reconcile | three writers of one table, broken event streams |
| Container health | `targets_docker`, crash and incident rows | mirror, reconcile, prune | edges seen late, missed inspects, recreations |
| Image and build updates | baseline rows | tick, refresh | hashes taken before edits and rebuilds |
| Log drain (`kernel/logs/drain_*.py`) | watermark, models, catalogue | cycle | replay after a crash; equal timestamps |
| Log search, live tail, log writer, event stream | cursors, slots, bounded queues | load older, poll, post, publish | equal timestamps at a cursor; slow or vanished clients |
| Log alert rules (`kernel/logs/user_rules_*.py`) | `log_user_rules`, rule files | create, change, delete, render | files rendered from a stale list |
| PIN and authentication, secrets, backup, dispatch, migrations | | | not modelled, see section 7 |

`PROJECT.json` lists the parts with their files ("components") and what is hard to
test in each at its line ("hazards").

### How the parts interact

* The alert webhook stores alerts and calls `AutoFixOrchestrator.handle_alert` in a
  task of its own; the approval router calls `execute_approved`; the settings router
  writes `autofix_enabled` and calls `kill_inflight`. They share the orchestrator's
  locks, `_current_run` and two tables. What the process of a fix leaves in the
  shared directory is attributed to its run after the exec.
* The scheduler's ticks run the collectors and call the failure budget; the budget
  inserts an alert when it quarantines; `POST /collectors/{name}/retry` resolves that
  alert, clears the budget and enqueues an immediate run; the CLI writes the
  `collectors` table from another process.
* Collectors call clients that API handlers use as well, write series, and some
  write tables (container mirrors, image baselines, cron runs) that reconcilers,
  themselves collectors, read.
* Wrapper pings and the log lines that Vector posts write the same cron tables; the
  discoverer, the installer and the root executor meet in the host's crontab.
* Override files, labels and the operator write `probe_targets`, which a supervisor
  turns into tasks.
* `lifespan` opens all clients, hands them to tasks and collectors, and closes them.

### What makes the parts correct

*Fixes.* An approval of a dry run buys at most one real run, of the version that was
approved. A runbook stays within its rate and its cooldown. An alert is `auto_fixed`
only by a run that did it. What is stored with a run is its own. Requests end.

*Scheduling.* No recorded failure is forgotten, a collector that keeps failing is
quarantined, none is quarantined without its failures, and a quarantine is announced.
One broken call of a collector hides nothing that the others brought, and an outage
and a recovery show in a gauge.

*Records.* A run of a cron job is counted once and alerted once, and closed for good; a
fingerprint has one firing row and each resolution its outcome; an incident is a spell
of bad health; a log line reaches the models at least once; pages, tails and streams
show every line once or say that they do not. Rows, files and badges agree with the
world once it rests.

*Resources.* One compose process per container; a client is open while it is used; a
wrapped crontab line finds the files of its wrapper; an answer reaches the caller that
asked.

## 2. Modules

| Module | Models |
| --- | --- |
| `AutoFix` | orchestrator, its tables, registry, kill switch, fixer container |
| `RunFiles` | transcripts, feedback and intents of fixes, rotation |
| `Scheduler` | tick loops, group locks, failure budget, quarantine alerts, retries, CLI, restart |
| `Metrics` | what collectors read and write: answers, items, series, labels |
| `HaCollectors`, `PiholeCollectors`, `UnifiCollectors`, `SynologyCollectors`, `HostCollectors` | what each collector writes for which answers |
| `Collectors` | any one of them, run over and over with a service that changes its answers |
| `ApiSessions` | the four API clients, their sessions and logins |
| `HaWebsocket` | connections, commands and answers of the websocket |
| `PluginRuns` | a subprocess plugin under two deadlines |
| `Lifespan` | startup and shutdown |
| `AlertLifecycle` | webhook, tables of alerts and outcomes, Karma reconciler, for one fingerprint |
| `CronRuns` | pings, log lines, runs, reconciler of one cron job |
| `CronInventory` | one user crontab, scans, wrapper installs, root executor |
| `Heartbeats` | deadline, series and alert rules of one job |
| `ComposeAction` | pull-and-restart of containers |
| `DockerProbes` | labels, override files, operator and supervisor over one probe table |
| `ContainerHealth` | mirror, crash and healthcheck reconcilers of one container |
| `ImageUpdates` | image and build badges of one container |
| `LogDrain` | cycle, watermark, models, catalogue |
| `AtLeastOnce` | the abstract specification that `LogDrain` implements |
| `LogPages`, `LiveTail`, `LogWriter`, `EventBroker` | paging, live tail (server and tab), writer of lines, event stream (server and tab) |
| `LogRules` | rule table, validation and dry run, rule files |
| `MCAutoFix`, `MCScheduler` | instances of one component each |
| `MCSafety`, `MCLiveness`, `MCDocker`, `MCCron`, `MCLogs` | instances of several components; a behaviour is one of one component, named by `part` |
| `*Proofs` | theorems, see section 5 |

Definitions named "Mutant" in their comments are plausible bugs. No action uses them;
each replaces the definition below it to confirm that a property notices.

What is common to all modules: an action is what a task does between two awaits at
which another task can change what it reads. A process of the monitor that crashes
loses its tasks, locks and memory and keeps its tables and files. Tables are functions
from ids to rows; payloads are members of small sets. Variables that the code does not
have are called history in their comments and read by no guard.

### AutoFix and the code

A `Task` is one asyncio task. `pc[t]` is the await it is at, `ctx[t]` its locals. An
approval has the id of its dry run.

| `pc` | code | actions |
| --- | --- | --- |
| idle | the request arrives and loads a runbook | `HandleAlert`, `HandleOperatorTrigger`, `ExecuteApproved`, `ToggleOff` |
| drift | `execute_approved` compares the pinned hash and the gates | `CheckDrift` |
| switch, limits | `_check_operational_gates` | `GateSwitch`, `GateLimits` |
| approve | `mark_approved_conn`, guarded by status pending | `Approve` |
| lock | wait for the runbook's lock, then the claim transaction | `Claim` |
| transcript, prepare | wait for the process-wide lock; grants and egress | `TakeTranscriptLock`, `PrepareFails`, `Publish` |
| create, exec | `exec_capture` | `StartProcess`, `ExecReturns`, `ExecFails` |
| persist | the completion transaction, after both locks are released | `Persist` |
| pin, revert | `set_real_run_id`, `revert_to_pending` | `PinRealRun`, `Revert` |
| toggle ... stamp | the kill-switch request and `kill_inflight` | `WriteFlagOff`, `KillSnapshot`, `KillContainer`, `KillVerify`, `KillStamp` |

`Reject`, `ToggleOn`, `Refresh`, `PatchGates` and `Prune` are requests of one step.
`OrphanExits`, `ContainerStarts`, `Tick` and `Crash` are the environment. A runbook
version is its content hash, and `RiskyVersions` are those whose config requires a dry
run. `RunRow.appr` is a history column: the approval a claim was made under.

`RunFiles` models what `AutoFix` leaves out of `_exec_claude` to `_process_feedback`: the
listing of the directory before the exec, the files that appear, their attribution, the
intents and the rotator. A run is its id; the transcript lock is `living`.

### Scheduler and the code

A `Tick` is one tick task: queued, at the quarantine gate, waiting for the group lock,
inside the collector, then, after a failure, before and after the commit of
`record_failure` and before the lookup and the write of the alert. An `Operator` is one
retry request. `count` and `quarantined` are the budget's dictionaries, `dbCount` and
`dbReason` the columns; `rows` and `firing` are what remains of the alerts table for a
fingerprint (collector and reason). A `TickFault` is a database transaction that raises,
or any other exception of the tick; `CancelTicks` is what `stop()` does to the ticks that
are left. `streak` and `earned` are history: the failures recorded since the last success
or clear, and since the last clear. `Restart` is a crash followed by `load_state` and
`clear_all_quarantine`.

### Collectors and their services

An answer of a service (`Metrics`) is an error, a payload of an unexpected shape, or two
items of two fields, each a number or unusable. A definition such as `SynologyUps(got)`
is what one run writes when its calls were answered `got`; its value names the calls it
makes, whether the run counts as a success, and the series. `Collectors` lets the calls
of a run be answered one by one while the service changes, cuts a run off at any call,
and keeps what was written; `names` are the label names a family was first written with,
since the registry refuses others. `Blind` and `Ragged` list the families for which the
code does otherwise than the property says (section 6).

`ApiSessions` has one client of each kind. `sid` and `authLock` are the fields of the
client, `valid` the sessions the service knows. A caller is at the check of its session,
at the lock, inside the login, or between its request and the answer.

### Services and processes

`HaWebsocket`: `pending` is the table of futures by id, `wire` what Home Assistant was sent
on the current connection, `loop` where the run loop is. `PluginRuns`: `run` is where
`run_subprocess` is, `proc` the processes, `reader` the tasks that drain their pipes.
`Lifespan`: `Boot` and `Shutdown` are the sequences of steps of the function; each says
which client it opens or closes, which task it starts and which it stops. `EventBroker`
and `LiveTail` have both ends: the queues of the server and the state of the tab
(`src/apps/ui/src/lib/sse.ts`, `logsTail.ts`).

### Cron, docker and logs

`CronRuns`: a `Task` is a request handler; its steps are the read of the heartbeat row,
the write, and the transaction of the run row. `tick` is the reconciler, with
`FinalizeRun`, `EnrichRun`, the failure row, its counter and `Prune` as steps.
`CronInventory`: `crontab` are the lines in the host's file and `spool` what else becomes
of it (other lines, empty, gone), `snap` its snapshot, `exec` the pass of the root
executor with what it has to undo. `ComposeAction`: `lock` is the queue at the container's
lock, `child` the running docker CLI processes. `DockerProbes`: `worker` is what the scan
and the event loop inspected last, `parsed` the files the loader has read.
`ContainerHealth`: `gathered` and `row` are what the collector saw and wrote, `crash` and
`incident` the reconcilers. `ImageUpdates`: `job` is the two ticks and the refresh with
the hash or digest they took. `LogDrain`: instants are `Res` per millisecond; `learned`
are the models in memory and `saved` those in the table. `AlertLifecycle`: `request` is a
webhook handler between its reads and writes. `LogRules`: `job` is what a request is about
to do (write, audit, list, render). `Heartbeats` counts in ticks of its collector.

## 3. Runs

The parts of a run are instances that do not interact; each property names the part it
is about. Twelve runs, seven that pass:

| Run | Distinct states | Parts and what they show |
| --- | --- | --- |
| `autofix_approvals` | 3.6 million | two requests at a time, three runs, a safe and a risky version, and one crash, edit or kill-switch request: `OneRunPerApproval`, `RiskyRunsAreApproved`, `AutoFixedIsEarned`, `OnlyRealRunsAreKilled` |
| `scheduler_budget` | 3.3 million | one collector, threshold 2, two reasons, two ticks, two retries, four failures, a fault, a restart, a use of the CLI: `NoFailureForgotten`, `ChronicFailureIsQuarantined`, `QuarantineIsEarned`, `QuarantineIsAnnounced` |
| `safety` | 1.1 million | *collectors* `HealthIsShown`, `CallsAreIndependent`; *sessions* `OneLossIsHidden`; *lifespan* `UsersHaveTheirClients`; *plugins* `SuccessIsEarned`; *pages*, *tail*, *events*, *writer* `LinesAreExact`; *files* `RunFilesAreSound`; *limits* (`AutoFix` with a clock) `LimitsHold` |
| `liveness` | 152 000 | *fix* `RequestsEnd`, `ApprovalsSettle`; *ticks* (two collectors of one group) `TicksEnd` |
| `docker` | 133 000 | *compose* `OneProcessPerContainer`, `AcceptedActionsEnd`; *probes* `ProbesConverge`; *health* `IncidentsAreSpells`, `CrashesAreCounted`; *images* `BadgesSettle`; *websocket* `AnswersAreDelivered` |
| `cron` | 221 000 | *mixed* (two requests at once), *tailed* (log lines, late and repeated), *pruned* (late pings, short horizons, a restart): `NoObservedRunLost`, `FailureReportedOnce`, `ClosedRunsStayClosed`, `TailedRunsClose` (of one of two interchangeable runs); *installs*, *scans*, *faulty*: `WrappedLinesCanRun`, `InventoryConverges` |
| `logs` | 625 000 | *drain*, *burst* `CatalogueIsBacked`, `DrainIsAtLeastOnce`; *webhook*, *late*, *reconciled* `OneFiringRow`, `FiringIsRecorded`, `NoResolutionDropped`; *rules* `RulesAreRendered`; *hourly*, *boot* `OnTimeIsQuiet`, `SilenceIsNoticed` |

Five show a disagreement with the documentation (section 4): `autofix_switch_race`,
`scheduler_late_alert`, `log_drain_loss`, `plugin_timeout`, `tail_slots`.

### Why the bounds are enough

* Two tasks, ticks, callers, requests or calls give every race between two, and what
  they share (a lock, a row, an approval, a session) is shared pairwise. Three run ids
  allow a dry run, the real run of its approval and a second attempt. The proofs of
  section 5 have no such bound.
* One crash, fault, loss or interruption is enough where the state after it is again one
  that a behaviour without it can reach or that the next start repairs; a second meets
  nothing new. Where they compete, `MCSpec` allows one of them.
  In *installs* no scan is under way with a call: no scan writes what
  `WrappedLinesCanRun` is about, and *scans* overlaps the two.
* Clocks run just far enough for each horizon to pass while something is under way:
  window and cooldown 2 in a clock of 3 (a request reads the clock, waits while another
  run starts and ends, and claims with thresholds that are 2 old); a retention of 0 or 1
  in a clock of 2 or 3; a cadence of 2 in a clock of 3 for deadlines.
* Threshold 2 and four failures let a collector be quarantined twice, with a success or
  a clear in between; two reasons separate fingerprints.
* Four log lines on two instants per millisecond, batches of 2 and 3: a full batch can
  end between lines of one millisecond and between lines of one instant.
* Two items of two fields per answer distinguish all, some and none usable; two events
  between the calls of a collector with two calls change each answer once. The more calls
  a collector makes, the fewer answers of each are tried (`MCOffered`).
* Queues of 2 and 3 with 5 events or lines overflow and drain again.
* The live tail has three lines, a budget of 1, connections of 2 seconds, and answers that
  hold any of the lines asked for: lines are dropped, cut, and cut at the cursor's instant.
* Bounds are constants named `Max...`; they disable actions of the environment only.
  Symmetry is over tasks and run ids, and over ticks and retries, in safety runs only.
* `CHECK_DEADLOCK FALSE`: after `stop()` the scheduler stops (both scheduler runs, *ticks*),
  and so does *websocket*; the requests, changes and faults of `docker`, `cron`, `logs`
  and `liveness` are bounded, and when they are used up and the clock has reached its
  bound nothing is left to do; so it is with the lines of `log_drain_loss`. `safety`,
  `autofix_approvals`, `autofix_switch_race`, `plugin_timeout` and `tail_slots` check for
  deadlock; in `safety` the ends of *files*, *writer* and *pages* have a stuttering step
  whose guard says that all work is done.

`QuarantineIsAnnounced` excuses behaviours with a database fault: a fault between the
commit of a quarantine and its alert leaves it unannounced, and the code logs that.

### Fairness

* `AutoFix`: weak fairness of a task's step (the event loop runs what is ready, a docker
  exec ends at its timeout), strong fairness of `Claim` and `TakeTranscriptLock`
  (`asyncio.Lock` serves waiters in order). Nothing of requests, the clock, edits,
  crashes. `ApprovalsSettle` is checked without crashes: after one an approval may stay
  approved without a run (section 6).
* `Scheduler`: weak fairness of a tick's step (a collector ends by its timeout, a lock
  wait by its own), of `AwaitTimeout` (`wait_for`), of `CancelTicks` (the second half of
  `stop()`).
* `CronRuns`: weak fairness of the clock, of handlers and of the reconciler's tick, which
  the scheduler starts for ever, strong fairness of `FinalizeRun`, since a tick goes
  through all open runs unless it is cut off, and not every tick is.
* `CronInventory`: weak fairness of timers, the executor, calls and scans, strong of a
  `ReadFile` that succeeds and of a `ListPaths` that succeeds after it: a snapshot is not
  unreadable for ever, nor does the query fail in every scan that could read one.
* `ComposeAction`: weak fairness of a task's step; every step has a timeout, but for the
  last `communicate()` after SIGKILL (`compose_action_runner.py:591`): that a killed process
  ends, and with it its output, is assumed.
* `DockerProbes`: weak fairness of event handling, upserts, files, an accept that was
  begun, and the supervisor; strong of the inspection of each listed container by the
  periodic scan, which goes through all of them each time.
* `ContainerHealth`: weak fairness of ticks, inspects that succeed, and rows.
* `ImageUpdates`: strong fairness of the ticks, of a hash and of a registry answer while
  there is no limit, as each may be preempted by the other job for a time; weak of the
  writes, the refresh, `compose up` and the end of a rate limit.
* `LogDrain`: weak fairness of the clock, of the start of cycles and their steps.
* `AlertLifecycle`: weak fairness of the repetition of notifications and of handlers.
* `Heartbeats`: weak fairness of the collector and of vmalert's evaluation.

### The refinement

`DrainIsAtLeastOnce` is `Log!Spec`: `LogDrain` implements `AtLeastOnce` under the mapping
`at <- stamp`, `done <- saved`, `position <- watermark * Res`. An item is done when a saved
model holds it; the position is the instant the next query starts after. `AtLeastOnce`
lets the position pass only what is done or a twin, and its fairness says that what the
position has not passed is done in the end.

## 4. Disagreements with the documentation

* `autofix_switch_race`: the kill switch is read once (`orchestrator.py:260`), before
  two waits for locks, and `_current_run` is published after them. In the trace the
  request has claimed its run and is not yet at its publication; the switch is turned off,
  `kill_inflight` finds no run and its request ends; then the run is published, on its way
  to `docker exec`, and no kill of that request will find it.
  `src/epics/EPIC-009-auto-fix/STAGE-009-007.md:9` says that toggling it off denies all
  new runs and kills any in-flight one.
* `scheduler_late_alert`: a retry between a quarantine's entry in memory and the
  insertion of its alert (`failure_budget.py:283`) finds nothing to resolve, and the alert
  that follows fires for a collector that is not quarantined. `scheduler.py:305` says a
  clear resolves any active quarantine alert.
* `log_drain_loss`: a full batch that ends between two lines of one whole millisecond
  moves the watermark onto it, and the next query starts 1 ns later; the second line is
  never read. The comment at `logs/drain_consumer.py:308` says that this "can never skip a
  real line".
* `plugin_timeout`: the scheduler's deadline is as long as the runner's and armed first,
  so the runner is cancelled before it signals the process, which goes on.
  `src/epics/EPIC-001-foundation/STAGE-001-009.md:44` promises SIGTERM, then SIGKILL.
* `tail_slots`: a client that leaves during the probe of a live tail leaves its slot
  taken: the generator whose `finally` gives it back is never started
  (`api/routers/logs.py:653`). `src/epics/EPIC-004-logs-pipeline/STAGE-004-023.md:151` says
  that `finally` guarantees the release.

`AtLeastOnce` excuses the twins of the third; its property says that nothing else is lost.

## 5. Proofs

The theorems hold for every value of the constants under the named assumptions of the
modules. `DataAssumption` (risky versions are versions, `Matches` is a function, `None` is
no id), `TimeAssumption`, `BoundAssumption` (natural numbers) in `AutoFix`;
`ConstantsAssumption` (thresholds at least 1, `None` distinct, bounds natural) in
`Scheduler`; `IdsAssumption` and `TimesAssumption` (natural numbers) in `CronRuns`;
`DrainAssumption` in `LogDrain`; `NoneAssumption` in `ComposeAction`. A module that is
only instantiated states its assumption as a definition, which the `MC` module assumes of
its instance: `FilesAssumption` of `RunFiles`, `BrokerAssumption` of `EventBroker`,
`PagesAssumption` of `LogPages`, `TailAssumption` of `LiveTail`, `WriterAssumption` of
`LogWriter`, `LifespanAssumption` of `Lifespan` and `CollectorsAssumption` of `Collectors`
(the plugins are collectors that exist; no answer can be mistaken for a call that was not
made) in `MCSafety`, `WebsocketAssumption` of `HaWebsocket` (`None` is no caller) in
`MCDocker`, `RulesAssumption` of `LogRules` and `ScheduleAssumption` (cadence and leeway
are natural numbers) in `MCLogs`. The configurations give these constants their values,
and TLC evaluates all of the assumptions. None restricts the number of tasks, rows,
crashes or failures.

Some components are instantiated by an `MC` module. Their proofs are either about the
component itself, with a theorem that lifts the result to the run's property
(`AlertLifecycleProofs` to `OneRowFires` and `ResolutionsAreKept`, `CronInventoryProofs`
to `CrontabsCanRun`, `CollectorsProofs` to `OutagesAreSeen` and `AnswersAreWritten`), or
about the instance, whose constants are those of the `MC` module or fixed there
(`DockerProofs` for `Health` and `Websocket`, `LogDrainProofs` for the rules and the
heartbeats, `SafetyProofs` for the others that `MCSafety` runs).

### SafetyProofs: fixes

* `TypeCorrect`: `Wellformed` (types, and for each label which locals and rows are
  there: a task past its claim has a run row of its mode, a kill's target is a real
  run) is inductive. `TypeOK` alone is not, since actions index the tables by locals.
* `OnlyRealKilled` follows: `_current_run` and a kill's target are real runs.
* `ApprovalsBuyOneRun` and `SpentApprovalsStay` rest on `ApprovalInv`: an approval that
  some task carries past `Approve` is approved, without a pinned run, and carried by
  that task alone; a task that waits to claim or is about to revert carries one that no
  run was claimed under; a claimed run belongs to one task. The guarded UPDATE of
  `mark_approved_conn` makes the owner unique, `Claim` moves ownership from the task to
  the run, and a task at `revert` owns an approval without a run, so reverting cannot
  reopen a spent one. A crash drops the owner and never creates a second one.
* `HistoryIsKept` is an action property: a row of the runs table keeps what it was claimed
  with, and a finished run its end and exit; a stored plan keeps its version.
* `RiskyRunsHaveApprovals`: the version that a task carries from its drift check to its
  claim is the one pinned in the plan, and a plan that was made for a version is not
  changed by an edit of the registry.
* `OutcomesAreEarned`: between the completion of a run and its outcome the row is there
  with exit 0; uses that history is kept.
* `RunsAreLimited`: a claim uses thresholds computed before a wait. The invariant bounds
  them from below by what any run under way had when it was claimed: within the lock the
  other runs of the runbook have ended or are older than the stale threshold, so the
  count in the window and the last recorded end can only have got further away.

### SafetyProofs: files, sessions, plugins, lines, lifespan

* `FilesAreSound`: `FilesInv == FileTypes /\ Traces /\ Rotation /\ Decisions`. `Traces` says
  what a run can find: a file that appeared since the listing before its exec is its own,
  since the lock keeps other execs out, or of a process that outlived its exec, and no
  file is found by two runs, since the listing of the later one has it. `Rotation` says
  for each row that is gone and each removal under way that `KeepLastN` newer rows were
  there when it was decided; a newer one may itself have been removed since, but then
  `KeepLastN` newer ones superseded it, so the newest that are there still count enough.
  The last step needs a maximal element of a finite set of runs and cardinalities of
  subsets, from `FiniteSetTheorems`. `Decisions` ties the verdicts of the gateway to the
  intents, position by position, and to the number of restarts.
* `LossesAreHidden`: `SessionInv == SessionTypes /\ Renewed`. Ids of sessions only grow. If
  nothing was lost since a call began, and it was refused with an id, then that id is gone
  and any other id the client holds is younger and valid: at the retry it uses a session
  that the service knows, whoever logged in.
* `StreamsAreConsecutive`: `StreamInv == StreamTypes /\ RingIsNewest /\ Unserved /\ Served`.
  The ring holds the newest events; the queue of a subscriber was filled from the ring
  and by publishing, so it is consecutive up to the newest; one that was kicked out ends
  with the disconnect mark. A part of `LinesAreExact`.
* `SuccessesAreEarned`: `PluginInv == PluginTypes /\ Earned /\ Recorded` for every process.
  What a reader has recorded is what its own process wrote before the result line, which
  is among the lines it has read; a run is reported ok only after its process exited with
  0 and its reader ended at such a line. The metrics are a set of lines before a position,
  so that no induction over the sequence is needed.
* `LinesStayExact` has one invariant for each of its parts. `PagesInv`: once a page was loaded, the
  lines shown are all those from the cursor's instant on, each once, and `cursor.n` counts
  those at that instant; a full page that would end inside an instant is completed, and a
  short one ends the paging. `TailInv`: a cursor is not behind the start and not
  before a line that was shown, and counts no more lines of its instant than there are
  (`CursorOK`); what a tab shows is in the order of instants, and at an instant where no
  answer left a line out each line shown is among the first `n`, since the lines of an
  instant that are fetched together are then a prefix of it, so that none comes again
  (`ShownOK`). While no answer was cut, the lines before the cursor are all lines since the
  start that were seen, and those shown and those counted as dropped make them up
  (`CountedOK`).
  `WriterInv`: what is queued, batched and stored is in order, every line is stored, counted
  as dropped or failed, in the batch or in the queue (`Accounted`), and the flusher ends
  with none before the sentinel left over (`Stopping`). `StreamInv` as above.
* `ClientsOutliveTheirUsers`: `LifespanInv == LifeTypes /\ BootOK /\ StopOK /\ DockerOK`. A
  startup has opened every client whose step it has passed and started only what comes
  earlier; a shutdown has closed only what its steps name (`BootOK`, `StopOK`). That a user
  stops before its client is then a fact about positions in the two sequences. The docker
  clients, of which there are two if a collector brings its own, need `DockerOK`: a client
  that was handed out is open until the shutdown reaches docker.

### SchedulerProofs

`BudgetInvariant` proves `Spec => []BudgetInv` with

    BudgetInv == TypeOK /\ TicksOK /\ OpsOK /\ GroupsAreSerialized /\ FailuresOK /\ CountsOK

`NoFailureForgotten` is not inductive alone. `record_failure` reads the counter,
commits `new` to the table and only then writes the dictionary, and a retry deletes
both in two steps of its own; a state in the middle of either looks as if a failure
had been lost. `FailuresOK` says what holds of a tick in the middle: its collector is
not quarantined in memory, and `new` lies between `streak` and `earned` (each plus one
before the commit). Other ticks of the collector are kept out by the group lock. A retry
lowers the counters only for a collector that is quarantined in memory, and nobody can
quarantine one while its tick holds the lock. `CountsOK` relates the counter, the column,
`streak` and `earned` of each collector: the column is never behind `streak`; the counter
is not either, unless a tick is about to write it or `stop()` has cancelled all ticks; the
counter reaches the threshold exactly when the collector is quarantined.

Consequences: `SchedulerTypes`, `GroupSerialization`, `FailuresRemembered`,
`ChronicFailuresStop`, `QuarantinesEarned`. `QuarantinesAnnounced` adds an invariant about
who is responsible for a missing alert: the tick that emits it, a retry that is clearing,
a fault, or a clear of the same collector.

### CollectorsProofs

Four facts about each of the fifty collectors, for any answers `a` to its calls and not
only those that the run offers: the calls it makes depend on the answer to its first call
only (`CallsMade`); it writes no gauge of a service but its own; a run that is answered
nothing has one of them at 0 or is not ok, and a run in which all is well is ok and has none
at 0 (`ResultsKnown`); what an answer brings does not depend on the answers to the other
calls (`ResultsApart`).

`CollectorInv == CollectorTypes /\ CollectorRuns /\ CollectorEnds /\ Consistent` carries this
from a run to the registry, which outlives it. A run that has asked anything has asked its
first call and only calls it makes, so that its next call is well defined
(`CollectorRuns`). The registry has gauges of the one collector only, each family with the
label names of its first write, so that no later write of a gauge is dropped and no gauge
of an earlier run remains beside those of a later one (`Consistent`). After the last call
the gauges in the registry are those of the run, and the count of failures is that of its
verdict (`CollectorEnds`). `OutagesAreSeen` (`HealthIsShown`) and `AnswersAreWritten`
(`CallsAreIndependent`) follow in `SafetyProofs`.

`Metrics` joins two sets of series with an operator `++` of its own: the definitions of
`@@` and `:>` in the module `TLC` are not visible to the provers.

### CronRunsProofs and CronInventoryProofs

`Typing`: `Wellformed` types the locals of requests and of the tick. `ObservedRunsAreCounted`:
`CountOnce`, a line is counted by the request that claimed its cursor, and the cursor is
claimed once. `FailuresAreReportedOnce`: `AlertOnce`, only the tick that made the failure
row goes on to raise the counter, and a row of a failure is pruned after its lifecycle
row. `ClosedRunsAreKept` is an action property of `Wellformed` states.

`WrappedLinesRun`: `InventoryInv == Types /\ CallsOK /\ KitOK /\ UndoOK /\ WrappedLinesCanRun`. A
line is wrapped last, when script, token and environment are there (`KitOK`), and from
then on no pass of the executor has anything to undo, since it found each file in place
(`UndoOK`). A line is wrapped once since a call that installs keeps a line without the
wrapper and the executor replaces that line only (`CallsOK`). `CrontabsCanRun` states this
of all three instances in the run `cron`.

### LogDrainProofs and AlertLifecycleProofs

`CatalogueIsKnown` and `DrainLosesNothing` rest on `DrainInv == Types /\ OpenEnd /\ BatchOK`:
the window of a cycle is settled when the cycle begins, as lines arrive after its end; the
batch stays the oldest lines of the window; when the watermark moves, the batch is in the
saved models. `DrainLosesNothing` is the safety half of the refinement of `AtLeastOnce`,
proved step by step: initial states map to initial states, the snapshot of the models to
`Process`, the advance of the watermark to `Start` or `Advance`, an arrival to `Arrive`, and
every other step to a stutter. The liveness half is `DrainIsAtLeastOnce` in the run `logs`.

`FiringRowsAreAlone` and `ResolutionsAreDecided`: `LifeInv == Types /\ Alone /\ Settled /\ Decided`.
`Alone` is the unique index on firing rows. What is resolved stays resolved at its time
(`Settled`), so rows that a tick must decide are among those it lists later, and the time
of the last reconciliation moves only after all of them are decided (`Decided`).

`RulesFollowTheTable` (lifted by `RulesStayRendered`): `RulesInv` says that once the last
rendering was not overtaken, the directories hold the enabled rules of the table, unless a
request is still about to render; a rendering lists the table after the write that it is
for, and whoever writes in between renders later.

`PunctualJobsAreQuiet`: `BeatInv` says of a job on schedule that its last `/ok` covers every
scheduled instant before now (`Kept`), that a run of this instant has sent its start
(`Started`), and that neither rule is pending or firing (`Quiet`).

### DockerProofs

`ProcessesAreAlone`: `ComposeInv == Types /\ LockOK /\ RowsOK /\ OrphansAlone /\ OneProcess`. A
docker CLI process has two guards, one after the other. While its task lives, the task is
the head of the lock (`LockOK`). After the server stopped under it its row stays active
(`RowsOK`), so that no later request passes the check, and those that had passed it were
stopped as well (`OrphansAlone`).

`IncidentsBeginSpells`: `HealthInv == HealthTypes /\ Anchored`. The stamp of a row, the row a
reconciler works on and the incidents kept all name an instant at which a spell of bad
health began.

`AnswersReachTheirCallers`: `WsInv` says that a caller without a result is in the table of
futures under its id (`Waiters`), and that whatever else the table holds is nobody's: what
is left of callers that were cancelled (`Entries`). The table is empty whenever no
connection is in use (`Fresh`), so that ids that start again meet no entry of an earlier
connection; a command on the wire has an id in the table for its own sender, for nobody, or
none (`Frames`); and no send of an old connection is under way on a new socket (`Senders`).

### Only model-checked

* Liveness: `RequestsEnd`, `ApprovalsSettle`, `TicksEnd`, `AcceptedActionsEnd`,
  `ProbesConverge`, `CrashesAreCounted`, `BadgesSettle`, `TailedRunsClose`,
  `InventoryConverges`, `FiringIsRecorded`, `SilenceIsNoticed`, and the liveness half of
  `DrainIsAtLeastOnce`. The prover does not reason about fairness.
* Deadlock freedom of the runs that check it.

Every other property that a passing run checks is stated by a theorem.

No module uses `RECURSIVE`.

## 6. Observations

Behaviour met while modelling that a reader of the code may not expect. The models have
it unless said otherwise; no property claims otherwise.

*Fixes*

* An exec that times out leaves its process alive in the container
  (`socket_client.py:515`), and the next run starts beside it, although the transcript
  lock "serializes ALL fixes process-wide" (`orchestrator.py:193`). A transcript or feedback
  of such a process can be attributed to another run.
* `killed_at` can be stamped on a run that ended with exit code 0 before the container
  was killed (`orchestrator.py:1798`, against 1707), also when the SIGKILL struck another
  run that had come and gone in between. `OnlyRealRunsAreKilled` says of these races only
  that none reaches a dry run.
* The stale threshold counts from the claim, not from the start of the exec, so a claim
  that waits for the transcript lock can be taken for an orphan (`orchestrator.py:310`);
  while the process lives, the per-runbook lock still excludes a second run.
* After a crash between `Approve` and `PinRealRun` an approval stays approved without a
  run; nothing reclaims it, and nothing runs it twice.
* The intents of a run that ended with a nonzero exit are acted upon, also those of a run
  that was killed if the switch is on again. A crash between the docker call and its audit
  row leaves a restart without one.
* A rotation that is cut between removal and mark leaves a row that points at a missing
  file until the next pass.

*Scheduler and collectors*

* The quarantine gate is before the wait for the group lock (`scheduler.py:569`, 596): a
  collector quarantined meanwhile runs once more.
* Quarantine alerts for an earlier reason, and those of quarantines cleared at startup,
  stay firing (`scheduler.py:337`, `lifespan.py:930`).
* Two concurrent clears can meet in `failure_budget.py:424`: the second raises `KeyError`.
* A tick that is cancelled or faults does not signal its awaitable; the caller waits for
  its own timeout (`scheduler.py:596`). The CLI clears the table only; the running process
  keeps its quarantine (`cli/collector.py:63`).
* Series are never removed except by `replace_family`, so values of things that vanished
  stay; a DNS probe that times out and then succeeds leaves both outcomes at 1. Families
  written with other label names than the first are dropped (`Ragged`). The size of a
  watched directory that does not exist is shown as 0 (`Blind`). Parse-error gauges of
  `ha_entity_available` and `ha_cadence` are never reset.
* Logins of a client are not single-flight: `_ensure_session(self._sid)` reads the id after
  the refusal came in (`synology/client.py:312`, `pihole/client.py:379`).
* `scheduler.stop()` leaves plugin processes alive; late lines of a process that timed out
  overwrite metrics of a newer run; a line that raises in the reader ends the draining.
* `ProbeSupervisor.run` spawns probe loops again after `stop_per_container_tasks`
  (`probe_supervisor.py:113`), and they outlive the HTTP client and the engine; the docker
  client created at `lifespan.py:1003` is not closed once `app.state` was overwritten at 1057.
  `UsersHaveTheirClients` excludes both by name.
* The deadline of a collector cancels `send_command` before its own 30 s are over, and only
  a timeout of its own removes the entry of a command (`ha/websocket.py:260`): that of a
  cancelled caller stays until the answer comes or the connection ends.
* Home Assistant: a failed replay of subscriptions waits for the next reconnect; a
  connection whose handshake raises is not closed (not modelled).

*Alerts, cron, heartbeats*

* `resolved_at` is taken before the commit, so that a resolution in flight when the
  reconciler reads is older than the new `last_reconciliation_at` and never decided. A
  silence of a fingerprint that fired twice is ambiguous and never acknowledged. A late
  handler of a firing notification can leave a firing row after the resolution. Only the
  last firing alert of a payload reaches the orchestrator (`api/routers/alerts.py:299`).
* Streak and `last_ok_at` of a heartbeat can be lost: the SELECT runs before the first
  write opens SQLite's transaction. Wrapper runs whose end is lost never close. A crash
  after `set_enrichment` drops the failure row. The cursor of a log line is claimed before
  its run is written. `_close_bmode_run` closes the newest open run of any source.
* `_compute_streak` is never negative, so `HeartbeatFailed` and
  `homelab:heartbeat_fail_count` (`current_streak <= -1`) never fire. A job that sent a
  start and died has no deadline. An `@reboot` job is overdue from boot to its `/ok`. The
  average cadence makes an uneven schedule falsely overdue.
* A crontab that was emptied, but whose spool file is still there, keeps its snapshot: the
  script skips it (`src/scripts/hm-crontab-snapshot.sh:96`) and prunes only snapshots whose
  spool file is gone (124). Its rows stay in the inventory, as if the jobs were still there,
  although the comment at line 91 says of a failing `crontab -l` that the prune pass removes
  any stale snapshot of the user. `InventoryConverges` holds such a crontab to its snapshot.
* An upsert that fails makes the same scan soft-delete the row, against the comment at
  `plugins/discoverers/cron_discoverer.py:295`; a missing snapshot directory soft-deletes
  all user crons; a scan undoes the renaming of a cron; an install that timed out may still
  be applied.

*Docker*

* After a crash, a shutdown or a database error the row of a compose action stays active
  and blocks its container for ever. `lifespan.py:1761` says that children get SIGTERM;
  cancelling sends no signal. The lifecycle endpoints do not take the lock.
* Probes of containers that are gone are never hidden; accepted probes of labelled or
  file-owned containers are hidden by the next scan; a change of `enabled` in an override
  file is ignored for existing rows.
* After the retention prune a crash row is inserted and counted again every tick
  (`container_crash_reconciler.py:189`). `CrashesAreCounted` says that a crash is counted,
  not that it is counted once.
* The baseline of a local build is what the first tick after a new image hashes
  (`local_build_update_collector.py:403`). An edit made before that hash and taken back
  after it leaves a badge although the sources are those of the image, and one that was
  not taken back goes unnoticed. `BadgesSettle` says that the badge compares the sources
  with those of some moment since the image is there.
* Both image collectors write `homelab_image_update_available` with different label names,
  so whichever comes second is dropped. A container missing at one tick loses its baseline
  and with it a known update. The refresh reports an update when limits are exceeded, where
  its docstring says that it does nothing (`local_build_update_collector.py:551`).

*Logs*

* Lines of the boundary millisecond are fed again after a partial cycle, and failed or
  crashed cycles feed again; a signature may miss the catalogue after a crash between
  watermark and sync.
* A render that is overtaken can leave the file of a rule that is disabled or deleted; a
  PATCH merges fields it read before and can re-enable a rule; an audit failure skips the
  render.
* The answer to a poll of the live tail is cut at `max_lines` and `max_bytes`
  (`tail_service.py:238`), and the tail does not look at `result.truncated` (259): the lines
  left out are neither shown nor counted as dropped, and the cursor passes them; if they are
  of the cursor's instant, others of it can be shown twice. `LinesAreExact` claims
  completeness as long as no answer was cut, and order always. The byte cap can also split a
  group of one instant of a page, with duplicates or gaps (not modelled). A line that
  arrives behind others of its own instant is shown twice or dropped by the tail (`LiveTail`
  assumes arrival in sort order).
* Lines of an answer that are no JSON are skipped uncounted
  (`victorialogs_client.py:241`), so that such a line is never learned and a full batch with
  one is taken for a partial one. `LogDrain` has none.
* What the user-rules-health endpoint says of the rules is not modelled: vmalert refuses all
  rules when one file does not parse (`user_rules_render.py:7`), looks at the files from
  time to time, and while it cannot be reached every rule is unknown
  (`api/routers/logs.py:1775`, 1821). `RulesAreRendered` is about the directories.
* A slow subscriber of the event stream loses its oldest queued event when it is kicked
  out; a reconnect replays and the shown value jumps back. Lines ingested after the
  flusher ended are lost uncounted; a POST that timed out may be stored and counted as an
  error.

## 7. Not modelled

* Authentication, PIN, sessions, secrets: access control is outside the aim of this
  project. Backup, dispatch channels, migrations, listings and the web client (but for its
  two streams): I/O or queries that keep no state others rely on.
* Text: runbook markdown, crontab syntax, templates of log lines, expressions, YAML; a
  text is what the code distinguishes about it.
* Of the collectors: the self check of the disk, `tail_metrics`, the anomaly score, top
  processes, the query feed, the active client, leases of SSH, the DPI catalogue. Of the
  logs: histogram, silence detection, new signatures. Of a fix: a failing completion
  transaction. Of the websocket: subscriptions, which nothing uses.
* THREAD and PROCESS collectors: no collector of the code base is one.

## 8. What could follow

* Abstract specifications of the approval (a token that buys one run) and of the failure
  budget (one counter per collector), with `AutoFix` and `Scheduler` shown to implement
  them; so far `AtLeastOnce` is the only one.
* Silence detection and new signatures of the logs, and subscriptions of the websocket
  once something uses them.
* The fixer container across restarts of the monitor: today the process of an exec that
  timed out is one that no later step of `AutoFix` notices, and only the files it leaves
  are followed (`RunFiles`).
