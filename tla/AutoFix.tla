------------------------------ MODULE AutoFix ------------------------------
(***************************************************************************)
(* The auto-fix orchestrator (kernel/autofix/orchestrator.py) with the two *)
(* tables it keeps (runbook_runs, runbook_run_approvals), the runbook      *)
(* registry it reads, the kill switch and the fixer-runner container.      *)
(*                                                                         *)
(* A Task is one asyncio task of the monitor: a dispatched alert, an       *)
(* operator's trigger or approve request, or a kill-switch request.  An    *)
(* action is what such a task does between two awaits at which another     *)
(* task can change what it reads.  The database survives a Crash, the      *)
(* tasks, locks and _current_run do not, and a process already started in  *)
(* the container lives on.                                                 *)
(***************************************************************************)
EXTENDS Integers, FiniteSets

CONSTANTS
    Task,           \* asyncio tasks that can be busy at the same time
    Runbook,        \* ids of registry rows
    Version,        \* content hashes a runbook folder can have
    RiskyVersions,  \* the versions whose config says dry_run_required
    Alert,          \* ids of alerts
    Matches,        \* the runbooks whose matchers match an alert
    RunId,          \* ids of runbook_runs rows; bounds the number of runs
    RateLimit,      \* rate_limit_per_hour
    RateWindow,     \* the hour
    Cooldown,       \* cooldown_seconds; 0 switches the gate off
    ExecTimeout,    \* exec_timeout_seconds
    Slack,          \* _STALE_CLAIM_SLACK_SECONDS
    MaxTime,        \* bound on the clock
    MaxCrashes,     \* bound on process restarts
    MaxEdits,       \* bound on registry changes
    MaxToggles,     \* bound on kill-switch requests
    None            \* SQL NULL / Python None

ASSUME DataAssumption ==
    /\ RiskyVersions \subseteq Version
    /\ Matches \in [Alert -> SUBSET Runbook]
    /\ None \notin Task \cup Runbook \cup Version \cup Alert \cup RunId

ASSUME TimeAssumption ==
    /\ RateLimit \in Nat /\ RateWindow \in Nat /\ Cooldown \in Nat
    /\ ExecTimeout \in Nat /\ Slack \in Nat

ASSUME BoundAssumption ==
    MaxTime \in Nat /\ MaxCrashes \in Nat /\ MaxEdits \in Nat /\ MaxToggles \in Nat

VARIABLES
    now,            \* the clock
    autofixEnabled, \* app_settings.autofix_enabled
    book,           \* the runbooks table
    runs,           \* the runbook_runs table
    approvals,      \* the runbook_run_approvals table, by the dry run's id
    autoFixed,      \* alerts with an 'auto_fixed' row in alert_outcomes
    lock,           \* _locks: the holder of each per-runbook lock
    transcriptLock, \* _transcript_lock: its holder
    currentRun,     \* _current_run
    pc,             \* where each task is
    ctx,            \* its locals
    containerUp,    \* the fixer-runner container is running
    procs,          \* runs whose claude process is alive in the container
    crashes, edits, toggles

db      == <<book, runs, approvals, autoFixed, autofixEnabled>>
memory  == <<lock, transcriptLock, currentRun>>
world   == <<containerUp, procs>>
bounds  == <<crashes, edits, toggles>>
vars    == <<now, db, memory, pc, ctx, world, bounds>>

NoTime == -1

\* RunMode
Modes == {"real", "dry_run"}

\* A registry row, or its absence (present = FALSE) once pruned.
BookRow == [present : BOOLEAN, hash : Version, enabled : BOOLEAN, auto : BOOLEAN]

\* A runbook_runs row.  mode "none": no row has this id yet.  appr is not a
\* column: it records the approval whose execute_approved call made the claim.
RunRow == [mode    : {"none"} \cup Modes,
           rb      : Runbook \cup {None},
           alert   : Alert \cup {None},
           hash    : Version \cup {None},
           started : Nat,
           ended   : Nat \cup {NoTime},
           exit    : {"null", "zero", "nonzero"},
           killed  : BOOLEAN,
           appr    : RunId \cup {None}]

NoRun == [mode |-> "none", rb |-> None, alert |-> None, hash |-> None,
          started |-> 0, ended |-> NoTime, exit |-> "null", killed |-> FALSE,
          appr |-> None]

\* A runbook_run_approvals row; runbook_id and alert_id are those of its dry run.
ApprovalRow == [status : {"none", "pending", "approved", "rejected"},
                hash   : Version \cup {None},
                real   : RunId \cup {None}]

NoApproval == [status |-> "none", hash |-> None, real |-> None]

\* The locals of a request: the runbook and the version of the record it
\* loaded, whether that record passes the allow-list gate, the alert, the mode,
\* the approval it executes, the claimed (or kill target) run, the instant read
\* from the clock, and the exec's result ("error": DockerSocketError, grant or
\* egress failure).
Ctx == [rb    : Runbook \cup {None},
        hash  : Version \cup {None},
        allow : BOOLEAN,
        alert : Alert \cup {None},
        mode  : Modes,
        appr  : RunId \cup {None},
        run   : RunId \cup {None},
        at    : Nat,
        res   : {"null", "zero", "nonzero", "error"}]

NoCtx == [rb |-> None, hash |-> None, allow |-> FALSE, alert |-> None,
          mode |-> "real", appr |-> None, run |-> None, at |-> 0, res |-> "null"]

RunPCs  == {"drift", "switch", "limits", "approve", "lock", "transcript",
            "prepare", "create", "exec", "persist", "pin", "revert"}
KillPCs == {"toggle", "snapshot", "kill", "verify", "stamp"}
PCs     == {"idle"} \cup RunPCs \cup KillPCs

Init ==
    /\ now = 0
    /\ autofixEnabled \in BOOLEAN
    /\ book \in [Runbook -> {[present |-> TRUE, hash |-> h, enabled |-> TRUE,
                              auto |-> TRUE] : h \in Version}]
    /\ runs = [i \in RunId |-> NoRun]
    /\ approvals = [i \in RunId |-> NoApproval]
    /\ autoFixed = {}
    /\ lock = [r \in Runbook |-> None]
    /\ transcriptLock = None
    /\ currentRun = None
    /\ pc = [t \in Task |-> "idle"]
    /\ ctx = [t \in Task |-> NoCtx]
    /\ containerUp = TRUE
    /\ procs = {}
    /\ crashes = 0 /\ edits = 0 /\ toggles = 0

----------------------------------------------------------------------------
(* Queries of the runs table. *)

RunsOf(r) == {i \in RunId : runs[i].rb = r}

StaleAfter == ExecTimeout + Slack

\* count_inflight: open claims that are not older than the stale threshold.
Inflight(r, since) ==
    {i \in RunsOf(r) : runs[i].ended = NoTime /\ runs[i].started >= since}

\* count_started_since: real and dry runs share the bucket.
StartedSince(r, since) == {i \in RunsOf(r) : runs[i].started >= since}

\* A run of r ended less than Cooldown ago (latest_ended_at and the comparison).
CoolingDown(r) ==
    /\ Cooldown > 0
    /\ \E i \in RunsOf(r) : runs[i].ended # NoTime /\ now - runs[i].ended < Cooldown

\* Mutant: the limit is only noticed once it is exceeded.
RateExceededLate(r, since) == Cardinality(StartedSince(r, since)) > RateLimit

RateExceeded(r, since) == Cardinality(StartedSince(r, since)) >= RateLimit

\* _in_lock_gate, with the thresholds computed from the instant `at' that the
\* task read before it waited for the lock.
InLockGate(r, at) ==
    \/ Inflight(r, at - StaleAfter) # {}
    \/ RateExceeded(r, at - RateWindow)
    \/ CoolingDown(r)

----------------------------------------------------------------------------
(* Task bookkeeping. *)

Goto(t, label) == pc' = [pc EXCEPT ![t] = label]

Finish(t) ==
    /\ pc' = [pc EXCEPT ![t] = "idle"]
    /\ ctx' = [ctx EXCEPT ![t] = NoCtx]

\* A denial before any claim: an audit row and the end of the request.
Deny(t) == Finish(t) /\ UNCHANGED <<now, db, memory, world, bounds>>

----------------------------------------------------------------------------
(* The three ways into the gates. *)

\* Load(t, ...) is the read of the runbook record that a request works from.
Load(t, r, alert, mode, needAuto) ==
    /\ ctx' = [ctx EXCEPT ![t] =
                 [rb |-> r, hash |-> book[r].hash, alert |-> alert, mode |-> mode,
                  allow |-> book[r].enabled /\ (needAuto => book[r].auto),
                  appr |-> None, run |-> None, at |-> 0, res |-> "null"]]
    /\ Goto(t, "switch")
    /\ UNCHANGED <<now, db, memory, world, bounds>>

\* handle_alert: no match, or an ambiguous one, ends the request at once; the
\* one match is loaded, and a risky record goes the dry-run way.
HandleAlert(t, al) ==
    /\ pc[t] = "idle"
    /\ LET matched == {r \in Matches[al] : book[r].present} IN
       \/ Cardinality(matched) # 1 /\ UNCHANGED vars
       \/ \E r \in Runbook :
            /\ matched = {r}
            /\ Load(t, r, al, IF book[r].hash \in RiskyVersions THEN "dry_run" ELSE "real", TRUE)

\* handle_operator_trigger: risky and real is refused, and so is a runbook
\* whose lock is held; the auto_trigger gate does not apply.
HandleOperatorTrigger(t, r, mode) ==
    /\ pc[t] = "idle"
    /\ book[r].present
    /\ mode = "dry_run" \/ book[r].hash \notin RiskyVersions
    /\ lock[r] = None
    /\ Load(t, r, None, mode, FALSE)

\* execute_approved reads the approval; one that is not pending is a denial.
ExecuteApproved(t, a) ==
    /\ pc[t] = "idle"
    /\ approvals[a].status = "pending"
    /\ ctx' = [ctx EXCEPT ![t] = [NoCtx EXCEPT !.appr = a, !.rb = runs[a].rb,
                                                !.alert = runs[a].alert]]
    /\ Goto(t, "drift")
    /\ UNCHANGED <<now, db, memory, world, bounds>>

\* The guarded UPDATE ... WHERE status = 'pending' of mark_rejected.
MarkRejected(a) ==
    approvals' = [approvals EXCEPT ![a].status =
                    IF @ = "pending" THEN "rejected" ELSE @]

\* Mutant: only a missing runbook counts as drift.
DriftedIfMissing(b, a) == ~b.present

\* The registry row b is not the version that approval a was given for.
Drifted(b, a) == ~b.present \/ b.hash # approvals[a].hash

\* ... then loads the runbook: deleted or edited since the plan, the approval
\* is rejected; otherwise the gates follow, without auto_trigger.
CheckDrift(t) ==
    /\ pc[t] = "drift"
    /\ LET b == book[ctx[t].rb] IN
       \/ /\ Drifted(b, ctx[t].appr)
          /\ MarkRejected(ctx[t].appr)
          /\ Finish(t)
          /\ UNCHANGED <<now, book, runs, autoFixed, autofixEnabled, memory, world, bounds>>
       \/ /\ ~Drifted(b, ctx[t].appr)
          /\ ctx' = [ctx EXCEPT ![t] = [@ EXCEPT !.hash = b.hash, !.allow = b.enabled]]
          /\ Goto(t, "switch")
          /\ UNCHANGED <<now, db, memory, world, bounds>>

\* The reject endpoint: what it read of the status may be stale, the UPDATE
\* decides.
Reject(a) ==
    /\ approvals[a].status # "none"
    /\ MarkRejected(a)
    /\ UNCHANGED <<now, book, runs, autoFixed, autofixEnabled, memory, pc, ctx, world, bounds>>

----------------------------------------------------------------------------
(* _check_operational_gates: the kill switch is read first, then (awaits in
   between) the run history. *)

GateSwitch(t) ==
    /\ pc[t] = "switch"
    /\ \/ ~(autofixEnabled /\ ctx[t].allow) /\ Deny(t)
       \/ /\ autofixEnabled /\ ctx[t].allow
          /\ Goto(t, "limits")
          /\ UNCHANGED <<now, db, memory, ctx, world, bounds>>

\* A request that is not executing an approval goes straight to the claim, and
\* reads the clock for its thresholds there.
GateLimits(t) ==
    /\ pc[t] = "limits"
    /\ LET r == ctx[t].rb
           denied == RateExceeded(r, now - RateWindow) \/ CoolingDown(r)
       IN \/ denied /\ Deny(t)
          \/ /\ ~denied
             /\ Goto(t, IF ctx[t].appr = None THEN "lock" ELSE "approve")
             /\ ctx' = [ctx EXCEPT ![t].at = now]
             /\ UNCHANGED <<now, db, memory, world, bounds>>

\* Mutant: the UPDATE only refuses a rejected approval.
MarkApprovedLandsTwice(a) == approvals[a].status # "rejected"

\* The guard of mark_approved_conn's UPDATE: rowcount 1.
MarkApprovedLands(a) == approvals[a].status = "pending"

\* mark_approved_conn: of two approvers one wins the guarded UPDATE, the other
\* sees rowcount 0 and is denied.
Approve(t) ==
    /\ pc[t] = "approve"
    /\ LET a == ctx[t].appr IN
       \/ ~MarkApprovedLands(a) /\ Deny(t)
       \/ /\ MarkApprovedLands(a)
          /\ approvals' = [approvals EXCEPT ![a].status = "approved"]
          /\ ctx' = [ctx EXCEPT ![t].at = now]
          /\ Goto(t, "lock")
          /\ UNCHANGED <<now, book, runs, autoFixed, autofixEnabled, memory, world, bounds>>

----------------------------------------------------------------------------
(* _claim_and_exec and _claim_and_store_dry. *)

\* Mutant: a denied claim ends execute_approved without the revert.
ClaimDeniedNoRevert(t) ==
    Finish(t) /\ UNCHANGED <<now, db, memory, world, bounds>>

\* A claim that did not happen: execute_approved goes on to revert its
\* approval, every other request is over.
ClaimDenied(t) ==
    /\ IF ctx[t].appr = None THEN Finish(t)
                             ELSE Goto(t, "revert") /\ UNCHANGED ctx
    /\ UNCHANGED <<now, db, memory, world, bounds>>

\* The row insert_started writes.
Claimed(t) ==
    [NoRun EXCEPT !.mode = ctx[t].mode,
                  !.rb = ctx[t].rb, !.alert = ctx[t].alert, !.hash = ctx[t].hash,
                  !.started = now, !.appr = ctx[t].appr]

\* The per-runbook lock is free: take it and run the claim transaction, which
\* denies, fails (claim_error; the foreign key fails it when the runbook was
\* pruned) or inserts the row.  A claim keeps the lock.
Claim(t) ==
    /\ pc[t] = "lock"
    /\ lock[ctx[t].rb] = None
    /\ \/ ClaimDenied(t)
       \/ /\ ~InLockGate(ctx[t].rb, ctx[t].at)
          /\ book[ctx[t].rb].present
          /\ \E i \in RunId :
               /\ runs[i].mode = "none"
               /\ runs' = [runs EXCEPT ![i] = Claimed(t)]
               /\ ctx' = [ctx EXCEPT ![t].run = i]
          /\ lock' = [lock EXCEPT ![ctx[t].rb] = t]
          /\ Goto(t, "transcript")
          /\ UNCHANGED <<now, book, approvals, autoFixed, autofixEnabled,
                         transcriptLock, currentRun, world, bounds>>

TakeTranscriptLock(t) ==
    /\ pc[t] = "transcript"
    /\ transcriptLock = None
    /\ transcriptLock' = t
    /\ Goto(t, "prepare")
    /\ UNCHANGED <<now, db, lock, currentRun, ctx, world, bounds>>

\* _current_run once the exec is over: only a real run's was published.
HandleAfterExec(t) == IF ctx[t].mode = "dry_run" THEN currentRun ELSE None

\* Leaving _exec_claude and the `async with' around it with result res:
\* _current_run is cleared (a real run's), both locks are released.
LeaveExec(t, res) ==
    /\ currentRun' = HandleAfterExec(t)
    /\ transcriptLock' = None
    /\ lock' = [lock EXCEPT ![ctx[t].rb] = None]
    /\ ctx' = [ctx EXCEPT ![t].res = res]
    /\ Goto(t, "persist")

\* Mutant: the early return leaves the transcript lock behind.
PrepareFailsLeaksLock(t) ==
    /\ pc[t] = "prepare"
    /\ lock' = [lock EXCEPT ![ctx[t].rb] = None]
    /\ ctx' = [ctx EXCEPT ![t].res = "error"]
    /\ Goto(t, "persist")
    /\ UNCHANGED <<now, db, transcriptLock, currentRun, world, bounds>>

\* The grants cannot be resolved, or (real runs) the egress proxy cannot be
\* configured: fail closed, before anything is published.
PrepareFails(t) ==
    /\ pc[t] = "prepare"
    /\ LeaveExec(t, "error")
    /\ UNCHANGED <<now, db, world, bounds>>

\* Mutant: dry runs are published as well.
HandlePublishedAlways(t) == ctx[t].run

\* _current_run while the exec runs: dry runs are not tracked.
HandlePublished(t) == IF ctx[t].mode = "dry_run" THEN currentRun ELSE ctx[t].run

\* Grants and egress are in place: publish _current_run (real runs only) and
\* call docker exec.
Publish(t) ==
    /\ pc[t] = "prepare"
    /\ currentRun' = HandlePublished(t)
    /\ ctx' = [ctx EXCEPT ![t].at = now]
    /\ Goto(t, "create")
    /\ UNCHANGED <<now, db, lock, transcriptLock, world, bounds>>

\* Docker starts the process of the exec.
StartProcess(t) ==
    /\ pc[t] = "create"
    /\ containerUp
    /\ procs' = procs \cup {ctx[t].run}
    /\ Goto(t, "exec")
    /\ UNCHANGED <<now, db, memory, ctx, containerUp, bounds>>

\* exec_capture returns the exit code: the process ends by itself, or it was
\* killed with the container.
ExecReturns(t) ==
    /\ pc[t] = "exec"
    /\ \/ /\ ctx[t].run \in procs
          /\ procs' = procs \ {ctx[t].run}
          /\ \E res \in {"zero", "nonzero"} : LeaveExec(t, res)
       \/ /\ ctx[t].run \notin procs
          /\ LeaveExec(t, "nonzero")
          /\ UNCHANGED procs
    /\ UNCHANGED <<now, db, containerUp, bounds>>

\* exec_capture raises: a transport or protocol error at any moment, or the
\* timeout.  The process, if there is one, is not stopped.
ExecFails(t) ==
    /\ pc[t] \in {"create", "exec"}
    /\ LeaveExec(t, "error")
    /\ UNCHANGED <<now, db, world, bounds>>

\* A process that no task waits for any more ends by itself.
OrphanExits(i) ==
    /\ i \in procs
    /\ \A t \in Task : pc[t] = "exec" => ctx[t].run # i
    /\ procs' = procs \ {i}
    /\ UNCHANGED <<now, db, memory, pc, ctx, containerUp, bounds>>

\* exit_code: 0 is told apart, an exec that raised is 1 or 124.
ExitColumn(res) == IF res = "zero" THEN "zero" ELSE "nonzero"

\* Mutant: any exec that did not raise fixes the alert.
EarnsOutcomeAnyExit(c) == c.mode = "real" /\ c.res # "error" /\ c.alert # None

\* The request writes the auto_fixed outcome of its alert.
EarnsOutcome(c) == c.mode = "real" /\ c.res = "zero" /\ c.alert # None

\* A dry run whose exec did not raise, whatever its exit code, asks for approval.
StoresPlan(c) == c.mode = "dry_run" /\ c.res # "error"

\* Where a persisted request goes: execute_approved has a run to pin.
AfterPersist(c) == IF c.appr = None THEN "idle" ELSE "pin"

\* The completion transaction: mark_completed, the auto_fixed outcome of a real
\* run that exited 0 for an alert, the pending approval of a dry run, pinned to
\* the loaded version.
Persist(t) ==
    /\ pc[t] = "persist"
    /\ LET i == ctx[t].run IN
       /\ runs' = [runs EXCEPT ![i].ended = now,
                               ![i].exit = ExitColumn(ctx[t].res)]
       /\ autoFixed' = IF EarnsOutcome(ctx[t])
                       THEN autoFixed \cup {ctx[t].alert} ELSE autoFixed
       /\ approvals' = IF StoresPlan(ctx[t])
                       THEN [approvals EXCEPT ![i] = [status |-> "pending",
                                hash |-> ctx[t].hash, real |-> None]]
                       ELSE approvals
    /\ Goto(t, AfterPersist(ctx[t]))
    /\ ctx' = [ctx EXCEPT ![t] = IF @.appr = None THEN NoCtx ELSE @]
    /\ UNCHANGED <<now, book, autofixEnabled, memory, world, bounds>>

\* set_real_run_id
PinRealRun(t) ==
    /\ pc[t] = "pin"
    /\ approvals' = [approvals EXCEPT ![ctx[t].appr].real = ctx[t].run]
    /\ Finish(t)
    /\ UNCHANGED <<now, book, runs, autoFixed, autofixEnabled, memory, world, bounds>>

\* revert_to_pending, guarded: still approved and no real run pinned.
Revert(t) ==
    /\ pc[t] = "revert"
    /\ approvals' = [approvals EXCEPT ![ctx[t].appr].status =
                       IF @ = "approved" /\ approvals[ctx[t].appr].real = None
                       THEN "pending" ELSE @]
    /\ Finish(t)
    /\ UNCHANGED <<now, book, runs, autoFixed, autofixEnabled, memory, world, bounds>>

----------------------------------------------------------------------------
(* toggle_kill_switch and kill_inflight. *)

\* The request reads the flag; the same state as asked for is a no-op.
ToggleOff(t) ==
    /\ pc[t] = "idle" /\ toggles < MaxToggles
    /\ autofixEnabled
    /\ toggles' = toggles + 1
    /\ Goto(t, "toggle")
    /\ UNCHANGED <<now, db, memory, ctx, world, crashes, edits>>

\* off -> on has nothing to do after the flag is written.
ToggleOn ==
    /\ toggles < MaxToggles
    /\ ~autofixEnabled
    /\ toggles' = toggles + 1
    /\ autofixEnabled' = TRUE
    /\ UNCHANGED <<now, book, runs, approvals, autoFixed, memory, pc, ctx, world, crashes, edits>>

\* The credential was verified in between: the flag is written and audited.
WriteFlagOff(t) ==
    /\ pc[t] = "toggle"
    /\ autofixEnabled' = FALSE
    /\ Goto(t, "snapshot")
    /\ UNCHANGED <<now, book, runs, approvals, autoFixed, memory, ctx, world, bounds>>

\* kill_inflight: no run in flight ends it (kill_no_inflight).
KillSnapshot(t) ==
    /\ pc[t] = "snapshot"
    /\ \/ currentRun = None /\ Deny(t)
       \/ /\ currentRun # None
          /\ ctx' = [ctx EXCEPT ![t].run = currentRun]
          /\ Goto(t, "kill")
          /\ UNCHANGED <<now, db, memory, world, bounds>>

\* SIGKILL to the container ends every process in it; a docker error is audited
\* and raised (502).  A container that is down already counts as killed.
KillContainer(t) ==
    /\ pc[t] = "kill"
    /\ \/ Deny(t)
       \/ /\ containerUp' = FALSE
          /\ procs' = {}
          /\ Goto(t, "verify")
          /\ UNCHANGED <<now, db, memory, ctx, bounds>>

\* Another run published meanwhile is the wrong-run race; the same run, or
\* none, goes on to the stamp.
KillVerify(t) ==
    /\ pc[t] = "verify"
    /\ \/ currentRun \notin {None, ctx[t].run} /\ Deny(t)
       \/ /\ currentRun \in {None, ctx[t].run}
          /\ Goto(t, "stamp")
          /\ UNCHANGED <<now, db, memory, ctx, world, bounds>>

\* mark_killed; the wait for _current_run to clear only decides a warning.
KillStamp(t) ==
    /\ pc[t] = "stamp"
    /\ runs' = [runs EXCEPT ![ctx[t].run].killed = TRUE]
    /\ Finish(t)
    /\ UNCHANGED <<now, book, approvals, autoFixed, autofixEnabled, memory, world, bounds>>

----------------------------------------------------------------------------
(* The environment: registry changes, time, the container, a crash. *)

Edit(r, row) ==
    /\ edits < MaxEdits
    /\ edits' = edits + 1
    /\ book' = [book EXCEPT ![r] = row]
    /\ UNCHANGED <<now, runs, approvals, autoFixed, autofixEnabled, memory, pc, ctx,
                   world, crashes, toggles>>

\* A rescan finds the folder changed (reconcile, _update_cached).
Refresh(r) ==
    \E h \in Version \ {book[r].hash} :
        book[r].present /\ Edit(r, [book[r] EXCEPT !.hash = h])

\* The operator switches a gate (patch_gates).
PatchGates(r) ==
    /\ book[r].present
    /\ \/ Edit(r, [book[r] EXCEPT !.enabled = ~@])
       \/ Edit(r, [book[r] EXCEPT !.auto = ~@])

\* The count of runs before the DELETE, and the foreign key after it, let only a
\* runbook without runs be deleted.
Prunable(r) == book[r].present /\ RunsOf(r) = {}

\* The folder is gone: the row is deleted.
Prune(r) ==
    /\ Prunable(r)
    /\ Edit(r, [book[r] EXCEPT !.present = FALSE])

\* Docker's restart policy (unless-stopped) or an operator brings it back.
ContainerStarts ==
    /\ ~containerUp
    /\ containerUp' = TRUE
    /\ UNCHANGED <<now, db, memory, pc, ctx, procs, bounds>>

\* Time passes, but an exec does not outlive its timeout.
Tick ==
    /\ now < MaxTime
    /\ \A t \in Task : pc[t] \in {"create", "exec"} => now - ctx[t].at < ExecTimeout
    /\ now' = now + 1
    /\ UNCHANGED <<db, memory, pc, ctx, world, bounds>>

\* The monitor process dies and starts again.
Crash ==
    /\ crashes < MaxCrashes
    /\ crashes' = crashes + 1
    /\ pc' = [t \in Task |-> "idle"]
    /\ ctx' = [t \in Task |-> NoCtx]
    /\ lock' = [r \in Runbook |-> None]
    /\ transcriptLock' = None
    /\ currentRun' = None
    /\ UNCHANGED <<now, db, world, edits, toggles>>

----------------------------------------------------------------------------
(* The specification. *)

Request(t) ==
    \/ \E al \in Alert : HandleAlert(t, al)
    \/ \E r \in Runbook, mode \in Modes : HandleOperatorTrigger(t, r, mode)
    \/ \E a \in RunId : ExecuteApproved(t, a)
    \/ ToggleOff(t)

Step(t) ==
    \/ CheckDrift(t) \/ GateSwitch(t) \/ GateLimits(t) \/ Approve(t) \/ Claim(t)
    \/ TakeTranscriptLock(t) \/ PrepareFails(t) \/ Publish(t)
    \/ StartProcess(t) \/ ExecReturns(t) \/ ExecFails(t)
    \/ Persist(t) \/ PinRealRun(t) \/ Revert(t)
    \/ WriteFlagOff(t) \/ KillSnapshot(t) \/ KillContainer(t) \/ KillVerify(t) \/ KillStamp(t)

Environment ==
    \/ \E a \in RunId : Reject(a)
    \/ ToggleOn
    \/ \E r \in Runbook : Refresh(r) \/ PatchGates(r) \/ Prune(r)
    \/ \E i \in RunId : OrphanExits(i)
    \/ ContainerStarts \/ Tick \/ Crash

Next ==
    \/ \E t \in Task : Request(t) \/ Step(t)
    \/ Environment

Spec == Init /\ [][Next]_vars

\* The event loop runs every ready task and a docker exec call ends by its
\* timeout, hence weak fairness of a busy task's step; asyncio.Lock is FIFO, so
\* a waiter gets a lock that is released again and again, hence strong fairness
\* of the two acquisitions.  Requests, crashes, edits and the clock promise
\* nothing.
Fairness == \A t \in Task :
    WF_vars(Step(t)) /\ SF_vars(Claim(t)) /\ SF_vars(TakeTranscriptLock(t))

FairSpec == Spec /\ Fairness

----------------------------------------------------------------------------
(* Properties. *)

\* Every variable stays in its type: rows, locals, locks and labels.
TypeOK ==
    /\ now \in Nat
    /\ autofixEnabled \in BOOLEAN
    /\ book \in [Runbook -> BookRow]
    /\ runs \in [RunId -> RunRow]
    /\ approvals \in [RunId -> ApprovalRow]
    /\ autoFixed \subseteq Alert
    /\ lock \in [Runbook -> Task \cup {None}]
    /\ transcriptLock \in Task \cup {None}
    /\ currentRun \in RunId \cup {None}
    /\ pc \in [Task -> PCs]
    /\ ctx \in [Task -> Ctx]
    /\ containerUp \in BOOLEAN
    /\ procs \subseteq RunId
    /\ crashes \in Nat /\ edits \in Nat /\ toggles \in Nat

\* One approval buys at most one real run: whatever approvers race, claims are
\* denied and reverted, or the process crashes in execute_approved, no two
\* claims are made under the same approval.
OneRunPerApproval ==
    \A i, j \in RunId :
        runs[i].appr # None /\ runs[i].appr = runs[j].appr => i = j

\* The approval of a claimed run stays approved and is never pinned to another
\* run: revert_to_pending cannot reopen an approval that has been spent.
SpentApprovalStaysApproved ==
    \A i \in RunId : runs[i].appr # None =>
        /\ approvals[runs[i].appr].status = "approved"
        /\ approvals[runs[i].appr].real \in {None, i}

\* Non-negotiable #5: a real run of a version that requires a dry run was
\* claimed under an approval of a completed dry run of the same runbook, the
\* same version and the same alert, however the registry is edited meanwhile.
RiskyRunsAreApproved ==
    \A i \in RunId : runs[i].mode = "real" /\ runs[i].hash \in RiskyVersions =>
        LET a == runs[i].appr IN
        /\ a # None
        /\ approvals[a].hash = runs[i].hash
        /\ runs[a].mode = "dry_run" /\ runs[a].ended # NoTime
        /\ runs[a].rb = runs[i].rb /\ runs[a].alert = runs[i].alert

\* _current_run names the real, unfinished run of the one task inside
\* docker exec, which holds both locks: what kill_inflight aims at is running.
CurrentRunIsExecuting ==
    currentRun # None =>
        \E t \in Task :
            /\ pc[t] \in {"create", "exec"} /\ ctx[t].run = currentRun
            /\ transcriptLock = t /\ lock[ctx[t].rb] = t
            /\ runs[currentRun].mode = "real" /\ runs[currentRun].ended = NoTime

\* Dry runs are not killable: no kill-switch race stamps killed_at on one.
OnlyRealRunsAreKilled ==
    \A i \in RunId : runs[i].killed => runs[i].mode = "real"

\* An alert is marked auto_fixed only by a completed real run for it that
\* exited 0, and, for a risky version, one that was approved.
AutoFixedIsEarned ==
    \A al \in autoFixed : \E i \in RunId :
        /\ runs[i].alert = al /\ runs[i].mode = "real" /\ runs[i].exit = "zero"
        /\ runs[i].hash \in RiskyVersions => runs[i].appr # None

\* In no window of RateWindow does a runbook start more than RateLimit runs, and
\* none starts within Cooldown of a recorded end of the same runbook, although the
\* thresholds of the gates are older than the claim that uses them.
RateLimitHolds ==
    \A r \in Runbook : \A from \in 0..now :
        Cardinality({i \in RunsOf(r) : /\ from <= runs[i].started
                                       /\ runs[i].started <= from + RateWindow})
            <= RateLimit

CooldownHolds ==
    \A i, j \in RunId :
        /\ runs[i].rb # None /\ runs[i].rb = runs[j].rb
        /\ runs[i].ended # NoTime /\ runs[j].started > runs[i].ended
        => runs[j].started - runs[i].ended >= Cooldown

LimitsHold == RateLimitHolds /\ CooldownHolds

\* Every request ends: nobody waits forever for a lock or for the container.
RequestsEnd == \A t \in Task : pc[t] # "idle" ~> pc[t] = "idle"

\* An approval is not stuck in 'approved' without a run (no crash assumed):
\* its run gets pinned or it is pending again.
ApprovalsSettle ==
    \A a \in RunId :
        approvals[a].status = "approved" /\ approvals[a].real = None
            ~> approvals[a].status # "approved" \/ approvals[a].real # None

(* A statement of the documentation that the code does not keep. *)

\* STAGE-009-007.md:9: turning the switch off denies all new runs and kills any in flight.
\* No real run goes on to docker exec once the switch is off and the request that turned
\* it off, its kill_inflight included, is over.
NoExecStartsWhileOff ==
    [][\A t \in Task : pc[t] = "prepare" /\ pc'[t] = "create" /\ ctx[t].mode = "real"
                            => autofixEnabled \/ \E k \in Task : pc[k] \in KillPCs]_vars
=============================================================================
