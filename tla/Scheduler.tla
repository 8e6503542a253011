----------------------------- MODULE Scheduler -----------------------------
(***************************************************************************)
(* The collector scheduler (kernel/scheduler/scheduler.py) with its        *)
(* failure budget (failure_budget.py), the collectors table, the           *)
(* quarantine alerts and the operator's retry request.                     *)
(*                                                                         *)
(* A Tick is one tick task, from the immediate-run queue or the clock to   *)
(* its end; an Operator is one POST /collectors/{name}/retry.  An action   *)
(* is what a task does between two awaits.  The budget's counters live in  *)
(* memory and in the collectors table; a restart reads the table back.     *)
(***************************************************************************)
EXTENDS Integers, FiniteSets

CONSTANTS
    Collector,   \* names of collectors
    Group,       \* concurrency group of a collector
    Threshold,   \* quarantine_after of a collector
    Reason,      \* failure kinds: timeout, exception, result_error
    Tick,        \* tick tasks that can exist at the same time
    Operator,    \* retry requests that can be under way at the same time
    MaxFailures, \* bound on failing runs
    MaxFaults,   \* bound on database transactions that raise
    MaxCrashes,  \* bound on restarts
    MaxCli,      \* bound on uses of the CLI
    None

ASSUME ConstantsAssumption ==
    /\ Threshold \in [Collector -> Nat \ {0}]
    /\ None \notin Tick \cup Collector \cup Reason
    /\ MaxFailures \in Nat /\ MaxFaults \in Nat /\ MaxCrashes \in Nat /\ MaxCli \in Nat

VARIABLES
    count,       \* _consecutive_failures
    quarantined, \* _quarantined: the reason, or None
    dbCount,     \* collectors.consecutive_failures
    dbReason,    \* collectors.quarantine_reason, None when quarantined_at is NULL
    rows,        \* number of alert rows ever inserted for a fingerprint
    firing,      \* fingerprints whose newest row is firing
    groupLock,   \* _group_locks: the tick that holds the group's lock
    tick,        \* tick tasks and their locals
    awaited,     \* _pending_awaitables: ticks some caller waits for
    op,          \* retry requests and their locals
    stopping,    \* _stopping
    streak,      \* failures recorded since the last success or clear
    earned,      \* failures recorded since the last clear
    failures, faults, crashes, cli

budget == <<count, quarantined>>
db     == <<dbCount, dbReason, rows, firing>>
ghost  == <<streak, earned>>
bounds == <<failures, faults, crashes, cli>>
vars   == <<budget, db, groupLock, tick, awaited, op, stopping, ghost, bounds>>

\* quarantine_fingerprint(name, reason)
Fingerprint == Collector \X Reason

\* A tick task: queued for an immediate run, at the quarantine gate, waiting for
\* the group lock, inside the collector, and then, after a failure, before and
\* after the commit of record_failure, and at the lookup and the write of the
\* quarantine alert.  new is the count it computed, row the alert row it found.
TickPCs == {"idle", "queued", "gate", "lock", "run", "fail", "failed", "find", "emit"}
TickRow == [pc : TickPCs, col : Collector \cup {None}, reason : Reason \cup {None},
            new : Nat, row : Nat]

NoTick == [pc |-> "idle", col |-> None, reason |-> None, new |-> 0, row |-> 0]

\* A retry: looking up the alert, resolving it, at the budget's check, before and
\* after the commit of clear_quarantine, and enqueueing the immediate run.
OpPCs == {"idle", "find", "resolve", "check", "commit", "delete", "enqueue"}
OpRow == [pc : OpPCs, col : Collector \cup {None}, reason : Reason \cup {None}, row : Nat]

NoOp == [pc |-> "idle", col |-> None, reason |-> None, row |-> 0]

Init ==
    /\ count = [c \in Collector |-> 0]
    /\ quarantined = [c \in Collector |-> None]
    /\ dbCount = [c \in Collector |-> 0]
    /\ dbReason = [c \in Collector |-> None]
    /\ rows = [f \in Fingerprint |-> 0]
    /\ firing = {}
    /\ groupLock = [g \in {Group[c] : c \in Collector} |-> None]
    /\ tick = [k \in Tick |-> NoTick]
    /\ awaited = {}
    /\ op = [o \in Operator |-> NoOp]
    /\ stopping = FALSE
    /\ streak = [c \in Collector |-> 0]
    /\ earned = [c \in Collector |-> 0]
    /\ failures = 0 /\ faults = 0 /\ crashes = 0 /\ cli = 0

----------------------------------------------------------------------------
(* The tick loops: _run_collector, request_immediate_run, await_immediate_run. *)

Enqueue(k, c) == tick' = [tick EXCEPT ![k] = [NoTick EXCEPT !.pc = "queued", !.col = c]]

Free(k) == tick[k].pc = "idle" /\ k \notin awaited

\* A caller asks for an immediate run, and may wait for its result.
RequestRun(k, c) ==
    /\ Free(k) /\ ~stopping
    /\ Enqueue(k, c)
    /\ awaited' \in {awaited, awaited \cup {k}}
    /\ UNCHANGED <<budget, db, groupLock, op, stopping, ghost, bounds>>

\* The loop drains the immediate-run queue ...
StartImmediate(k) ==
    /\ tick[k].pc = "queued" /\ ~stopping
    /\ tick' = [tick EXCEPT ![k].pc = "gate"]
    /\ UNCHANGED <<budget, db, groupLock, awaited, op, stopping, ghost, bounds>>

\* ... before it considers the scheduled tick.  A tick is not awaited by the
\* loop, so several ticks of one collector can be under way.
StartScheduled(k, c) ==
    /\ Free(k) /\ ~stopping
    /\ \A j \in Tick : tick[j].pc = "queued" => tick[j].col # c
    /\ tick' = [tick EXCEPT ![k] = [NoTick EXCEPT !.pc = "gate", !.col = c]]
    /\ UNCHANGED <<budget, db, groupLock, awaited, op, stopping, ghost, bounds>>

\* wait_for in await_immediate_run gives up.
AwaitTimeout(k) ==
    /\ k \in awaited
    /\ awaited' = awaited \ {k}
    /\ UNCHANGED <<budget, db, groupLock, tick, op, stopping, ghost, bounds>>

----------------------------------------------------------------------------
(* _tick *)

LockOf(k) == Group[tick[k].col]

Release(k) ==
    groupLock' = [groupLock EXCEPT ![LockOf(k)] = IF @ = k THEN None ELSE @]

\* The end of the task; _signal_awaitable_done wakes the caller that waits for
\* it, which an exception or a cancellation leaves out.
EndTick(k) == tick' = [tick EXCEPT ![k] = NoTick] /\ Release(k)
Signal(k)  == awaited' = awaited \ {k}

Gate(k) ==
    /\ tick[k].pc = "gate"
    /\ \/ /\ quarantined[tick[k].col] # None
          /\ EndTick(k) /\ Signal(k)
       \/ /\ quarantined[tick[k].col] = None
          /\ tick' = [tick EXCEPT ![k].pc = "lock"]
          /\ UNCHANGED <<groupLock, awaited>>
    /\ UNCHANGED <<budget, db, op, stopping, ghost, bounds>>

AcquireLock(k) ==
    /\ tick[k].pc = "lock"
    /\ groupLock[LockOf(k)] = None
    /\ groupLock' = [groupLock EXCEPT ![LockOf(k)] = k]
    /\ tick' = [tick EXCEPT ![k].pc = "run"]
    /\ UNCHANGED <<budget, db, awaited, op, stopping, ghost, bounds>>

\* Mutant: the wait for the lock has no timeout.
LockTimeoutNever(k) == tick[k].pc = "lock" /\ FALSE /\ UNCHANGED vars

\* Half an interval has passed: skipped, group_busy.
LockTimeout(k) ==
    /\ tick[k].pc = "lock"
    /\ groupLock[LockOf(k)] # None
    /\ EndTick(k) /\ Signal(k)
    /\ UNCHANGED <<budget, db, op, stopping, ghost, bounds>>

\* Mutant: a success resets the counter of a quarantined collector too.
CountAfterSuccessAlways(c) == 0

\* record_success leaves a quarantined collector alone.
CountAfterSuccess(c) == IF quarantined[c] # None THEN count[c] ELSE 0

RunSucceeds(k) ==
    LET c == tick[k].col IN
    /\ tick[k].pc = "run"
    /\ count' = [count EXCEPT ![c] = CountAfterSuccess(c)]
    /\ streak' = [streak EXCEPT ![c] = IF quarantined[c] # None THEN @ ELSE 0]
    /\ EndTick(k) /\ Signal(k)
    /\ UNCHANGED <<quarantined, db, op, stopping, earned, bounds>>

\* A timeout, an exception or a result that is not ok; record_failure ignores a
\* collector that is quarantined already.
RunFails(k, r) ==
    LET c == tick[k].col IN
    /\ tick[k].pc = "run"
    /\ failures < MaxFailures
    /\ failures' = failures + 1
    /\ \/ /\ quarantined[c] # None
          /\ EndTick(k) /\ Signal(k)
       \/ /\ quarantined[c] = None
          /\ tick' = [tick EXCEPT ![k] = [@ EXCEPT !.pc = "fail", !.reason = r,
                                                    !.new = count[c] + 1]]
          /\ UNCHANGED <<groupLock, awaited>>
    /\ UNCHANGED <<budget, db, op, stopping, ghost, faults, crashes, cli>>

\* Mutant: the threshold is noticed one failure late.
MeetsThresholdLate(c, n) == n > Threshold[c]

MeetsThreshold(c, n) == n >= Threshold[c]

\* Mutant: below the threshold only the memory counts.
PersistedCountAtThreshold(c, n) == IF MeetsThreshold(c, n) THEN n ELSE dbCount[c]

\* What the UPDATE of record_failure stores.
PersistedCount(c, n) == n

\* The transaction of record_failure commits.
CommitFailure(k) ==
    LET c == tick[k].col IN
    /\ tick[k].pc = "fail"
    /\ dbCount' = [dbCount EXCEPT ![c] = PersistedCount(c, tick[k].new)]
    /\ dbReason' = IF MeetsThreshold(c, tick[k].new)
                   THEN [dbReason EXCEPT ![c] = tick[k].reason] ELSE dbReason
    /\ streak' = [streak EXCEPT ![c] = @ + 1]
    /\ earned' = [earned EXCEPT ![c] = @ + 1]
    /\ tick' = [tick EXCEPT ![k].pc = "failed"]
    /\ UNCHANGED <<budget, rows, firing, groupLock, awaited, op, stopping, bounds>>

\* ... and only then the memory follows.  Below the threshold the tick is over.
RecordFailure(k) ==
    LET c == tick[k].col IN
    /\ tick[k].pc = "failed"
    /\ count' = [count EXCEPT ![c] = tick[k].new]
    /\ \/ /\ ~MeetsThreshold(c, tick[k].new)
          /\ EndTick(k) /\ Signal(k)
          /\ UNCHANGED quarantined
       \/ /\ MeetsThreshold(c, tick[k].new)
          /\ quarantined' = [quarantined EXCEPT ![c] = tick[k].reason]
          /\ tick' = [tick EXCEPT ![k].pc = "find"]
          /\ UNCHANGED <<groupLock, awaited>>
    /\ UNCHANGED <<db, op, stopping, ghost, bounds>>

\* Mutant: a resolved row of the fingerprint is found too.
ActiveRowAnyStatus(f) == rows[f]

\* find_active_by_fingerprint: the newest row, if it is firing; 0 for none.
ActiveRow(f) == IF f \in firing THEN rows[f] ELSE 0

\* _emit_quarantine_alert looks for an active row ...
FindActive(k) ==
    LET f == <<tick[k].col, tick[k].reason>> IN
    /\ tick[k].pc = "find"
    /\ tick' = [tick EXCEPT ![k] = [@ EXCEPT !.pc = "emit",
                                     !.row = ActiveRow(f)]]
    /\ UNCHANGED <<budget, db, groupLock, awaited, op, stopping, ghost, bounds>>

\* ... and bumps last_seen_at of the row it found, whatever has become of it, or
\* inserts a firing row; the unique index turns a second one into a bump.
EmitAlert(k) ==
    LET f == <<tick[k].col, tick[k].reason>> IN
    /\ tick[k].pc = "emit"
    /\ \/ /\ tick[k].row # 0 \/ f \in firing
          /\ UNCHANGED <<rows, firing>>
       \/ /\ tick[k].row = 0 /\ f \notin firing
          /\ rows' = [rows EXCEPT ![f] = @ + 1]
          /\ firing' = firing \cup {f}
    /\ EndTick(k) /\ Signal(k)
    /\ UNCHANGED <<budget, dbCount, dbReason, op, stopping, ghost, bounds>>

\* A transaction of the failure path raises: the task ends with the exception.
TickFault(k) ==
    /\ tick[k].pc \in {"fail", "find", "emit"}
    /\ faults < MaxFaults
    /\ faults' = faults + 1
    /\ EndTick(k)
    /\ UNCHANGED <<budget, db, awaited, op, stopping, ghost, failures, crashes, cli>>

----------------------------------------------------------------------------
(* stop() *)

\* Shutdown, once the requests under way are answered: the loops are cancelled,
\* and what is still in a queue is never started.
Stop ==
    /\ ~stopping
    /\ \A o \in Operator : op[o].pc = "idle"
    /\ stopping' = TRUE
    /\ tick' = [k \in Tick |-> IF tick[k].pc = "queued" THEN NoTick ELSE tick[k]]
    /\ UNCHANGED <<budget, db, groupLock, awaited, op, ghost, bounds>>

\* Then all ticks are cancelled: one inside the collector catches that, counts
\* as shutdown and is signalled; anywhere else the task unwinds.
CancelTicks ==
    /\ stopping
    /\ tick' = [k \in Tick |-> NoTick]
    /\ groupLock' = [g \in DOMAIN groupLock |-> None]
    /\ awaited' = {k \in awaited : tick[k].pc # "run"}
    /\ UNCHANGED <<budget, db, op, stopping, ghost, bounds>>

----------------------------------------------------------------------------
(* retry_collector: Scheduler.clear_quarantine, then an immediate run. *)

\* Without a quarantine there is nothing to clear and no await before the run is
\* requested.
Retry(o, c) ==
    /\ op[o].pc = "idle" /\ ~stopping
    /\ op' = [op EXCEPT ![o] = [pc |-> IF quarantined[c] = None THEN "enqueue" ELSE "find",
                                col |-> c, reason |-> quarantined[c], row |-> 0]]
    /\ UNCHANGED <<budget, db, groupLock, tick, awaited, stopping, ghost, bounds>>

RetryFind(o) ==
    LET f == <<op[o].col, op[o].reason>> IN
    /\ op[o].pc = "find"
    /\ op' = [op EXCEPT ![o] = [@ EXCEPT !.pc = IF ActiveRow(f) # 0 THEN "resolve" ELSE "check",
                                          !.row = ActiveRow(f)]]
    /\ UNCHANGED <<budget, db, groupLock, tick, awaited, stopping, ghost, bounds>>

\* mark_resolved updates the row it was given, if it is firing still.
RetryResolve(o) ==
    LET f == <<op[o].col, op[o].reason>> IN
    /\ op[o].pc = "resolve"
    /\ firing' = IF ActiveRow(f) = op[o].row THEN firing \ {f} ELSE firing
    /\ op' = [op EXCEPT ![o].pc = "check"]
    /\ UNCHANGED <<budget, dbCount, dbReason, rows, groupLock, tick, awaited, stopping,
                   ghost, bounds>>

\* FailureBudget.clear_quarantine: not quarantined is a no-op.
RetryCheck(o) ==
    /\ op[o].pc = "check"
    /\ op' = [op EXCEPT ![o].pc = IF quarantined[op[o].col] = None THEN "enqueue" ELSE "commit"]
    /\ UNCHANGED <<budget, db, groupLock, tick, awaited, stopping, ghost, bounds>>

\* Its transaction: the row is cleared, or the database raises and the quarantine stays.
RetryCommit(o) ==
    LET c == op[o].col IN
    /\ op[o].pc = "commit"
    /\ \/ /\ dbCount' = [dbCount EXCEPT ![c] = 0]
          /\ dbReason' = [dbReason EXCEPT ![c] = None]
          /\ streak' = [streak EXCEPT ![c] = 0]
          /\ op' = [op EXCEPT ![o].pc = "delete"]
          /\ UNCHANGED <<earned, faults>>
       \/ /\ faults < MaxFaults
          /\ faults' = faults + 1
          /\ op' = [op EXCEPT ![o] = NoOp]
          /\ UNCHANGED <<dbCount, dbReason, ghost>>
    /\ UNCHANGED <<budget, rows, firing, groupLock, tick, awaited, stopping, failures,
                   crashes, cli>>

\* `del' raises KeyError when somebody else deleted the entry meanwhile.
RetryDelete(o) ==
    LET c == op[o].col IN
    /\ op[o].pc = "delete"
    /\ \/ /\ quarantined[c] = None
          /\ op' = [op EXCEPT ![o] = NoOp]
          /\ UNCHANGED <<budget, ghost>>
       \/ /\ quarantined[c] # None
          /\ quarantined' = [quarantined EXCEPT ![c] = None]
          /\ count' = [count EXCEPT ![c] = 0]
          /\ streak' = [streak EXCEPT ![c] = 0]
          /\ earned' = [earned EXCEPT ![c] = 0]
          /\ op' = [op EXCEPT ![o].pc = "enqueue"]
    /\ UNCHANGED <<db, groupLock, tick, awaited, stopping, bounds>>

RetryEnqueue(o, k) ==
    /\ op[o].pc = "enqueue"
    /\ Free(k)
    /\ Enqueue(k, op[o].col)
    /\ op' = [op EXCEPT ![o] = NoOp]
    /\ UNCHANGED <<budget, db, groupLock, awaited, stopping, ghost, bounds>>

----------------------------------------------------------------------------
(* The CLI, and a restart. *)

\* hm collector unquarantine runs in a process of its own: it reads the table and
\* clears the row, and the monitor's memory does not hear of it.
CliUnquarantine(c) ==
    /\ cli < MaxCli
    /\ cli' = cli + 1
    /\ dbReason[c] # None
    /\ dbCount' = [dbCount EXCEPT ![c] = 0]
    /\ dbReason' = [dbReason EXCEPT ![c] = None]
    /\ streak' = [streak EXCEPT ![c] = 0]
    /\ UNCHANGED <<budget, rows, firing, groupLock, tick, awaited, op, stopping, earned,
                   failures, faults, crashes>>

\* Mutant: the counters start from zero.
LoadedCountFresh(c) == 0

\* load_state
LoadedCount(c) == dbCount[c]

\* The process ends anywhere and starts again: load_state reads the table, then
\* clear_all_quarantine clears what is quarantined there, alerts untouched.
Restart ==
    /\ crashes < MaxCrashes
    /\ crashes' = crashes + 1
    /\ count' = [c \in Collector |-> IF dbReason[c] # None THEN 0 ELSE LoadedCount(c)]
    /\ quarantined' = [c \in Collector |-> None]
    /\ dbCount' = [c \in Collector |-> IF dbReason[c] # None THEN 0 ELSE dbCount[c]]
    /\ dbReason' = [c \in Collector |-> None]
    /\ streak' = [c \in Collector |-> IF dbReason[c] # None THEN 0 ELSE streak[c]]
    /\ earned' = [c \in Collector |-> IF dbReason[c] # None THEN 0 ELSE earned[c]]
    /\ groupLock' = [g \in DOMAIN groupLock |-> None]
    /\ tick' = [k \in Tick |-> NoTick]
    /\ awaited' = {}
    /\ op' = [o \in Operator |-> NoOp]
    /\ stopping' = FALSE
    /\ UNCHANGED <<rows, firing, failures, faults, cli>>

----------------------------------------------------------------------------
(* The specification. *)

TickStep(k) ==
    \/ StartImmediate(k) \/ Gate(k) \/ AcquireLock(k) \/ LockTimeout(k)
    \/ RunSucceeds(k) \/ \E r \in Reason : RunFails(k, r)
    \/ CommitFailure(k) \/ RecordFailure(k) \/ FindActive(k) \/ EmitAlert(k)
    \/ TickFault(k)

OpStep(o) ==
    \/ RetryFind(o) \/ RetryResolve(o) \/ RetryCheck(o) \/ RetryCommit(o) \/ RetryDelete(o)
    \/ \E k \in Tick : RetryEnqueue(o, k)

Next ==
    \/ \E k \in Tick : \/ TickStep(k) \/ AwaitTimeout(k)
                       \/ \E c \in Collector : RequestRun(k, c) \/ StartScheduled(k, c)
    \/ \E o \in Operator : OpStep(o) \/ \E c \in Collector : Retry(o, c)
    \/ \E c \in Collector : CliUnquarantine(c)
    \/ Stop \/ CancelTicks \/ Restart

Spec == Init /\ [][Next]_vars

\* The event loop runs every ready task, a collector's run ends by its timeout
\* and the wait for a group lock by half an interval.
Fairness ==
    /\ \A k \in Tick : WF_vars(TickStep(k)) /\ WF_vars(AwaitTimeout(k))
    /\ WF_vars(CancelTicks)

FairSpec == Spec /\ Fairness

----------------------------------------------------------------------------
(* Properties. *)

\* Every variable stays in its type.
TypeOK ==
    /\ count \in [Collector -> Nat]
    /\ quarantined \in [Collector -> Reason \cup {None}]
    /\ dbCount \in [Collector -> Nat]
    /\ dbReason \in [Collector -> Reason \cup {None}]
    /\ rows \in [Fingerprint -> Nat]
    /\ firing \subseteq Fingerprint
    /\ groupLock \in [{Group[c] : c \in Collector} -> Tick \cup {None}]
    /\ tick \in [Tick -> TickRow]
    /\ awaited \subseteq Tick
    /\ op \in [Operator -> OpRow]
    /\ stopping \in BOOLEAN
    /\ streak \in [Collector -> Nat] /\ earned \in [Collector -> Nat]
    /\ failures \in Nat /\ faults \in Nat /\ crashes \in Nat /\ cli \in Nat

\* A tick has committed a failure that the memory does not show yet, or was
\* cancelled there by stop(), after which nothing runs any more.
Unrecorded(c) == stopping \/ \E k \in Tick : tick[k].pc = "failed" /\ tick[k].col = c

\* No failure is forgotten: whatever ticks overlap, retries race or restarts cut
\* in, the counters, in the table and in memory, are never behind the number of
\* consecutive failures that were recorded.
NoFailureForgotten ==
    \A c \in Collector :
        /\ streak[c] <= dbCount[c]
        /\ ~Unrecorded(c) => streak[c] <= count[c]

\* A chronic failure is stopped: a collector with Threshold recorded consecutive
\* failures is quarantined (record_failure and the gate agree on the limit).
ChronicFailureIsQuarantined ==
    \A c \in Collector :
        ~Unrecorded(c) /\ streak[c] >= Threshold[c] => quarantined[c] # None

\* A quarantine is earned: since the last clear at least Threshold failures of
\* the collector were recorded, and its counter shows them even when a run that
\* began before the quarantine succeeds after it.
QuarantineIsEarned ==
    \A c \in Collector : quarantined[c] # None =>
        earned[c] >= Threshold[c] /\ count[c] >= Threshold[c]

\* The group lock is held by the one tick of the group that is past it, so the
\* read and the write of a counter in record_failure are never interleaved.
GroupsAreSerialized ==
    \A k \in Tick : tick[k].pc \in {"run", "fail", "failed", "find", "emit"} =>
        groupLock[LockOf(k)] = k

\* A quarantine is announced: unless its alert is just being emitted, a retry is
\* clearing it or a transaction raised, a quarantined collector has a firing
\* alert with its reason, whatever two retries and earlier alerts did.
QuarantineIsAnnounced ==
    \A c \in Collector : quarantined[c] # None =>
        \/ stopping \/ faults > 0
        \/ <<c, quarantined[c]>> \in firing
        \/ \E k \in Tick : tick[k].pc \in {"find", "emit"} /\ tick[k].col = c
        \/ \E o \in Operator : op[o].pc \in {"check", "commit", "delete"} /\ op[o].col = c

\* Every tick ends, and what was requested is run or dropped by stop().
TicksEnd == \A k \in Tick : tick[k].pc # "idle" ~> tick[k].pc = "idle"

(* A statement of the documentation that the code does not keep. *)

\* The docstring of Scheduler.clear_quarantine: a clear resolves any active
\* quarantine alert, so once everything has come to rest no alert fires for a
\* collector that is not quarantined.
AlertsEndWithQuarantine ==
    (\A k \in Tick : tick[k].pc = "idle") /\ (\A o \in Operator : op[o].pc = "idle")
        => \A f \in firing : quarantined[f[1]] # None
=============================================================================
