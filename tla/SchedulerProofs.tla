-------------------------- MODULE SchedulerProofs --------------------------
(***************************************************************************)
(* Proofs about Scheduler, for every set of collectors, ticks, operators   *)
(* and every threshold.                                                    *)
(*                                                                         *)
(* The counters are not protected by a lock of their own: the argument is  *)
(* that between the read of a counter in record_failure and the write      *)
(* after its commit the group lock keeps other ticks of the collector out  *)
(* (GroupsAreSerialized), and that a retry can only delete what such a     *)
(* tick cannot be writing, because a tick that records a failure found its *)
(* collector not quarantined and nobody else can quarantine it meanwhile   *)
(* (FailuresOK).                                                           *)
(***************************************************************************)
EXTENDS Scheduler, TLAPS

Recording == {"fail", "failed"}

\* The locals a task will use are there.
TicksOK ==
    \A k \in Tick : /\ tick[k].pc # "idle" => tick[k].col \in Collector
                    /\ tick[k].pc \in Recording \cup {"find", "emit"} => tick[k].reason \in Reason

OpsOK ==
    \A o \in Operator : /\ op[o].pc # "idle" => op[o].col \in Collector
                        /\ stopping => op[o].pc = "idle"

\* A tick t that records a failure of c is the only writer of c's counters that
\* can raise them; st, ea, dc, dr: streak, earned, dbCount and dbReason of c.
FailureOK(t, q, st, ea, dc, dr) ==
    /\ t.pc \in Recording => q = None
    /\ t.pc = "fail" => st + 1 <= t.new /\ t.new <= ea + 1
    /\ t.pc = "failed" => /\ st <= t.new /\ t.new <= ea
                          /\ t.new >= Threshold[t.col] /\ dr = None => dc = 0

FailuresOK ==
    \A k \in Tick : \A c \in Collector : tick[k].col = c =>
        FailureOK(tick[k], quarantined[c], streak[c], earned[c], dbCount[c], dbReason[c])

AllIdle == \A k \in Tick : tick[k].pc = "idle"

\* The memory of c is as far as its table row, or a tick is about to bring it
\* there, or stop() has cancelled all ticks.
InStep(c) ==
    \/ streak[c] <= count[c]
    \/ \E k \in Tick : tick[k].pc = "failed" /\ tick[k].col = c
    \/ stopping /\ AllIdle

\* How the counters of a collector with threshold th are related.
CountersOK(th, st, ea, cn, q, dc, dr) ==
    /\ st <= dc
    /\ cn <= ea
    /\ cn >= th <=> q # None
    /\ dr = None => dc <= ea /\ dc < th
    /\ q # None /\ dr = None => dc = 0

CountsOK ==
    \A c \in Collector :
        /\ InStep(c)
        /\ CountersOK(Threshold[c], streak[c], earned[c], count[c], quarantined[c],
                      dbCount[c], dbReason[c])

\* The inductive invariant of the failure budget.
BudgetInv ==
    /\ TypeOK /\ TicksOK /\ OpsOK /\ GroupsAreSerialized /\ FailuresOK /\ CountsOK

LEMMA NoTickType == NoTick \in TickRow
  BY DEF NoTick, TickRow, TickPCs

LEMMA NoOpType == NoOp \in OpRow
  BY DEF NoOp, OpRow, OpPCs

LEMMA InitBudget == Init => BudgetInv
<1> SUFFICES ASSUME Init PROVE BudgetInv
  OBVIOUS
<1>1. TypeOK
  BY NoTickType, NoOpType DEF Init, TypeOK
<1>2. TicksOK /\ OpsOK /\ GroupsAreSerialized /\ FailuresOK
  BY DEF Init, TicksOK, OpsOK, GroupsAreSerialized, FailuresOK, FailureOK, NoTick, NoOp, Recording
<1>3. CountsOK
  BY ConstantsAssumption DEF Init, CountsOK, CountersOK, InStep
<1> QED
  BY <1>1, <1>2, <1>3 DEF BudgetInv

\* A step that leaves ticks, counters and stopping alone.
LEMMA OpStepKeeps ==
  ASSUME BudgetInv, UNCHANGED <<budget, dbCount, dbReason, groupLock, tick, stopping, ghost>>
  PROVE  TicksOK' /\ GroupsAreSerialized' /\ FailuresOK' /\ CountsOK'
  BY DEF BudgetInv, budget, ghost, TicksOK, GroupsAreSerialized, LockOf, FailuresOK,
         CountsOK, InStep, AllIdle

\* A step of tick k alone, to locals x, that records nothing.
LEMMA TickStepKeeps ==
  ASSUME BudgetInv, NEW k \in Tick, NEW x \in TickRow,
         tick' = [tick EXCEPT ![k] = x],
         x.pc \notin Recording, tick[k].pc # "failed",
         stopping => tick[k].pc # "idle" \/ x.pc = "idle",
         UNCHANGED <<budget, dbCount, dbReason, stopping, ghost>>
  PROVE  tick' \in [Tick -> TickRow] /\ FailuresOK' /\ CountsOK'
<1>1. tick' \in [Tick -> TickRow] /\ tick'[k] = x /\ \A j \in Tick \ {k} : tick'[j] = tick[j]
  BY DEF BudgetInv, TypeOK
<1>2. FailuresOK'
  BY <1>1 DEF BudgetInv, FailuresOK, FailureOK, Recording, budget, ghost
<1>3. ASSUME NEW c \in Collector PROVE InStep(c)'
  BY <1>1 DEF BudgetInv, CountsOK, InStep, AllIdle, budget, ghost
<1> QED
  BY <1>1, <1>2, <1>3 DEF BudgetInv, CountsOK, budget, ghost

\* Locals y that need the group lock follow locals x that held it.
LockKept(x, y) ==
    y.pc \in {"run", "fail", "failed", "find", "emit"} =>
        y.col = x.col /\ x.pc \in {"run", "fail", "failed", "find", "emit"}

\* The locks after a step in which tick k, with locals x, neither takes nor needs
\* a lock it does not have.
LEMMA LocksKept ==
  ASSUME BudgetInv, NEW k \in Tick, NEW x \in TickRow,
         tick' = [tick EXCEPT ![k] = x],
         LockKept(tick[k], x),
         groupLock' = groupLock
  PROVE  groupLock' \in [{Group[c] : c \in Collector} -> Tick \cup {None}] /\ GroupsAreSerialized'
  BY DEF BudgetInv, TypeOK, GroupsAreSerialized, LockOf, LockKept

LEMMA LocksReleased ==
  ASSUME BudgetInv, NEW k \in Tick, EndTick(k)
  PROVE  /\ groupLock' \in [{Group[c] : c \in Collector} -> Tick \cup {None}]
         /\ GroupsAreSerialized'
         /\ tick' \in [Tick -> TickRow] /\ TicksOK'
<1>1. tick' \in [Tick -> TickRow] /\ tick'[k] = NoTick /\ \A j \in Tick \ {k} : tick'[j] = tick[j]
  BY NoTickType DEF BudgetInv, TypeOK, EndTick
<1>2. groupLock' \in [{Group[c] : c \in Collector} -> Tick \cup {None}]
  BY DEF BudgetInv, TypeOK, EndTick, Release
<1>3. ASSUME NEW j \in Tick, tick'[j].pc \in {"run", "fail", "failed", "find", "emit"}
      PROVE  groupLock'[Group[tick'[j].col]] = j
  <2>1. j # k /\ tick'[j] = tick[j]
    BY <1>1, <1>3 DEF NoTick
  <2>2. groupLock[Group[tick[j].col]] = j /\ tick[j].col \in Collector
    BY <1>3, <2>1 DEF BudgetInv, GroupsAreSerialized, LockOf, TicksOK
  <2> QED
    BY <2>1, <2>2 DEF EndTick, Release, BudgetInv, TypeOK
<1>4. TicksOK'
  BY <1>1 DEF BudgetInv, TicksOK, NoTick, Recording
<1> QED
  BY <1>1, <1>2, <1>3, <1>4 DEF GroupsAreSerialized, LockOf

\* The end of a tick that has nothing to record.
LEMMA EndKeeps ==
  ASSUME BudgetInv, NEW k \in Tick, EndTick(k), tick[k].pc # "failed",
         awaited' \subseteq awaited,
         UNCHANGED <<budget, dbCount, dbReason, op, stopping, ghost>>,
         rows' \in [Fingerprint -> Nat], firing' \subseteq Fingerprint,
         failures' \in Nat, faults' \in Nat, crashes' \in Nat, cli' \in Nat
  PROVE  BudgetInv'
<1>1. FailuresOK' /\ CountsOK'
  BY TickStepKeeps, NoTickType DEF EndTick, NoTick, Recording
<1>2. OpsOK'
  BY DEF BudgetInv, OpsOK
<1>3. TypeOK'
  BY LocksReleased DEF BudgetInv, TypeOK, budget, ghost
<1> QED
  BY <1>1, <1>2, <1>3, LocksReleased DEF BudgetInv

\* A step of tick k alone that neither ends it nor records anything.
LEMMA MoveKeeps ==
  ASSUME BudgetInv, NEW k \in Tick, NEW x \in TickRow,
         tick' = [tick EXCEPT ![k] = x],
         x.pc \notin Recording, tick[k].pc # "failed", x.col \in Collector,
         ~stopping \/ tick[k].pc # "idle",
         x.pc \in {"find", "emit"} => x.reason \in Reason,
         LockKept(tick[k], x),
         awaited' \subseteq Tick,
         OpsOK', op' \in [Operator -> OpRow],
         UNCHANGED <<budget, db, groupLock, stopping, ghost, bounds>>
  PROVE  BudgetInv'
<1>1. tick' \in [Tick -> TickRow] /\ FailuresOK' /\ CountsOK'
  BY TickStepKeeps DEF db
<1>2. GroupsAreSerialized'
  BY LocksKept
<1>3. TicksOK'
  BY DEF BudgetInv, TypeOK, TicksOK, Recording
<1>4. TypeOK'
  BY <1>1 DEF BudgetInv, TypeOK, budget, db, ghost, bounds
<1> QED
  BY <1>1, <1>2, <1>3, <1>4 DEF BudgetInv

LEMMA OpsUnchanged ==
  ASSUME BudgetInv, UNCHANGED <<op, stopping>>
  PROVE  OpsOK' /\ op' \in [Operator -> OpRow]
  BY DEF BudgetInv, TypeOK, OpsOK

\* The locals of a tick that was just created.
LEMMA NewTick ==
  ASSUME NEW c \in Collector, NEW p \in {"queued", "gate"}
  PROVE  /\ [NoTick EXCEPT !.pc = p, !.col = c] \in TickRow
         /\ [NoTick EXCEPT !.pc = p, !.col = c].pc = p
         /\ [NoTick EXCEPT !.pc = p, !.col = c].col = c
  BY DEF NoTick, TickRow, TickPCs

LEMMA RequestRunInv ==
  ASSUME BudgetInv, NEW k \in Tick, NEW c \in Collector, RequestRun(k, c)
  PROVE  BudgetInv'
<1> DEFINE x == [NoTick EXCEPT !.pc = "queued", !.col = c]
<1>1. x \in TickRow /\ x.pc = "queued" /\ x.col = c
  BY NewTick
<1>2. tick' = [tick EXCEPT ![k] = x] /\ tick[k].pc = "idle" /\ ~stopping /\ awaited' \subseteq Tick
  BY DEF RequestRun, Enqueue, Free, BudgetInv, TypeOK
<1>3. UNCHANGED <<budget, db, groupLock, stopping, ghost, bounds>> /\ UNCHANGED <<op, stopping>>
  BY DEF RequestRun
<1>4. OpsOK' /\ op' \in [Operator -> OpRow]
  BY <1>3, OpsUnchanged
<1> HIDE DEF x
<1>5. x.pc \notin Recording /\ x.pc \notin {"find", "emit"} /\ LockKept(tick[k], x)
  BY <1>1 DEF Recording, LockKept
<1> QED
  BY <1>1, <1>2, <1>3, <1>4, <1>5, MoveKeeps

LEMMA StartScheduledInv ==
  ASSUME BudgetInv, NEW k \in Tick, NEW c \in Collector, StartScheduled(k, c)
  PROVE  BudgetInv'
<1> DEFINE x == [NoTick EXCEPT !.pc = "gate", !.col = c]
<1>1. x \in TickRow /\ x.pc = "gate" /\ x.col = c
  BY NewTick
<1>2. tick' = [tick EXCEPT ![k] = x] /\ tick[k].pc = "idle" /\ ~stopping /\ awaited' \subseteq Tick
  BY DEF StartScheduled, Free, BudgetInv, TypeOK
<1>3. UNCHANGED <<budget, db, groupLock, stopping, ghost, bounds>> /\ UNCHANGED <<op, stopping>>
  BY DEF StartScheduled
<1>4. OpsOK' /\ op' \in [Operator -> OpRow]
  BY <1>3, OpsUnchanged
<1> HIDE DEF x
<1>5. x.pc \notin Recording /\ x.pc \notin {"find", "emit"} /\ LockKept(tick[k], x)
  BY <1>1 DEF Recording, LockKept
<1> QED
  BY <1>1, <1>2, <1>3, <1>4, <1>5, MoveKeeps

LEMMA RetryEnqueueInv ==
  ASSUME BudgetInv, NEW o \in Operator, NEW k \in Tick, RetryEnqueue(o, k)
  PROVE  BudgetInv'
<1> DEFINE c == op[o].col
           x == [NoTick EXCEPT !.pc = "queued", !.col = c]
<1>0. c \in Collector /\ ~stopping
  BY DEF RetryEnqueue, BudgetInv, OpsOK
<1>1. x \in TickRow /\ x.pc = "queued" /\ x.col = c
  BY <1>0, NewTick
<1>2. tick' = [tick EXCEPT ![k] = x] /\ tick[k].pc = "idle" /\ awaited' \subseteq Tick
  BY DEF RetryEnqueue, Enqueue, Free, BudgetInv, TypeOK
<1>3. op' \in [Operator -> OpRow] /\ OpsOK'
  BY NoOpType DEF RetryEnqueue, BudgetInv, TypeOK, OpsOK, NoOp
<1>4. UNCHANGED <<budget, db, groupLock, stopping, ghost, bounds>>
  BY DEF RetryEnqueue
<1> HIDE DEF x, c
<1>5. x.pc \notin Recording /\ x.pc \notin {"find", "emit"} /\ LockKept(tick[k], x)
  BY <1>1 DEF Recording, LockKept
<1> QED
  BY <1>0, <1>1, <1>2, <1>3, <1>4, <1>5, MoveKeeps

LEMMA AwaitTimeoutInv ==
  ASSUME BudgetInv, NEW k \in Tick, AwaitTimeout(k)
  PROVE  BudgetInv'
<1>1. TicksOK' /\ GroupsAreSerialized' /\ FailuresOK' /\ CountsOK'
  BY OpStepKeeps DEF AwaitTimeout, db
<1> QED
  BY <1>1, OpsUnchanged DEF AwaitTimeout, BudgetInv, TypeOK, budget, db, ghost, bounds

LEMMA StartImmediateInv ==
  ASSUME BudgetInv, NEW k \in Tick, StartImmediate(k)
  PROVE  BudgetInv'
<1> DEFINE x == [tick[k] EXCEPT !.pc = "gate"]
<1>1. tick[k] \in TickRow /\ tick[k].col \in Collector /\ tick[k].pc = "queued"
  BY DEF StartImmediate, BudgetInv, TypeOK, TicksOK
<1>2. x \in TickRow /\ x.pc = "gate" /\ x.col = tick[k].col
  BY <1>1 DEF TickRow, TickPCs
<1>3. /\ tick' = [tick EXCEPT ![k] = x] /\ awaited' \subseteq Tick
      /\ UNCHANGED <<budget, db, groupLock, stopping, ghost, bounds>> /\ UNCHANGED <<op, stopping>>
  BY DEF StartImmediate, BudgetInv, TypeOK
<1>4. OpsOK' /\ op' \in [Operator -> OpRow]
  BY <1>3, OpsUnchanged
<1> HIDE DEF x
<1>5. x.pc \notin Recording /\ x.pc \notin {"find", "emit"} /\ LockKept(tick[k], x)
  BY <1>2 DEF Recording, LockKept
<1> QED
  BY <1>1, <1>2, <1>3, <1>4, <1>5, MoveKeeps

LEMMA GateInv ==
  ASSUME BudgetInv, NEW k \in Tick, Gate(k)
  PROVE  BudgetInv'
<1>1. CASE quarantined[tick[k].col] # None
  BY <1>1, EndKeeps DEF Gate, Signal, BudgetInv, TypeOK, db, bounds
<1>2. CASE quarantined[tick[k].col] = None
  <2> DEFINE x == [tick[k] EXCEPT !.pc = "lock"]
  <2>1. tick[k] \in TickRow /\ tick[k].col \in Collector /\ tick[k].pc = "gate"
    BY DEF Gate, BudgetInv, TypeOK, TicksOK
  <2>2. x \in TickRow /\ x.pc = "lock" /\ x.col = tick[k].col
    BY <2>1 DEF TickRow, TickPCs
  <2>3. /\ tick' = [tick EXCEPT ![k] = x] /\ awaited' \subseteq Tick
        /\ UNCHANGED <<budget, db, groupLock, stopping, ghost, bounds>> /\ UNCHANGED <<op, stopping>>
    BY <1>2 DEF Gate, BudgetInv, TypeOK
  <2>4. OpsOK' /\ op' \in [Operator -> OpRow]
    BY <2>3, OpsUnchanged
  <2> HIDE DEF x
  <2>5. x.pc \notin Recording /\ x.pc \notin {"find", "emit"} /\ LockKept(tick[k], x)
    BY <2>2 DEF Recording, LockKept
  <2> QED
    BY <2>1, <2>2, <2>3, <2>4, <2>5, MoveKeeps
<1> QED
  BY <1>1, <1>2

LEMMA AcquireLockInv ==
  ASSUME BudgetInv, NEW k \in Tick, AcquireLock(k)
  PROVE  BudgetInv'
<1> DEFINE x == [tick[k] EXCEPT !.pc = "run"]
<1>1. tick[k] \in TickRow /\ tick[k].col \in Collector /\ tick[k].pc = "lock"
  BY DEF AcquireLock, BudgetInv, TypeOK, TicksOK
<1>2. x \in TickRow /\ x.pc = "run" /\ x.col = tick[k].col
  BY <1>1 DEF TickRow, TickPCs
<1>3. /\ tick' = [tick EXCEPT ![k] = x]
      /\ UNCHANGED <<budget, dbCount, dbReason, stopping, ghost>> /\ UNCHANGED <<op, stopping>>
  BY DEF AcquireLock, db
<1> HIDE DEF x
<1>4. tick' \in [Tick -> TickRow] /\ FailuresOK' /\ CountsOK'
  BY <1>1, <1>2, <1>3, TickStepKeeps DEF Recording
<1>5. tick'[k] = x /\ \A j \in Tick \ {k} : tick'[j] = tick[j]
  BY <1>3 DEF BudgetInv, TypeOK
<1>6. TicksOK'
  BY <1>1, <1>2, <1>5 DEF BudgetInv, TicksOK, Recording
<1>7. groupLock' \in [{Group[c] : c \in Collector} -> Tick \cup {None}]
  BY DEF AcquireLock, BudgetInv, TypeOK
<1>8. ASSUME NEW j \in Tick, tick'[j].pc \in {"run", "fail", "failed", "find", "emit"}
      PROVE  groupLock'[Group[tick'[j].col]] = j
  <2>1. CASE j = k
    BY <2>1, <1>1, <1>2, <1>5 DEF AcquireLock, LockOf, BudgetInv, TypeOK
  <2>2. CASE j # k
    <3>1. tick'[j] = tick[j] /\ groupLock[Group[tick[j].col]] = j
      BY <2>2, <1>5, <1>8 DEF BudgetInv, GroupsAreSerialized, LockOf
    <3>2. j # None
      BY ConstantsAssumption
    <3> QED
      BY <3>1, <3>2 DEF AcquireLock, LockOf, BudgetInv, TypeOK
  <2> QED
    BY <2>1, <2>2
<1>9. TypeOK'
  BY <1>4, <1>7 DEF AcquireLock, BudgetInv, TypeOK, budget, db, ghost, bounds
<1> QED
  BY <1>3, <1>4, <1>6, <1>8, <1>9, OpsUnchanged DEF BudgetInv, GroupsAreSerialized, LockOf

LEMMA LockTimeoutInv ==
  ASSUME BudgetInv, NEW k \in Tick, LockTimeout(k)
  PROVE  BudgetInv'
  BY EndKeeps DEF LockTimeout, Signal, BudgetInv, TypeOK, db, bounds

LEMMA TickFaultInv ==
  ASSUME BudgetInv, NEW k \in Tick, TickFault(k)
  PROVE  BudgetInv'
<1>1. tick[k].pc # "failed" /\ EndTick(k) /\ awaited' \subseteq awaited /\ faults' \in Nat
  BY DEF TickFault, BudgetInv, TypeOK
<1>2. /\ UNCHANGED <<budget, dbCount, dbReason, op, stopping, ghost>>
      /\ UNCHANGED <<rows, firing, failures, crashes, cli>>
  BY DEF TickFault, db
<1> QED
  BY <1>1, <1>2, EndKeeps DEF BudgetInv, TypeOK

LEMMA EmitAlertInv ==
  ASSUME BudgetInv, NEW k \in Tick, EmitAlert(k)
  PROVE  BudgetInv'
<1> DEFINE f == <<tick[k].col, tick[k].reason>>
<1>1. f \in Fingerprint
  BY DEF EmitAlert, BudgetInv, TicksOK, Recording, Fingerprint
<1> HIDE DEF f
<1>2. /\ \/ UNCHANGED <<rows, firing>>
         \/ rows' = [rows EXCEPT ![f] = @ + 1] /\ firing' = firing \cup {f}
      /\ EndTick(k) /\ Signal(k) /\ tick[k].pc = "emit"
      /\ UNCHANGED <<budget, dbCount, dbReason, op, stopping, ghost>> /\ UNCHANGED bounds
  BY DEF EmitAlert, f
<1>3. rows' \in [Fingerprint -> Nat] /\ firing' \subseteq Fingerprint
  BY <1>1, <1>2 DEF BudgetInv, TypeOK
<1> QED
  BY <1>2, <1>3, EndKeeps DEF Signal, BudgetInv, TypeOK, bounds

LEMMA FindActiveInv ==
  ASSUME BudgetInv, NEW k \in Tick, FindActive(k)
  PROVE  BudgetInv'
<1> DEFINE f == <<tick[k].col, tick[k].reason>>
           x == [tick[k] EXCEPT !.pc = "emit", !.row = ActiveRow(f)]
<1>1. /\ tick[k] \in TickRow /\ tick[k].col \in Collector /\ tick[k].pc = "find"
      /\ tick[k].reason \in Reason
  BY DEF FindActive, BudgetInv, TypeOK, TicksOK, Recording
<1>2. ActiveRow(f) \in Nat
  BY <1>1 DEF ActiveRow, BudgetInv, TypeOK, Fingerprint
<1>3. x \in TickRow /\ x.pc = "emit" /\ x.col = tick[k].col /\ x.reason = tick[k].reason
  BY <1>1, <1>2 DEF TickRow, TickPCs
<1>4. /\ tick' = [tick EXCEPT ![k] = x] /\ awaited' \subseteq Tick
      /\ UNCHANGED <<budget, db, groupLock, stopping, ghost, bounds>> /\ UNCHANGED <<op, stopping>>
  BY DEF FindActive, BudgetInv, TypeOK
<1>5. OpsOK' /\ op' \in [Operator -> OpRow]
  BY <1>4, OpsUnchanged
<1> HIDE DEF x
<1>6. x.pc \notin Recording /\ LockKept(tick[k], x)
  BY <1>1, <1>3 DEF Recording, LockKept
<1> QED
  BY <1>1, <1>3, <1>4, <1>5, <1>6, MoveKeeps

\* Two ticks of one collector are never past the group lock together.
LEMMA Exclusive ==
  ASSUME BudgetInv, NEW j \in Tick, NEW k \in Tick, tick[j].col = tick[k].col,
         tick[j].pc \in {"run", "fail", "failed", "find", "emit"},
         tick[k].pc \in {"run", "fail", "failed", "find", "emit"}
  PROVE  j = k
  BY DEF BudgetInv, GroupsAreSerialized, LockOf

LEMMA RunSucceedsInv ==
  ASSUME BudgetInv, NEW k \in Tick, RunSucceeds(k)
  PROVE  BudgetInv'
<1> DEFINE c == tick[k].col
<1>1. c \in Collector /\ tick[k].pc = "run" /\ EndTick(k)
  BY DEF RunSucceeds, BudgetInv, TicksOK
<1>2. CASE quarantined[c] # None
  <2>1. UNCHANGED <<count, streak>>
    BY <1>2 DEF RunSucceeds, CountAfterSuccess, BudgetInv, TypeOK
  <2> QED
    BY <1>1, <2>1, EndKeeps DEF RunSucceeds, Signal, BudgetInv, TypeOK, budget, ghost, db, bounds
<1>3. CASE quarantined[c] = None
  <2>1. /\ count' = [count EXCEPT ![c] = 0] /\ streak' = [streak EXCEPT ![c] = 0]
        /\ UNCHANGED <<quarantined, dbCount, dbReason, stopping, earned>>
        /\ UNCHANGED <<rows, firing, op, stopping, bounds>> /\ awaited' \subseteq awaited
    BY <1>3 DEF RunSucceeds, CountAfterSuccess, db, Signal
  <2>2. tick' \in [Tick -> TickRow] /\ tick'[k] = NoTick /\ \A j \in Tick \ {k} : tick'[j] = tick[j]
    BY <1>1, NoTickType DEF BudgetInv, TypeOK, EndTick
  <2>3. \A j \in Tick \ {k} : tick[j].col = c => tick[j].pc \notin Recording
    BY <1>1, Exclusive DEF Recording
  <2>4. FailuresOK'
    BY <1>1, <2>1, <2>2, <2>3 DEF BudgetInv, TypeOK, FailuresOK, FailureOK, NoTick, Recording
  <2> HIDE DEF c
  <2>5. ASSUME NEW d \in Collector
        PROVE  InStep(d)' /\ CountersOK(Threshold[d], streak[d], earned[d], count[d],
                                        quarantined[d], dbCount[d], dbReason[d])'
    <3>0. CountersOK(Threshold[d], streak[d], earned[d], count[d], quarantined[d],
                     dbCount[d], dbReason[d])
      BY DEF BudgetInv, CountsOK
    <3>1. CASE d = c
      <4>1. count'[d] = 0 /\ streak'[d] = 0
        BY <3>1, <1>1, <2>1 DEF BudgetInv, TypeOK
      <4>2. Threshold[d] \in Nat /\ Threshold[d] > 0 /\ earned[d] \in Nat /\ dbCount[d] \in Nat
        BY ConstantsAssumption DEF BudgetInv, TypeOK
      <4>3. quarantined'[d] = None
        BY <3>1, <1>3, <2>1
      <4> QED
        BY <3>0, <4>1, <4>2, <4>3, <2>1 DEF CountersOK, InStep
    <3>2. CASE d # c
      BY <3>2, <1>1, <2>1, <2>2 DEF BudgetInv, TypeOK, CountsOK, CountersOK, InStep, AllIdle
    <3> QED
      BY <3>1, <3>2
  <2>6. TypeOK'
    <3>1. count' \in [Collector -> Nat] /\ streak' \in [Collector -> Nat]
      BY <1>1, <2>1 DEF BudgetInv, TypeOK
    <3>2. groupLock' \in [{Group[e] : e \in Collector} -> Tick \cup {None}]
      BY <1>1, LocksReleased
    <3> QED
      BY <2>1, <2>2, <3>1, <3>2 DEF BudgetInv, TypeOK, bounds
  <2>7. OpsOK'
    BY OpsUnchanged, <2>1
  <2> QED
    BY <1>1, <2>4, <2>5, <2>6, <2>7, LocksReleased DEF BudgetInv, CountsOK
<1> QED
  BY <1>2, <1>3

LEMMA RunFailsInv ==
  ASSUME BudgetInv, NEW k \in Tick, NEW r \in Reason, RunFails(k, r)
  PROVE  BudgetInv'
<1> DEFINE c == tick[k].col
<1>1. c \in Collector /\ tick[k].pc = "run" /\ tick[k] \in TickRow
  BY DEF RunFails, BudgetInv, TypeOK, TicksOK
<1>2. CASE quarantined[c] # None
  <2>1. EndTick(k) /\ awaited' \subseteq awaited /\ failures' \in Nat
    BY <1>2 DEF RunFails, Signal, BudgetInv, TypeOK
  <2>2. /\ UNCHANGED <<budget, dbCount, dbReason, op, stopping, ghost>>
        /\ UNCHANGED <<rows, firing, faults, crashes, cli>>
    BY DEF RunFails, db
  <2> QED
    BY <1>1, <2>1, <2>2, EndKeeps DEF BudgetInv, TypeOK
<1>3. CASE quarantined[c] = None
  <2> DEFINE n == count[c] + 1
             x == [tick[k] EXCEPT !.pc = "fail", !.reason = r, !.new = n]
  <2>0. n \in Nat
    BY <1>1 DEF BudgetInv, TypeOK
  <2>1. n \in Nat /\ x \in TickRow /\ x.pc = "fail" /\ x.col = c /\ x.reason = r /\ x.new = n
    <3> HIDE DEF n
    <3> QED
      BY <1>1, <2>0 DEF TickRow, TickPCs
  <2>2. /\ tick' = [tick EXCEPT ![k] = x] /\ UNCHANGED <<groupLock, awaited>>
        /\ UNCHANGED <<count, quarantined, dbCount, dbReason, stopping, streak, earned>>
        /\ UNCHANGED <<rows, firing, op, faults, crashes, cli>> /\ failures' \in Nat
    BY <1>3 DEF RunFails, budget, db, ghost, BudgetInv, TypeOK
  <2> HIDE DEF x
  <2>3. tick' \in [Tick -> TickRow] /\ tick'[k] = x /\ \A j \in Tick \ {k} : tick'[j] = tick[j]
    BY <2>1, <2>2 DEF BudgetInv, TypeOK
  <2>4. streak[c] <= count[c] /\ count[c] <= earned[c]
    <3>1. \A j \in Tick : tick[j].col = c => tick[j].pc # "failed"
      BY <1>1, Exclusive
    <3> QED
      BY <1>1, <3>1 DEF BudgetInv, CountsOK, InStep, AllIdle, CountersOK
  <2>5. FailuresOK'
    <3>1. FailureOK(x, quarantined[c], streak[c], earned[c], dbCount[c], dbReason[c])
      BY <1>1, <1>3, <2>1, <2>4 DEF FailureOK, BudgetInv, TypeOK
    <3> QED
      BY <1>1, <2>1, <2>2, <2>3, <3>1 DEF BudgetInv, FailuresOK
  <2>6. CountsOK'
    BY <1>1, <2>1, <2>2, <2>3 DEF BudgetInv, CountsOK, InStep, AllIdle
  <2>7. GroupsAreSerialized' /\ TicksOK'
    BY <1>1, <2>1, <2>2, <2>3 DEF BudgetInv, GroupsAreSerialized, LockOf, TicksOK, Recording
  <2>8. TypeOK'
    BY <2>2, <2>3 DEF BudgetInv, TypeOK
  <2> QED
    BY <2>2, <2>5, <2>6, <2>7, <2>8, OpsUnchanged DEF BudgetInv
<1> QED
  BY <1>2, <1>3

LEMMA CommitFailureInv ==
  ASSUME BudgetInv, NEW k \in Tick, CommitFailure(k)
  PROVE  BudgetInv'
<1> DEFINE c == tick[k].col
           n == tick[k].new
           x == [tick[k] EXCEPT !.pc = "failed"]
<1>1. /\ c \in Collector /\ tick[k].pc = "fail" /\ tick[k] \in TickRow /\ n \in Nat
      /\ tick[k].reason \in Reason
  BY DEF CommitFailure, BudgetInv, TypeOK, TicksOK, TickRow, Recording
<1>2. x \in TickRow /\ x.pc = "failed" /\ x.col = c /\ x.reason = tick[k].reason /\ x.new = n
  BY <1>1 DEF TickRow, TickPCs
<1>3. /\ tick' = [tick EXCEPT ![k] = x]
      /\ dbCount' = [dbCount EXCEPT ![c] = n]
      /\ dbReason' = IF n >= Threshold[c] THEN [dbReason EXCEPT ![c] = tick[k].reason] ELSE dbReason
      /\ streak' = [streak EXCEPT ![c] = @ + 1] /\ earned' = [earned EXCEPT ![c] = @ + 1]
      /\ UNCHANGED <<count, quarantined, groupLock, op, stopping>>
      /\ UNCHANGED <<rows, firing, awaited, bounds>>
  BY DEF CommitFailure, PersistedCount, MeetsThreshold, budget
<1>4. /\ quarantined[c] = None /\ streak[c] + 1 <= n /\ n <= earned[c] + 1
      /\ streak[c] \in Nat /\ earned[c] \in Nat
  BY <1>1 DEF BudgetInv, FailuresOK, FailureOK, Recording, TypeOK
<1>5. \A j \in Tick \ {k} : tick[j].col = c => tick[j].pc \notin Recording
  BY <1>1, Exclusive DEF Recording
<1> HIDE DEF x
<1>6. tick' \in [Tick -> TickRow] /\ tick'[k] = x /\ \A j \in Tick \ {k} : tick'[j] = tick[j]
  BY <1>2, <1>3 DEF BudgetInv, TypeOK
<1>7. tick[k].reason # None /\ Threshold[c] \in Nat /\ Threshold[c] > 0
  BY <1>1, ConstantsAssumption
<1>8. TypeOK'
  BY <1>1, <1>3, <1>6 DEF BudgetInv, TypeOK, bounds
<1>9. /\ streak'[c] = streak[c] + 1 /\ earned'[c] = earned[c] + 1 /\ dbCount'[c] = n
      /\ n >= Threshold[c] => dbReason'[c] # None
  BY <1>1, <1>3, <1>7 DEF BudgetInv, TypeOK
<1>10. \A d \in Collector \ {c} : /\ streak'[d] = streak[d] /\ earned'[d] = earned[d]
                                  /\ dbCount'[d] = dbCount[d] /\ dbReason'[d] = dbReason[d]
  BY <1>1, <1>3 DEF BudgetInv, TypeOK
<1>11. FailuresOK'
  <2>1. ASSUME NEW j \in Tick, NEW d \in Collector, tick'[j].col = d
        PROVE  FailureOK(tick'[j], quarantined'[d], streak'[d], earned'[d], dbCount'[d], dbReason'[d])
    <3>1. CASE j = k
      BY <2>1, <3>1, <1>2, <1>3, <1>4, <1>6, <1>9 DEF FailureOK, Recording
    <3>2. CASE j # k /\ d = c
      BY <2>1, <3>2, <1>5, <1>6 DEF FailureOK, Recording
    <3>3. CASE j # k /\ d # c
      BY <2>1, <3>3, <1>3, <1>6, <1>10 DEF BudgetInv, FailuresOK
    <3> QED
      BY <3>1, <3>2, <3>3
  <2> QED
    BY <2>1 DEF FailuresOK
<1>12. CountsOK'
  <2>1. ASSUME NEW d \in Collector PROVE InStep(d)'
    BY <1>2, <1>3, <1>6, <1>10, <1>1 DEF BudgetInv, CountsOK, InStep, AllIdle
  <2>2. ASSUME NEW d \in Collector
        PROVE  CountersOK(Threshold[d], streak'[d], earned'[d], count'[d], quarantined'[d],
                          dbCount'[d], dbReason'[d])
    <3>1. CASE d = c
      <4>1. CountersOK(Threshold[c], streak[c], earned[c], count[c], quarantined[c],
                       dbCount[c], dbReason[c])
        BY <1>1 DEF BudgetInv, CountsOK
      <4>2. count[c] \in Nat
        BY <1>1 DEF BudgetInv, TypeOK
      <4> QED
        BY <4>1, <4>2, <3>1, <1>1, <1>3, <1>4, <1>7, <1>9 DEF CountersOK
    <3>2. CASE d # c
      BY <3>2, <1>3, <1>10 DEF BudgetInv, CountsOK
    <3> QED
      BY <3>1, <3>2
  <2> QED
    BY <2>1, <2>2 DEF CountsOK
<1>13. GroupsAreSerialized' /\ TicksOK'
  BY <1>1, <1>2, <1>3, <1>6 DEF BudgetInv, GroupsAreSerialized, LockOf, TicksOK, Recording
<1> QED
  BY <1>3, <1>8, <1>11, <1>12, <1>13, OpsUnchanged DEF BudgetInv

LEMMA RecordFailureInv ==
  ASSUME BudgetInv, NEW k \in Tick, RecordFailure(k)
  PROVE  BudgetInv'
<1> DEFINE c == tick[k].col
           n == tick[k].new
           x == [tick[k] EXCEPT !.pc = "find"]
           y == IF n >= Threshold[c] THEN x ELSE NoTick
           q == IF n >= Threshold[c] THEN tick[k].reason ELSE None
<1>1. /\ c \in Collector /\ tick[k].pc = "failed" /\ tick[k] \in TickRow /\ n \in Nat
      /\ tick[k].reason \in Reason
  BY DEF RecordFailure, BudgetInv, TypeOK, TicksOK, TickRow, Recording
<1>2. x \in TickRow /\ x.pc = "find" /\ x.col = c /\ x.reason = tick[k].reason
  BY <1>1 DEF TickRow, TickPCs
<1>3. /\ quarantined[c] = None /\ streak[c] <= n /\ n <= earned[c]
      /\ n >= Threshold[c] /\ dbReason[c] = None => dbCount[c] = 0
  BY <1>1 DEF BudgetInv, FailuresOK, FailureOK, Recording
<1>4. \A j \in Tick \ {k} : tick[j].col = c => tick[j].pc \notin Recording
  BY <1>1, Exclusive DEF Recording
<1>5. tick[k].reason # None /\ Threshold[c] \in Nat /\ Threshold[c] > 0
  BY <1>1, ConstantsAssumption
<1>6. /\ count' = [count EXCEPT ![c] = n]
      /\ UNCHANGED <<dbCount, dbReason, stopping, streak, earned>>
      /\ UNCHANGED <<rows, firing, op, stopping, bounds>>
  BY DEF RecordFailure, db, ghost
<1>7. /\ quarantined' = [quarantined EXCEPT ![c] = q]
      /\ tick' = [tick EXCEPT ![k] = y]
      /\ awaited' \subseteq awaited
      /\ groupLock' \in [{Group[e] : e \in Collector} -> Tick \cup {None}] /\ GroupsAreSerialized'
  <2>1. CASE n >= Threshold[c]
    <3>1. /\ tick' = [tick EXCEPT ![k] = x] /\ groupLock' = groupLock /\ awaited' = awaited
          /\ quarantined' = [quarantined EXCEPT ![c] = q]
      BY <2>1 DEF RecordFailure, MeetsThreshold
    <3> HIDE DEF x, q
    <3>2. LockKept(tick[k], x)
      BY <1>1, <1>2 DEF LockKept
    <3> QED
      BY <1>2, <2>1, <3>1, <3>2, LocksKept DEF y
  <2>2. CASE ~(n >= Threshold[c])
    <3>1. EndTick(k) /\ Signal(k) /\ UNCHANGED quarantined
      BY <2>2 DEF RecordFailure, MeetsThreshold
    <3>2. quarantined' = [quarantined EXCEPT ![c] = q]
      BY <2>2, <3>1, <1>1, <1>3 DEF BudgetInv, TypeOK
    <3> HIDE DEF q
    <3> QED
      BY <2>2, <3>1, <3>2, LocksReleased DEF EndTick, Signal
  <2> QED
    BY <2>1, <2>2
<1>8. /\ y \in TickRow /\ y.pc \notin Recording
      /\ y.pc # "idle" => y.col \in Collector
      /\ y.pc \in {"find", "emit"} => y.reason \in Reason
  BY <1>1, <1>2, NoTickType DEF NoTick, Recording
<1>9. q \in Reason \cup {None} /\ (n >= Threshold[c] <=> q # None)
  BY <1>1, <1>5
<1> HIDE DEF x, y, q
<1>10. tick' \in [Tick -> TickRow] /\ tick'[k] = y /\ \A j \in Tick \ {k} : tick'[j] = tick[j]
  BY <1>7, <1>8 DEF BudgetInv, TypeOK
<1>11. TypeOK'
  <2>1. count' \in [Collector -> Nat] /\ quarantined' \in [Collector -> Reason \cup {None}]
    BY <1>1, <1>6, <1>7, <1>9 DEF BudgetInv, TypeOK
  <2> QED
    BY <1>6, <1>7, <1>10, <2>1 DEF BudgetInv, TypeOK, bounds
<1>12. /\ count'[c] = n /\ quarantined'[c] = q
       /\ \A d \in Collector \ {c} : count'[d] = count[d] /\ quarantined'[d] = quarantined[d]
  BY <1>1, <1>6, <1>7 DEF BudgetInv, TypeOK
<1>13. FailuresOK'
  <2>1. ASSUME NEW j \in Tick, NEW d \in Collector, tick'[j].col = d
        PROVE  FailureOK(tick'[j], quarantined'[d], streak'[d], earned'[d], dbCount'[d], dbReason'[d])
    <3>1. CASE j = k
      BY <3>1, <1>8, <1>10 DEF FailureOK, Recording
    <3>2. CASE j # k /\ d = c
      BY <2>1, <3>2, <1>4, <1>10 DEF FailureOK, Recording
    <3>3. CASE j # k /\ d # c
      BY <2>1, <3>3, <1>6, <1>10, <1>12 DEF BudgetInv, FailuresOK
    <3> QED
      BY <3>1, <3>2, <3>3
  <2> QED
    BY <2>1 DEF FailuresOK
<1>14. CountsOK'
  <2>1. ASSUME NEW d \in Collector PROVE InStep(d)'
    <3>1. CASE d = c
      BY <3>1, <1>3, <1>6, <1>12 DEF InStep
    <3>2. CASE d # c
      <4>1. InStep(d) /\ ~(stopping /\ AllIdle)
        BY <1>1 DEF BudgetInv, CountsOK, AllIdle
      <4>2. CASE streak[d] <= count[d]
        BY <4>2, <3>2, <1>6, <1>12 DEF InStep
      <4>3. CASE \E j \in Tick : tick[j].pc = "failed" /\ tick[j].col = d
        BY <4>3, <3>2, <1>10 DEF InStep
      <4> QED
        BY <4>1, <4>2, <4>3 DEF InStep
    <3> QED
      BY <3>1, <3>2
  <2>2. ASSUME NEW d \in Collector
        PROVE  CountersOK(Threshold[d], streak'[d], earned'[d], count'[d], quarantined'[d],
                          dbCount'[d], dbReason'[d])
    <3>0. CountersOK(Threshold[d], streak[d], earned[d], count[d], quarantined[d],
                     dbCount[d], dbReason[d])
      BY DEF BudgetInv, CountsOK
    <3>1. CASE d = c
      BY <3>0, <3>1, <1>1, <1>3, <1>5, <1>6, <1>9, <1>12 DEF CountersOK
    <3>2. CASE d # c
      BY <3>0, <3>2, <1>6, <1>12
    <3> QED
      BY <3>1, <3>2
  <2> QED
    BY <2>1, <2>2 DEF CountsOK
<1>15. TicksOK'
  BY <1>8, <1>10 DEF BudgetInv, TicksOK, Recording
<1>16. OpsOK'
  BY <1>6, OpsUnchanged
<1> QED
  BY <1>7, <1>11, <1>13, <1>14, <1>15, <1>16 DEF BudgetInv

LEMMA StopInv ==
  ASSUME BudgetInv, Stop
  PROVE  BudgetInv'
<1>1. /\ tick' \in [Tick -> TickRow]
      /\ \A k \in Tick : tick'[k] = IF tick[k].pc = "queued" THEN NoTick ELSE tick[k]
  BY NoTickType DEF Stop, BudgetInv, TypeOK
<1>2. /\ UNCHANGED <<count, quarantined, dbCount, dbReason, streak, earned>>
      /\ UNCHANGED <<rows, firing, groupLock, awaited, op, bounds>>
      /\ ~stopping /\ stopping' = TRUE
  BY DEF Stop, budget, db, ghost
<1>3. TypeOK'
  BY <1>1, <1>2 DEF BudgetInv, TypeOK, bounds
<1>4. TicksOK' /\ GroupsAreSerialized'
  BY <1>1, <1>2 DEF BudgetInv, TicksOK, GroupsAreSerialized, LockOf, NoTick, Recording
<1>5. OpsOK'
  BY DEF Stop, BudgetInv, OpsOK
<1>6. FailuresOK'
  BY <1>1, <1>2 DEF BudgetInv, FailuresOK, FailureOK, NoTick, Recording
<1>7. \A d \in Collector : InStep(d)'
  BY <1>1, <1>2 DEF BudgetInv, CountsOK, InStep
<1>8. CountsOK'
  BY <1>2, <1>7 DEF BudgetInv, CountsOK
<1> QED
  BY <1>3, <1>4, <1>5, <1>6, <1>8 DEF BudgetInv

LEMMA CancelTicksInv ==
  ASSUME BudgetInv, CancelTicks
  PROVE  BudgetInv'
<1>1. tick' \in [Tick -> TickRow] /\ \A k \in Tick : tick'[k] = NoTick
  BY NoTickType DEF CancelTicks
<1>2. /\ UNCHANGED <<count, quarantined, dbCount, dbReason, streak, earned>>
      /\ UNCHANGED <<rows, firing, op, stopping, bounds>>
      /\ stopping /\ awaited' \subseteq awaited
  BY DEF CancelTicks, budget, db, ghost
<1>3. groupLock' \in [{Group[c] : c \in Collector} -> Tick \cup {None}]
  BY DEF CancelTicks, BudgetInv, TypeOK
<1>4. TypeOK'
  BY <1>1, <1>2, <1>3 DEF BudgetInv, TypeOK, bounds
<1>5. TicksOK' /\ GroupsAreSerialized' /\ FailuresOK'
  BY <1>1 DEF TicksOK, GroupsAreSerialized, FailuresOK, FailureOK, NoTick, Recording
<1>6. \A d \in Collector : InStep(d)'
  BY <1>1, <1>2 DEF InStep, AllIdle, NoTick
<1>7. CountsOK'
  BY <1>2, <1>6 DEF BudgetInv, CountsOK
<1> QED
  BY <1>2, <1>4, <1>5, <1>7, OpsUnchanged DEF BudgetInv

\* A step of a retry that moves it to locals y and leaves the counters alone.
LEMMA OpMove ==
  ASSUME BudgetInv, NEW o \in Operator, NEW y \in OpRow,
         op' = [op EXCEPT ![o] = y],
         y.pc # "idle" => y.col \in Collector,
         stopping => y.pc = "idle",
         UNCHANGED <<budget, dbCount, dbReason, groupLock, tick, stopping, ghost>>,
         UNCHANGED <<rows, awaited, failures, crashes, cli>>,
         firing' \subseteq Fingerprint, faults' \in Nat
  PROVE  BudgetInv'
<1>1. TicksOK' /\ GroupsAreSerialized' /\ FailuresOK' /\ CountsOK'
  BY OpStepKeeps
<1>2. op' \in [Operator -> OpRow] /\ OpsOK'
  BY DEF BudgetInv, TypeOK, OpsOK
<1>3. TypeOK'
  BY <1>2 DEF BudgetInv, TypeOK, budget, ghost
<1> QED
  BY <1>1, <1>2, <1>3 DEF BudgetInv

LEMMA RetryInv ==
  ASSUME BudgetInv, NEW o \in Operator, NEW c \in Collector, Retry(o, c)
  PROVE  BudgetInv'
<1> DEFINE y == [pc |-> IF quarantined[c] = None THEN "enqueue" ELSE "find",
                 col |-> c, reason |-> quarantined[c], row |-> 0]
<1>1. y \in OpRow /\ y.col = c
  BY DEF OpRow, OpPCs, BudgetInv, TypeOK
<1>2. /\ op' = [op EXCEPT ![o] = y] /\ ~stopping
      /\ UNCHANGED <<budget, dbCount, dbReason, groupLock, tick, stopping, ghost>>
      /\ UNCHANGED <<rows, firing, awaited, bounds>>
  BY DEF Retry, db
<1> HIDE DEF y
<1> QED
  BY <1>1, <1>2, OpMove DEF BudgetInv, TypeOK, bounds

\* What the invariant says of the locals of a retry that is under way.
LEMMA OpUnderWay ==
  ASSUME BudgetInv, NEW o \in Operator, op[o].pc # "idle"
  PROVE  op[o] \in OpRow /\ op[o].col \in Collector /\ ~stopping
  BY DEF BudgetInv, TypeOK, OpsOK

LEMMA RetryFindInv ==
  ASSUME BudgetInv, NEW o \in Operator, RetryFind(o)
  PROVE  BudgetInv'
<1> DEFINE f == <<op[o].col, op[o].reason>>
           p == IF ActiveRow(f) # 0 THEN "resolve" ELSE "check"
           y == [op[o] EXCEPT !.pc = p, !.row = ActiveRow(f)]
<1>1. op[o] \in OpRow /\ op[o].col \in Collector /\ ~stopping
  BY OpUnderWay DEF RetryFind
<1>2. ActiveRow(f) \in Nat
  BY DEF ActiveRow, BudgetInv, TypeOK
<1>3. y \in OpRow /\ y.col = op[o].col
  BY <1>1, <1>2 DEF OpRow, OpPCs
<1>4. /\ op' = [op EXCEPT ![o] = y]
      /\ UNCHANGED <<budget, dbCount, dbReason, groupLock, tick, stopping, ghost>>
      /\ UNCHANGED <<rows, firing, awaited, bounds>>
  BY DEF RetryFind, db
<1> HIDE DEF y
<1> QED
  BY <1>1, <1>3, <1>4, OpMove DEF BudgetInv, TypeOK, bounds

LEMMA RetryResolveInv ==
  ASSUME BudgetInv, NEW o \in Operator, RetryResolve(o)
  PROVE  BudgetInv'
<1> DEFINE y == [op[o] EXCEPT !.pc = "check"]
<1>1. op[o] \in OpRow /\ op[o].col \in Collector /\ ~stopping
  BY OpUnderWay DEF RetryResolve
<1>2. y \in OpRow /\ y.col = op[o].col
  BY <1>1 DEF OpRow, OpPCs
<1>3. /\ op' = [op EXCEPT ![o] = y] /\ firing' \subseteq Fingerprint
      /\ UNCHANGED <<budget, dbCount, dbReason, groupLock, tick, stopping, ghost>>
      /\ UNCHANGED <<rows, awaited, bounds>>
  BY DEF RetryResolve, BudgetInv, TypeOK
<1> HIDE DEF y
<1> QED
  BY <1>1, <1>2, <1>3, OpMove DEF BudgetInv, TypeOK, bounds

LEMMA RetryCheckInv ==
  ASSUME BudgetInv, NEW o \in Operator, RetryCheck(o)
  PROVE  BudgetInv'
<1> DEFINE p == IF quarantined[op[o].col] = None THEN "enqueue" ELSE "commit"
           y == [op[o] EXCEPT !.pc = p]
<1>1. op[o] \in OpRow /\ op[o].col \in Collector /\ ~stopping
  BY OpUnderWay DEF RetryCheck
<1>2. y \in OpRow /\ y.col = op[o].col
  BY <1>1 DEF OpRow, OpPCs
<1>3. /\ op' = [op EXCEPT ![o] = y]
      /\ UNCHANGED <<budget, dbCount, dbReason, groupLock, tick, stopping, ghost>>
      /\ UNCHANGED <<rows, firing, awaited, bounds>>
  BY DEF RetryCheck, db
<1> HIDE DEF y
<1> QED
  BY <1>1, <1>2, <1>3, OpMove DEF BudgetInv, TypeOK, bounds

\* A clear of the table row of c, which no counter survives.
LEMMA TableCleared ==
  ASSUME BudgetInv, NEW c \in Collector,
         dbCount' = [dbCount EXCEPT ![c] = 0],
         dbReason' = [dbReason EXCEPT ![c] = None],
         streak' = [streak EXCEPT ![c] = 0],
         UNCHANGED <<budget, groupLock, tick, stopping, earned>>
  PROVE  /\ dbCount' \in [Collector -> Nat] /\ dbReason' \in [Collector -> Reason \cup {None}]
         /\ streak' \in [Collector -> Nat]
         /\ TicksOK' /\ GroupsAreSerialized' /\ FailuresOK' /\ CountsOK'
<1>1. /\ dbCount' \in [Collector -> Nat] /\ dbReason' \in [Collector -> Reason \cup {None}]
      /\ streak' \in [Collector -> Nat]
  BY DEF BudgetInv, TypeOK
<1>2. dbCount'[c] = 0 /\ dbReason'[c] = None /\ streak'[c] = 0
  BY DEF BudgetInv, TypeOK
<1>3. \A d \in Collector \ {c} : dbCount'[d] = dbCount[d] /\ dbReason'[d] = dbReason[d]
                                 /\ streak'[d] = streak[d]
  BY DEF BudgetInv, TypeOK
<1>4. TicksOK' /\ GroupsAreSerialized'
  BY DEF BudgetInv, TicksOK, GroupsAreSerialized, LockOf
<1>5. FailuresOK'
  <2>1. ASSUME NEW j \in Tick, NEW d \in Collector, tick[j].col = d
        PROVE  FailureOK(tick[j], quarantined[d], streak'[d], earned[d], dbCount'[d], dbReason'[d])
    <3>0. FailureOK(tick[j], quarantined[d], streak[d], earned[d], dbCount[d], dbReason[d])
      BY <2>1 DEF BudgetInv, FailuresOK
    <3>1. CASE d = c
      <4>1. tick[j].new \in Nat /\ streak[d] \in Nat
        BY DEF BudgetInv, TypeOK, TickRow
      <4> QED
        BY <3>0, <3>1, <4>1, <1>2 DEF FailureOK, Recording
    <3>2. CASE d # c
      BY <3>0, <3>2, <1>3
    <3> QED
      BY <3>1, <3>2
  <2> QED
    BY <2>1 DEF FailuresOK, budget
<1>6. ASSUME NEW d \in Collector
      PROVE  /\ InStep(d)'
             /\ CountersOK(Threshold[d], streak'[d], earned[d], count[d], quarantined[d],
                           dbCount'[d], dbReason'[d])
  <2>0. InStep(d) /\ CountersOK(Threshold[d], streak[d], earned[d], count[d], quarantined[d],
                                dbCount[d], dbReason[d])
    BY DEF BudgetInv, CountsOK
  <2>1. CASE d = c
    <3>1. count[d] \in Nat /\ earned[d] \in Nat /\ count'[d] = count[d]
      BY DEF BudgetInv, TypeOK, budget
    <3>2. Threshold[d] \in Nat /\ Threshold[d] > 0
      BY ConstantsAssumption
    <3> QED
      BY <2>0, <2>1, <3>1, <3>2, <1>2 DEF InStep, CountersOK
  <2>2. CASE d # c
    BY <2>0, <2>2, <1>3 DEF InStep, AllIdle, budget
  <2> QED
    BY <2>1, <2>2
<1> QED
  BY <1>1, <1>4, <1>5, <1>6 DEF CountsOK, budget

LEMMA RetryCommitInv ==
  ASSUME BudgetInv, NEW o \in Operator, RetryCommit(o)
  PROVE  BudgetInv'
<1> DEFINE c == op[o].col
           y == [op[o] EXCEPT !.pc = "delete"]
<1>1. op[o] \in OpRow /\ c \in Collector /\ ~stopping
  BY OpUnderWay DEF RetryCommit
<1>2. y \in OpRow /\ y.col = c /\ y.pc = "delete"
  BY <1>1 DEF OpRow, OpPCs
<1>3. UNCHANGED <<budget, rows, firing, groupLock, tick, awaited, stopping, failures, crashes, cli>>
  BY DEF RetryCommit
<1>4. \/ /\ dbCount' = [dbCount EXCEPT ![c] = 0] /\ dbReason' = [dbReason EXCEPT ![c] = None]
         /\ streak' = [streak EXCEPT ![c] = 0] /\ op' = [op EXCEPT ![o] = y]
         /\ UNCHANGED <<earned, faults>>
      \/ /\ faults' = faults + 1 /\ op' = [op EXCEPT ![o] = NoOp]
         /\ UNCHANGED <<dbCount, dbReason, ghost>>
  BY DEF RetryCommit
<1> HIDE DEF c, y
<1>5. CASE /\ dbCount' = [dbCount EXCEPT ![c] = 0] /\ dbReason' = [dbReason EXCEPT ![c] = None]
           /\ streak' = [streak EXCEPT ![c] = 0] /\ op' = [op EXCEPT ![o] = y]
           /\ UNCHANGED <<earned, faults>>
  <2>1. /\ dbCount' \in [Collector -> Nat] /\ dbReason' \in [Collector -> Reason \cup {None}]
        /\ streak' \in [Collector -> Nat]
        /\ TicksOK' /\ GroupsAreSerialized' /\ FailuresOK' /\ CountsOK'
    BY <1>1, <1>3, <1>5, TableCleared
  <2>2. op' \in [Operator -> OpRow] /\ OpsOK'
    BY <1>1, <1>2, <1>3, <1>5 DEF BudgetInv, TypeOK, OpsOK
  <2>3. TypeOK'
    BY <1>3, <1>5, <2>1, <2>2 DEF BudgetInv, TypeOK, budget
  <2> QED
    BY <2>1, <2>2, <2>3 DEF BudgetInv
<1>6. CASE /\ faults' = faults + 1 /\ op' = [op EXCEPT ![o] = NoOp]
           /\ UNCHANGED <<dbCount, dbReason, ghost>>
  <2>1. NoOp \in OpRow /\ NoOp.pc = "idle" /\ faults' \in Nat /\ firing' \subseteq Fingerprint
    BY <1>3, <1>6, NoOpType DEF NoOp, BudgetInv, TypeOK
  <2> QED
    BY <1>3, <1>6, <2>1, OpMove
<1> QED
  BY <1>4, <1>5, <1>6

LEMMA RetryDeleteInv ==
  ASSUME BudgetInv, NEW o \in Operator, RetryDelete(o)
  PROVE  BudgetInv'
<1> DEFINE c == op[o].col
           y == [op[o] EXCEPT !.pc = "enqueue"]
<1>1. op[o] \in OpRow /\ c \in Collector /\ ~stopping
  BY OpUnderWay DEF RetryDelete
<1>2. y \in OpRow /\ y.col = c /\ y.pc = "enqueue"
  BY <1>1 DEF OpRow, OpPCs
<1>3. UNCHANGED <<dbCount, dbReason, rows, firing, groupLock, tick, awaited, stopping, bounds>>
  BY DEF RetryDelete, db
<1>4. CASE quarantined[c] = None
  <2>1. op' = [op EXCEPT ![o] = NoOp] /\ UNCHANGED <<budget, ghost>>
    BY <1>4 DEF RetryDelete
  <2>2. NoOp \in OpRow /\ NoOp.pc = "idle"
    BY NoOpType DEF NoOp
  <2> QED
    BY <1>3, <2>1, <2>2, OpMove DEF BudgetInv, TypeOK, bounds
<1>5. CASE quarantined[c] # None
  <2>1. /\ quarantined' = [quarantined EXCEPT ![c] = None] /\ count' = [count EXCEPT ![c] = 0]
        /\ streak' = [streak EXCEPT ![c] = 0] /\ earned' = [earned EXCEPT ![c] = 0]
        /\ op' = [op EXCEPT ![o] = y]
    BY <1>5 DEF RetryDelete
  <2> HIDE DEF c, y
  <2>2. TypeOK'
    <3>1. /\ count' \in [Collector -> Nat] /\ quarantined' \in [Collector -> Reason \cup {None}]
          /\ streak' \in [Collector -> Nat] /\ earned' \in [Collector -> Nat]
          /\ op' \in [Operator -> OpRow]
      BY <1>1, <1>2, <2>1 DEF BudgetInv, TypeOK
    <3> QED
      BY <1>3, <3>1 DEF BudgetInv, TypeOK, bounds
  <2>3. quarantined'[c] = None /\ count'[c] = 0 /\ streak'[c] = 0 /\ earned'[c] = 0
    BY <1>1, <2>1 DEF BudgetInv, TypeOK
  <2>4. \A d \in Collector \ {c} : /\ quarantined'[d] = quarantined[d] /\ count'[d] = count[d]
                                   /\ streak'[d] = streak[d] /\ earned'[d] = earned[d]
    BY <1>1, <2>1 DEF BudgetInv, TypeOK
  <2>5. \A j \in Tick : tick[j].col = c => tick[j].pc \notin Recording
    BY <1>1, <1>5 DEF BudgetInv, FailuresOK, FailureOK
  <2>6. FailuresOK'
    <3>1. ASSUME NEW j \in Tick, NEW d \in Collector, tick[j].col = d
          PROVE  FailureOK(tick[j], quarantined'[d], streak'[d], earned'[d], dbCount[d], dbReason[d])
      <4>1. CASE d = c
        BY <3>1, <4>1, <2>5 DEF FailureOK, Recording
      <4>2. CASE d # c
        BY <3>1, <4>2, <2>4 DEF BudgetInv, FailuresOK
      <4> QED
        BY <4>1, <4>2
    <3> QED
      BY <3>1, <1>3 DEF FailuresOK
  <2>7. ASSUME NEW d \in Collector
        PROVE  /\ InStep(d)'
               /\ CountersOK(Threshold[d], streak'[d], earned'[d], count'[d], quarantined'[d],
                             dbCount[d], dbReason[d])
    <3>0. InStep(d) /\ CountersOK(Threshold[d], streak[d], earned[d], count[d], quarantined[d],
                                  dbCount[d], dbReason[d])
      BY DEF BudgetInv, CountsOK
    <3>1. CASE d = c
      <4>1. dbCount[d] \in Nat /\ Threshold[d] \in Nat /\ Threshold[d] > 0
        BY ConstantsAssumption DEF BudgetInv, TypeOK
      <4> QED
        BY <3>0, <3>1, <4>1, <1>5, <2>3 DEF InStep, CountersOK
    <3>2. CASE d # c
      BY <3>0, <3>2, <1>3, <2>4 DEF InStep, AllIdle
    <3> QED
      BY <3>1, <3>2
  <2>8. CountsOK'
    BY <1>3, <2>7 DEF CountsOK
  <2>9. TicksOK' /\ GroupsAreSerialized'
    BY <1>3 DEF BudgetInv, TicksOK, GroupsAreSerialized, LockOf
  <2>10. OpsOK'
    BY <1>1, <1>2, <1>3, <2>1 DEF BudgetInv, TypeOK, OpsOK
  <2> QED
    BY <2>2, <2>6, <2>8, <2>9, <2>10 DEF BudgetInv
<1> QED
  BY <1>4, <1>5

LEMMA CliInv ==
  ASSUME BudgetInv, NEW c \in Collector, CliUnquarantine(c)
  PROVE  BudgetInv'
<1>1. /\ dbCount' = [dbCount EXCEPT ![c] = 0] /\ dbReason' = [dbReason EXCEPT ![c] = None]
      /\ streak' = [streak EXCEPT ![c] = 0] /\ cli' = cli + 1
      /\ UNCHANGED <<budget, groupLock, tick, stopping, earned>>
      /\ UNCHANGED <<rows, firing, awaited, op, failures, faults, crashes>>
  BY DEF CliUnquarantine
<1>2. /\ dbCount' \in [Collector -> Nat] /\ dbReason' \in [Collector -> Reason \cup {None}]
      /\ streak' \in [Collector -> Nat]
      /\ TicksOK' /\ GroupsAreSerialized' /\ FailuresOK' /\ CountsOK'
  BY <1>1, TableCleared
<1>3. TypeOK'
  BY <1>1, <1>2 DEF BudgetInv, TypeOK, budget
<1> QED
  BY <1>1, <1>2, <1>3, OpsUnchanged DEF BudgetInv

LEMMA RestartInv ==
  ASSUME BudgetInv, Restart
  PROVE  BudgetInv'
<1>1. /\ tick' \in [Tick -> TickRow] /\ \A k \in Tick : tick'[k] = NoTick
      /\ op' \in [Operator -> OpRow] /\ \A o \in Operator : op'[o] = NoOp
  BY NoTickType, NoOpType DEF Restart
<1>2. /\ count' \in [Collector -> Nat] /\ quarantined' \in [Collector -> Reason \cup {None}]
      /\ dbCount' \in [Collector -> Nat] /\ dbReason' \in [Collector -> Reason \cup {None}]
      /\ streak' \in [Collector -> Nat] /\ earned' \in [Collector -> Nat]
  BY DEF Restart, LoadedCount, BudgetInv, TypeOK
<1>3. TypeOK'
  <2>1. /\ groupLock' \in [{Group[c] : c \in Collector} -> Tick \cup {None}]
        /\ awaited' = {} /\ stopping' = FALSE /\ crashes' \in Nat
        /\ UNCHANGED <<rows, firing, failures, faults, cli>>
    BY DEF Restart, BudgetInv, TypeOK
  <2> QED
    BY <1>1, <1>2, <2>1 DEF BudgetInv, TypeOK
<1>4. TicksOK' /\ OpsOK' /\ GroupsAreSerialized' /\ FailuresOK'
  BY <1>1 DEF TicksOK, OpsOK, GroupsAreSerialized, FailuresOK, FailureOK, NoTick, NoOp, Recording
<1>5. ASSUME NEW d \in Collector
      PROVE  /\ InStep(d)'
             /\ CountersOK(Threshold[d], streak'[d], earned'[d], count'[d], quarantined'[d],
                           dbCount'[d], dbReason'[d])
  <2>1. /\ streak[d] \in Nat /\ earned[d] \in Nat /\ dbCount[d] \in Nat
        /\ Threshold[d] \in Nat /\ Threshold[d] > 0
    BY ConstantsAssumption DEF BudgetInv, TypeOK
  <2>2. CountersOK(Threshold[d], streak[d], earned[d], count[d], quarantined[d],
                   dbCount[d], dbReason[d])
    BY DEF BudgetInv, CountsOK
  <2>3. quarantined'[d] = None /\ dbReason'[d] = None
    BY DEF Restart
  <2>4. CASE dbReason[d] # None
    <3>1. streak'[d] = 0 /\ earned'[d] = 0 /\ count'[d] = 0 /\ dbCount'[d] = 0
      BY <2>4 DEF Restart
    <3> QED
      BY <2>1, <2>3, <3>1 DEF InStep, CountersOK
  <2>5. CASE dbReason[d] = None
    <3>1. /\ streak'[d] = streak[d] /\ earned'[d] = earned[d]
          /\ count'[d] = dbCount[d] /\ dbCount'[d] = dbCount[d]
      BY <2>5 DEF Restart, LoadedCount
    <3> QED
      BY <2>1, <2>2, <2>3, <2>5, <3>1 DEF InStep, CountersOK
  <2> QED
    BY <2>4, <2>5
<1> QED
  BY <1>3, <1>4, <1>5 DEF BudgetInv, CountsOK

LEMMA StutterInv ==
  ASSUME BudgetInv, UNCHANGED vars
  PROVE  BudgetInv'
<1>1. /\ UNCHANGED <<budget, dbCount, dbReason, groupLock, tick, stopping, ghost>>
      /\ UNCHANGED <<rows, firing, awaited, op, stopping, bounds>>
  BY DEF vars, db
<1>2. TicksOK' /\ GroupsAreSerialized' /\ FailuresOK' /\ CountsOK'
  BY <1>1, OpStepKeeps
<1> QED
  BY <1>1, <1>2, OpsUnchanged DEF BudgetInv, TypeOK, budget, ghost, bounds

LEMMA NextBudget == BudgetInv /\ [Next]_vars => BudgetInv'
<1> SUFFICES ASSUME BudgetInv, [Next]_vars PROVE BudgetInv'
  OBVIOUS
<1>1. ASSUME NEW k \in Tick, TickStep(k) PROVE BudgetInv'
  <2>1. CASE \E r \in Reason : RunFails(k, r)
    BY <2>1, RunFailsInv
  <2> QED
    BY <1>1, <2>1, StartImmediateInv, GateInv, AcquireLockInv, LockTimeoutInv, RunSucceedsInv,
       CommitFailureInv, RecordFailureInv, FindActiveInv, EmitAlertInv, TickFaultInv
       DEF TickStep
<1>2. ASSUME NEW o \in Operator, OpStep(o) PROVE BudgetInv'
  <2>1. CASE \E k \in Tick : RetryEnqueue(o, k)
    BY <2>1, RetryEnqueueInv
  <2> QED
    BY <1>2, <2>1, RetryFindInv, RetryResolveInv, RetryCheckInv, RetryCommitInv, RetryDeleteInv
       DEF OpStep
<1>3. ASSUME NEW k \in Tick, NEW c \in Collector, RequestRun(k, c) \/ StartScheduled(k, c)
      PROVE  BudgetInv'
  BY <1>3, RequestRunInv, StartScheduledInv
<1>4. ASSUME NEW k \in Tick, AwaitTimeout(k) PROVE BudgetInv'
  BY <1>4, AwaitTimeoutInv
<1>5. ASSUME NEW o \in Operator, NEW c \in Collector, Retry(o, c) PROVE BudgetInv'
  BY <1>5, RetryInv
<1>6. ASSUME NEW c \in Collector, CliUnquarantine(c) PROVE BudgetInv'
  BY <1>6, CliInv
<1> QED
  BY <1>1, <1>2, <1>3, <1>4, <1>5, <1>6, StopInv, CancelTicksInv, RestartInv, StutterInv DEF Next

\* The invariant of the failure budget holds in every reachable state.
THEOREM BudgetInvariant == Spec => []BudgetInv
<1>1. Init => BudgetInv
  BY InitBudget
<1>2. BudgetInv /\ [Next]_vars => BudgetInv'
  BY NextBudget
<1> QED
  BY <1>1, <1>2, PTL DEF Spec

\* Type correctness: tick and retry tasks, tables and counters of the scheduler
\* keep their types.
THEOREM SchedulerTypes == Spec => []TypeOK
<1>1. BudgetInv => TypeOK
  BY DEF BudgetInv
<1> QED
  BY <1>1, BudgetInvariant, PTL

\* The asyncio lock of a concurrency group serializes its collectors.
THEOREM GroupSerialization == Spec => []GroupsAreSerialized
<1>1. BudgetInv => GroupsAreSerialized
  BY DEF BudgetInv
<1> QED
  BY <1>1, BudgetInvariant, PTL

\* The counters of record_failure, in the table and in memory, are never behind
\* the consecutive failures that were recorded.
THEOREM FailuresRemembered == Spec => []NoFailureForgotten
<1>1. BudgetInv => NoFailureForgotten
  BY DEF BudgetInv, CountsOK, CountersOK, InStep, NoFailureForgotten, Unrecorded
<1> QED
  BY <1>1, BudgetInvariant, PTL

\* A collector that failed Threshold times in a row is quarantined.
THEOREM ChronicFailuresStop == Spec => []ChronicFailureIsQuarantined
<1>1. BudgetInv => ChronicFailureIsQuarantined
  <2> SUFFICES ASSUME BudgetInv, NEW c \in Collector, ~Unrecorded(c), streak[c] >= Threshold[c]
               PROVE  quarantined[c] # None
    BY DEF ChronicFailureIsQuarantined
  <2>1. streak[c] <= count[c]
    BY DEF BudgetInv, CountsOK, InStep, Unrecorded
  <2>2. count[c] >= Threshold[c]
    BY <2>1, ConstantsAssumption DEF BudgetInv, TypeOK
  <2> QED
    BY <2>2 DEF BudgetInv, CountsOK, CountersOK
<1> QED
  BY <1>1, BudgetInvariant, PTL

\* A quarantine has Threshold recorded failures behind it, and the counter of a
\* quarantined collector shows them.
THEOREM QuarantinesEarned == Spec => []QuarantineIsEarned
<1>1. BudgetInv => QuarantineIsEarned
  <2> SUFFICES ASSUME BudgetInv, NEW c \in Collector, quarantined[c] # None
               PROVE  earned[c] >= Threshold[c] /\ count[c] >= Threshold[c]
    BY DEF QuarantineIsEarned
  <2>1. count[c] >= Threshold[c] /\ count[c] <= earned[c]
    BY DEF BudgetInv, CountsOK, CountersOK
  <2> QED
    BY <2>1, ConstantsAssumption DEF BudgetInv, TypeOK
<1> QED
  BY <1>1, BudgetInvariant, PTL

----------------------------------------------------------------------------
(* The announcement.  The tick that quarantines a collector emits the alert   *)
(* in later steps, and until then the group lock keeps every other tick of    *)
(* the collector out.  A retry that resolves the alert, or one that the tick  *)
(* has already found, goes on to clear the quarantine.                        *)

Emitting(k) == tick[k].pc \in {"find", "emit"}

\* A retry is clearing the quarantine of c.
Clearing(c) ==
    \E o \in Operator : op[o].pc \in {"check", "commit", "delete"} /\ op[o].col = c

\* The quarantine of c for reason r needs no new alert.
Covered(c, r) == stopping \/ faults > 0 \/ <<c, r>> \in firing \/ Clearing(c)

\* What tick k emits is for the quarantine that its collector is in, and an alert
\* that it found is not resolved without a clear.
EmissionOK(k) ==
    Emitting(k) => LET q == quarantined[tick[k].col] IN
        q # None => /\ q = tick[k].reason
                    /\ tick[k].pc = "emit" /\ tick[k].row # 0 => Covered(tick[k].col, q)

Announced(c) ==
    quarantined[c] # None =>
        Covered(c, quarantined[c]) \/ \E k \in Tick : Emitting(k) /\ tick[k].col = c

AlertsOK == (\A k \in Tick : EmissionOK(k)) /\ (\A c \in Collector : Announced(c))

\* The inductive invariant of the quarantine alerts.
AlertInv == BudgetInv /\ AlertsOK

\* A step that quarantines nobody and leaves the emitting ticks alone.
LEMMA QuietAlerts ==
  ASSUME AlertInv,
         \A c \in Collector : quarantined'[c] \in {quarantined[c], None},
         \A c \in Collector : \A r : quarantined'[c] # None /\ Covered(c, r) => Covered(c, r)',
         \A k \in Tick : /\ Emitting(k)' => Emitting(k)
                         /\ Emitting(k) => tick'[k] = tick[k]
  PROVE  AlertsOK'
<1>1. ASSUME NEW k \in Tick PROVE EmissionOK(k)'
  <2> SUFFICES ASSUME Emitting(k)', quarantined'[tick'[k].col] # None
               PROVE  /\ quarantined'[tick'[k].col] = tick'[k].reason
                      /\ tick'[k].pc = "emit" /\ tick'[k].row # 0
                            => Covered(tick[k].col, quarantined[tick[k].col])'
    BY DEF EmissionOK
  <2>1. /\ Emitting(k) /\ tick'[k] = tick[k] /\ tick[k].col \in Collector /\ EmissionOK(k)
    BY DEF AlertInv, AlertsOK, BudgetInv, TicksOK, Emitting
  <2>2. quarantined'[tick[k].col] = quarantined[tick[k].col]
    BY <2>1
  <2>3. ASSUME tick[k].pc = "emit", tick[k].row # 0
        PROVE  Covered(tick[k].col, quarantined[tick[k].col])'
    <3>1. Covered(tick[k].col, quarantined[tick[k].col])
      BY <2>1, <2>2, <2>3 DEF EmissionOK
    <3> QED
      BY <2>1, <2>2, <3>1 DEF Covered, Clearing
  <2> QED
    BY <2>1, <2>2, <2>3 DEF EmissionOK
<1>2. ASSUME NEW c \in Collector PROVE Announced(c)'
  <2> SUFFICES ASSUME quarantined'[c] # None
               PROVE  Covered(c, quarantined[c])' \/ \E k \in Tick : Emitting(k)' /\ tick'[k].col = c
    BY DEF Announced
  <2>1. quarantined'[c] = quarantined[c] /\ Announced(c)
    BY DEF AlertInv, AlertsOK
  <2>2. CASE Covered(c, quarantined[c])
    BY <2>1, <2>2 DEF Covered, Clearing
  <2>3. CASE \E k \in Tick : Emitting(k) /\ tick[k].col = c
    BY <2>3 DEF Emitting
  <2> QED
    BY <2>1, <2>2, <2>3 DEF Announced
<1> QED
  BY <1>1, <1>2 DEF AlertsOK

\* A step of an idle, queued or recording tick that quarantines nobody.
LEMMA TickAlerts ==
  ASSUME AlertInv, NEW k \in Tick, ~Emitting(k), ~Emitting(k)',
         \A j \in Tick \ {k} : tick'[j] = tick[j],
         UNCHANGED <<quarantined, op, firing, stopping, faults>>
  PROVE  AlertsOK'
<1>1. \A j \in Tick : /\ Emitting(j)' => Emitting(j)
                      /\ Emitting(j) => tick'[j] = tick[j]
  BY DEF Emitting
<1>2. \A c, r : Covered(c, r) => Covered(c, r)'
  BY DEF Covered, Clearing
<1> QED
  BY <1>1, <1>2, QuietAlerts

\* A step of a retry to locals y.
LEMMA OpAlerts ==
  ASSUME AlertInv, NEW o \in Operator, NEW y,
         op' = [op EXCEPT ![o] = y],
         op[o].pc \in {"check", "commit", "delete"} =>
            \/ y.pc \in {"check", "commit", "delete"} /\ y.col = op[o].col
            \/ quarantined'[op[o].col] = None \/ faults' > 0,
         \A f \in firing \ firing' : y.pc = "check" /\ y.col = f[1],
         \A c \in Collector : quarantined'[c] \in {quarantined[c], None},
         \A k \in Tick : (~Emitting(k) /\ ~Emitting(k)') \/ tick'[k] = tick[k],
         stopping' = stopping, faults' \in {faults, faults + 1}
  PROVE  AlertsOK'
<1>1. ASSUME NEW c \in Collector, NEW r, quarantined'[c] # None, Covered(c, r)
      PROVE  Covered(c, r)'
  <2>1. op'[o] = y /\ \A p \in Operator \ {o} : op'[p] = op[p]
    BY DEF AlertInv, BudgetInv, TypeOK
  <2>2. faults \in Nat
    BY DEF AlertInv, BudgetInv, TypeOK
  <2>3. CASE stopping \/ faults > 0
    BY <2>2, <2>3 DEF Covered
  <2>4. CASE <<c, r>> \in firing
    <3>1. CASE <<c, r>> \in firing'
      BY <3>1 DEF Covered
    <3>2. CASE <<c, r>> \notin firing'
      <4>1. y.pc = "check" /\ y.col = c
        BY <2>4, <3>2
      <4> QED
        BY <2>1, <4>1 DEF Covered, Clearing
    <3> QED
      BY <3>1, <3>2
  <2>5. CASE Clearing(c)
    <3>1. PICK p \in Operator : op[p].pc \in {"check", "commit", "delete"} /\ op[p].col = c
      BY <2>5 DEF Clearing
    <3>2. CASE p # o
      BY <2>1, <3>1, <3>2 DEF Covered, Clearing
    <3>3. CASE p = o
      BY <1>1, <2>1, <3>1, <3>3 DEF Covered, Clearing
    <3> QED
      BY <3>2, <3>3
  <2> QED
    BY <1>1, <2>3, <2>4, <2>5 DEF Covered
<1>2. \A k \in Tick : (Emitting(k)' => Emitting(k)) /\ (Emitting(k) => tick'[k] = tick[k])
  BY DEF Emitting
<1> QED
  BY <1>1, <1>2, QuietAlerts

\* Where tick k is after a step of its own, and where the others are.
LEMMA TickTo ==
  ASSUME BudgetInv, NEW k \in Tick, NEW x, tick' = [tick EXCEPT ![k] = x]
  PROVE  tick'[k] = x /\ \A j \in Tick \ {k} : tick'[j] = tick[j]
  BY DEF BudgetInv, TypeOK

\* The steps of a tick before it quarantines.
LEMMA EarlyAlerts ==
  ASSUME AlertInv, NEW k \in Tick,
         \/ StartImmediate(k) \/ Gate(k) \/ AcquireLock(k) \/ LockTimeout(k) \/ RunSucceeds(k)
         \/ (\E r \in Reason : RunFails(k, r)) \/ CommitFailure(k) \/ AwaitTimeout(k)
         \/ \E c \in Collector : RequestRun(k, c) \/ StartScheduled(k, c)
  PROVE  AlertsOK'
<1>1. tick[k] \in TickRow
  BY DEF AlertInv, BudgetInv, TypeOK
<1>2. CASE AwaitTimeout(k)
  <2>1. \A c, r : Covered(c, r) => Covered(c, r)'
    BY <1>2 DEF AwaitTimeout, Covered, Clearing, db, bounds
  <2> QED
    BY <1>2, <2>1, QuietAlerts DEF AwaitTimeout, budget, Emitting
<1>3. CASE ~AwaitTimeout(k)
  <2>1. UNCHANGED <<quarantined, op, firing, stopping, faults>> /\ ~Emitting(k)
    BY <1>3 DEF StartImmediate, Gate, AcquireLock, LockTimeout, RunSucceeds, RunFails, CommitFailure,
                RequestRun, StartScheduled, Free, Emitting, budget, db, bounds
  <2>2. ~Emitting(k)' /\ \A j \in Tick \ {k} : tick'[j] = tick[j]
    <3> USE DEF AlertInv, BudgetInv, TypeOK, TickRow, Emitting
    <3>1. CASE StartImmediate(k) \/ AcquireLock(k) \/ CommitFailure(k)
      BY <3>1 DEF StartImmediate, AcquireLock, CommitFailure
    <3>2. CASE EndTick(k)
      BY <3>2, TickTo DEF EndTick, NoTick
    <3>3. ASSUME NEW r \in Reason, RunFails(k, r), ~EndTick(k)
          PROVE  ~Emitting(k)' /\ \A j \in Tick \ {k} : tick'[j] = tick[j]
      <4>1. PICK n : tick' = [tick EXCEPT ![k] = [@ EXCEPT !.pc = "fail", !.reason = r, !.new = n]]
        BY <3>3 DEF RunFails
      <4> QED
        BY <4>1
    <3>4. ASSUME NEW c \in Collector, RequestRun(k, c) \/ StartScheduled(k, c)
          PROVE  ~Emitting(k)' /\ \A j \in Tick \ {k} : tick'[j] = tick[j]
      <4>1. PICK p \in {"queued", "gate"} : tick' = [tick EXCEPT ![k] = [NoTick EXCEPT !.pc = p, !.col = c]]
        BY <3>4 DEF RequestRun, StartScheduled, Enqueue
      <4>2. [NoTick EXCEPT !.pc = p, !.col = c].pc = p
        BY NewTick
      <4> QED
        BY <4>1, <4>2
    <3>5. CASE Gate(k) /\ ~EndTick(k)
      BY <3>5 DEF Gate
    <3> QED
      BY <1>3, <3>1, <3>2, <3>3, <3>4, <3>5 DEF LockTimeout, RunSucceeds
  <2> QED
    BY <2>1, <2>2, TickAlerts
<1> QED
  BY <1>2, <1>3

\* Below the threshold nobody is quarantined; at the threshold the tick goes on to
\* emit the alert, and it is the only tick of its collector past the lock.
LEMMA RecordFailureAlerts ==
  ASSUME AlertInv, NEW k \in Tick, RecordFailure(k)
  PROVE  AlertsOK'
<1> DEFINE c == tick[k].col
<1>1. /\ tick[k] \in TickRow /\ tick[k].pc = "failed" /\ c \in Collector
      /\ UNCHANGED <<op, firing, stopping, faults>>
  BY DEF RecordFailure, AlertInv, BudgetInv, TypeOK, TicksOK, db, bounds
<1>2. CASE EndTick(k) /\ UNCHANGED quarantined
  BY <1>1, <1>2, TickTo, TickAlerts DEF EndTick, NoTick, AlertInv, Emitting
<1>3. CASE /\ quarantined' = [quarantined EXCEPT ![c] = tick[k].reason]
           /\ tick' = [tick EXCEPT ![k].pc = "find"]
  <2>1. /\ tick'[k].pc = "find" /\ tick'[k].col = c /\ tick'[k].reason = tick[k].reason
        /\ \A j \in Tick \ {k} : tick'[j] = tick[j]
    BY <1>1, <1>3 DEF TickRow, AlertInv, BudgetInv, TypeOK
  <2>2. /\ quarantined'[c] = tick[k].reason
        /\ \A d \in Collector \ {c} : quarantined'[d] = quarantined[d]
    BY <1>1, <1>3 DEF AlertInv, BudgetInv, TypeOK
  <2>3. \A d, r : Covered(d, r)' <=> Covered(d, r)
    BY <1>1 DEF Covered, Clearing
  <2>4. ASSUME NEW j \in Tick PROVE EmissionOK(j)'
    <3>1. CASE j = k
      BY <2>1, <2>2, <3>1 DEF EmissionOK
    <3>2. CASE j # k /\ Emitting(j)
      <4>1. tick[j].col # c /\ tick[j].col \in Collector
        BY <1>1, <3>2, Exclusive DEF AlertInv, BudgetInv, TicksOK, Emitting
      <4>2. tick'[j] = tick[j] /\ quarantined'[tick[j].col] = quarantined[tick[j].col]
        BY <2>1, <2>2, <3>2, <4>1
      <4>3. EmissionOK(j)
        BY DEF AlertInv, AlertsOK
      <4> QED
        BY <1>1, <4>2, <4>3, <2>3 DEF EmissionOK, Emitting, Covered, Clearing
    <3>3. CASE j # k /\ ~Emitting(j)
      BY <2>1, <3>3 DEF EmissionOK, Emitting
    <3> QED
      BY <3>1, <3>2, <3>3
  <2>5. ASSUME NEW d \in Collector PROVE Announced(d)'
    <3>1. CASE d = c
      BY <2>1, <3>1 DEF Announced, Emitting
    <3>2. CASE d # c
      <4>1. Announced(d) /\ quarantined'[d] = quarantined[d]
        BY <2>2, <3>2 DEF AlertInv, AlertsOK
      <4>2. \A j \in Tick : Emitting(j) => Emitting(j)' /\ tick'[j] = tick[j]
        BY <1>1, <2>1 DEF Emitting
      <4> QED
        BY <1>1, <4>1, <4>2 DEF Announced, Covered, Clearing
    <3> QED
      BY <3>1, <3>2
  <2> QED
    BY <2>4, <2>5 DEF AlertsOK
<1> QED
  BY <1>2, <1>3 DEF RecordFailure

LEMMA FindActiveAlerts ==
  ASSUME AlertInv, NEW k \in Tick, FindActive(k)
  PROVE  AlertsOK'
<1> DEFINE c == tick[k].col
           f == <<c, tick[k].reason>>
<1>1. /\ tick[k] \in TickRow /\ tick[k].pc = "find"
      /\ UNCHANGED <<quarantined, op, firing, stopping, faults>>
  BY DEF FindActive, AlertInv, BudgetInv, TypeOK, budget, db, bounds
<1>2. /\ tick'[k].pc = "emit" /\ tick'[k].col = c /\ tick'[k].reason = tick[k].reason
      /\ tick'[k].row = ActiveRow(f)
      /\ \A j \in Tick \ {k} : tick'[j] = tick[j]
  BY <1>1 DEF FindActive, TickRow, AlertInv, BudgetInv, TypeOK
<1>3. \A d, r : Covered(d, r)' <=> Covered(d, r)
  BY <1>1 DEF Covered, Clearing
<1>4. ASSUME NEW j \in Tick PROVE EmissionOK(j)'
  <2>0. EmissionOK(j)
    BY DEF AlertInv, AlertsOK
  <2>1. CASE j = k
    <3>1. Emitting(k) /\ (ActiveRow(f) # 0 => f \in firing)
      BY <1>1 DEF Emitting, ActiveRow
    <3> QED
      BY <1>1, <1>2, <2>0, <2>1, <3>1 DEF EmissionOK, Covered
  <2>2. CASE j # k
    BY <1>1, <1>2, <2>0, <2>2 DEF EmissionOK, Emitting, Covered, Clearing
  <2> QED
    BY <2>1, <2>2
<1>5. ASSUME NEW d \in Collector PROVE Announced(d)'
  <2>1. Announced(d)
    BY DEF AlertInv, AlertsOK
  <2>2. \A j \in Tick : Emitting(j) => Emitting(j)' /\ tick'[j].col = tick[j].col
    BY <1>2 DEF Emitting
  <2> QED
    BY <1>1, <2>1, <2>2 DEF Announced, Covered, Clearing
<1> QED
  BY <1>4, <1>5 DEF AlertsOK

\* The alert is there when the tick ends, or a retry that resolved it is clearing
\* the quarantine.
LEMMA EmitAlertAlerts ==
  ASSUME AlertInv, NEW k \in Tick, EmitAlert(k)
  PROVE  AlertsOK'
<1> DEFINE c == tick[k].col
           f == <<c, tick[k].reason>>
<1>1. /\ tick[k] \in TickRow /\ tick[k].pc = "emit" /\ Emitting(k) /\ firing \subseteq firing'
      /\ UNCHANGED <<quarantined, op, stopping, faults>>
  BY DEF EmitAlert, AlertInv, BudgetInv, TypeOK, budget, bounds, Emitting
<1>2. ~Emitting(k)' /\ \A j \in Tick \ {k} : tick'[j] = tick[j]
  <2>1. tick' = [tick EXCEPT ![k] = NoTick] /\ NoTick.pc = "idle"
    BY DEF EmitAlert, EndTick, NoTick
  <2> QED
    BY <2>1, TickTo DEF AlertInv, Emitting
<1>3. \A d, r : Covered(d, r) => Covered(d, r)'
  BY <1>1 DEF Covered, Clearing
<1>4. ASSUME NEW d \in Collector, d = c, quarantined[d] # None PROVE Covered(d, quarantined[d])'
  <2>1. /\ quarantined[d] = tick[k].reason
        /\ tick[k].row # 0 => Covered(d, quarantined[d])
    BY <1>1, <1>4 DEF AlertInv, AlertsOK, EmissionOK
  <2>2. tick[k].row = 0 => <<d, quarantined[d]>> \in firing'
    BY <1>4, <2>1 DEF EmitAlert
  <2> QED
    BY <1>1, <2>1, <2>2 DEF Covered, Clearing
<1>5. ASSUME NEW j \in Tick PROVE EmissionOK(j)'
  <2>1. EmissionOK(j)
    BY DEF AlertInv, AlertsOK
  <2> QED
    BY <1>1, <1>2, <2>1 DEF EmissionOK, Emitting, Covered, Clearing
<1>6. ASSUME NEW d \in Collector PROVE Announced(d)'
  <2>1. Announced(d)
    BY DEF AlertInv, AlertsOK
  <2>2. \A j \in Tick \ {k} : Emitting(j) => Emitting(j)' /\ tick'[j].col = tick[j].col
    BY <1>2 DEF Emitting
  <2> QED
    BY <1>1, <1>4, <2>1, <2>2 DEF Announced, Covered, Clearing
<1> QED
  BY <1>5, <1>6 DEF AlertsOK

\* A transaction that raises, stop() and a restart excuse what is missing.
LEMMA ExcusedAlerts ==
  ASSUME AlertInv,
         stopping' \/ faults' > 0 \/ \A c \in Collector : quarantined'[c] = None,
         UNCHANGED quarantined \/ \A c \in Collector : quarantined'[c] = None,
         \A k \in Tick : tick'[k] \in {tick[k], NoTick}
  PROVE  AlertsOK'
<1>1. ASSUME NEW k \in Tick PROVE EmissionOK(k)'
  <2> SUFFICES ASSUME Emitting(k)', quarantined'[tick'[k].col] # None
               PROVE  quarantined'[tick'[k].col] = tick'[k].reason /\ (stopping' \/ faults' > 0)
    BY DEF EmissionOK, Covered
  <2>1. tick'[k] = tick[k] /\ tick[k].col \in Collector /\ Emitting(k)
    BY DEF Emitting, NoTick, AlertInv, BudgetInv, TicksOK
  <2> QED
    BY <2>1 DEF AlertInv, AlertsOK, EmissionOK
<1>2. ASSUME NEW c \in Collector PROVE Announced(c)'
  BY DEF Announced, Covered
<1> QED
  BY <1>1, <1>2 DEF AlertsOK

\* The steps of a retry.
LEMMA RetryAlerts ==
  ASSUME AlertInv, NEW o \in Operator, OpStep(o) \/ \E c \in Collector : Retry(o, c)
  PROVE  AlertsOK'
<1> DEFINE y == op'[o]
<1>1. op[o] \in OpRow /\ op \in [Operator -> OpRow] /\ NoOp.pc = "idle"
  BY DEF AlertInv, BudgetInv, TypeOK, NoOp
<1>2. CASE \E c \in Collector : Retry(o, c)
  <2>1. op' = [op EXCEPT ![o] = y] /\ op[o].pc = "idle"
    BY <1>1, <1>2 DEF Retry
  <2>2. UNCHANGED <<quarantined, firing, tick, stopping, faults>>
    BY <1>2 DEF Retry, budget, db, bounds
  <2> QED
    BY <2>1, <2>2, OpAlerts
<1>3. CASE RetryFind(o)
  <2> DEFINE n == ActiveRow(<<op[o].col, op[o].reason>>)
             z == [op[o] EXCEPT !.pc = IF n # 0 THEN "resolve" ELSE "check", !.row = n]
  <2>1. op' = [op EXCEPT ![o] = z] /\ op[o].pc = "find"
    BY <1>3 DEF RetryFind
  <2> HIDE DEF z
  <2>2. UNCHANGED <<quarantined, firing, tick, stopping, faults>>
    BY <1>3 DEF RetryFind, budget, db, bounds
  <2> QED
    BY <2>1, <2>2, OpAlerts
<1>4. CASE RetryResolve(o)
  <2>1. op' = [op EXCEPT ![o] = y] /\ op[o].pc = "resolve" /\ y.pc = "check" /\ y.col = op[o].col
    BY <1>1, <1>4 DEF RetryResolve, OpRow
  <2>2. UNCHANGED <<quarantined, tick, stopping, faults>>
    BY <1>4 DEF RetryResolve, budget, bounds
  <2>3. \A f \in firing \ firing' : f = <<op[o].col, op[o].reason>>
    BY <1>4 DEF RetryResolve
  <2> HIDE DEF y
  <2>4. \A f \in firing \ firing' : y.pc = "check" /\ y.col = f[1]
    BY <2>1, <2>3
  <2> QED
    BY <2>1, <2>2, <2>4, OpAlerts
<1>5. CASE RetryCheck(o)
  <2>1. /\ op' = [op EXCEPT ![o] = y] /\ op[o].pc = "check" /\ y.col = op[o].col
        /\ y.pc = "commit" \/ quarantined[op[o].col] = None
    <3> DEFINE p == IF quarantined[op[o].col] = None THEN "enqueue" ELSE "commit"
    <3>1. op' = [op EXCEPT ![o] = [op[o] EXCEPT !.pc = p]] /\ op[o].pc = "check"
      BY <1>5 DEF RetryCheck
    <3>2. p = "commit" \/ quarantined[op[o].col] = None
      OBVIOUS
    <3> HIDE DEF p
    <3> QED
      BY <1>1, <3>1, <3>2 DEF OpRow
  <2>2. UNCHANGED <<quarantined, firing, tick, stopping, faults>>
    BY <1>5 DEF RetryCheck, budget, db, bounds
  <2> HIDE DEF y
  <2> QED
    BY <2>1, <2>2, OpAlerts
<1>6. CASE RetryCommit(o)
  <2>1. UNCHANGED <<quarantined, firing, tick, stopping>>
    BY <1>6 DEF RetryCommit, budget
  <2>2. CASE op' = [op EXCEPT ![o].pc = "delete"] /\ UNCHANGED faults
    <3>1. op' = [op EXCEPT ![o] = y] /\ y.pc = "delete" /\ y.col = op[o].col
      BY <1>1, <2>2 DEF OpRow
    <3> HIDE DEF y
    <3> QED
      BY <2>1, <2>2, <3>1, OpAlerts
  <2>3. CASE faults' = faults + 1
    <3>1. faults' > 0
      BY <2>3 DEF AlertInv, BudgetInv, TypeOK
    <3> QED
      BY <2>1, <3>1, ExcusedAlerts
  <2> QED
    BY <1>6, <2>2, <2>3 DEF RetryCommit
<1>7. CASE RetryDelete(o)
  <2>1. UNCHANGED <<firing, tick, stopping, faults>>
    BY <1>7 DEF RetryDelete, db, bounds
  <2>2. op' = [op EXCEPT ![o] = y]
    BY <1>1, <1>7 DEF RetryDelete
  <2>3. /\ quarantined'[op[o].col] = None
        /\ \A c \in Collector : quarantined'[c] \in {quarantined[c], None}
    BY <1>7, OpUnderWay DEF RetryDelete, AlertInv, BudgetInv, TypeOK, budget
  <2> HIDE DEF y
  <2> QED
    BY <2>1, <2>2, <2>3, OpAlerts
<1>8. ASSUME NEW k \in Tick, RetryEnqueue(o, k) PROVE AlertsOK'
  <2>1. op' = [op EXCEPT ![o] = y] /\ op[o].pc = "enqueue"
    BY <1>1, <1>8 DEF RetryEnqueue
  <2>2. UNCHANGED <<quarantined, firing, stopping, faults>>
    BY <1>8 DEF RetryEnqueue, budget, db, bounds
  <2>3. tick[k].pc = "idle" /\ op[o].col \in Collector
    BY <1>8, OpUnderWay DEF RetryEnqueue, Free, AlertInv
  <2>4. ~Emitting(k) /\ ~Emitting(k)' /\ \A j \in Tick \ {k} : tick'[j] = tick[j]
    <3> DEFINE x == [NoTick EXCEPT !.pc = "queued", !.col = op[o].col]
    <3>1. tick' = [tick EXCEPT ![k] = x]
      BY <1>8 DEF RetryEnqueue, Enqueue
    <3>2. x.pc = "queued"
      BY <2>3, NewTick
    <3> HIDE DEF x
    <3> QED
      BY <2>3, <3>1, <3>2, TickTo DEF AlertInv, Emitting
  <2> HIDE DEF y
  <2> QED
    BY <2>1, <2>2, <2>4, OpAlerts
<1> QED
  BY <1>2, <1>3, <1>4, <1>5, <1>6, <1>7, <1>8 DEF OpStep

LEMMA AlwaysAlertInv == Spec => []AlertInv
<1>1. Init => AlertsOK
  BY DEF Init, AlertsOK, EmissionOK, Announced, Emitting, NoTick
<1>2. BudgetInv /\ AlertsOK /\ [Next]_vars => AlertsOK'
  <2> SUFFICES ASSUME AlertInv, [Next]_vars PROVE AlertsOK'
    BY DEF AlertInv
  <2>1. CASE UNCHANGED vars
    BY <2>1 DEF vars, budget, db, bounds, AlertInv, AlertsOK, EmissionOK, Announced, Emitting,
                Covered, Clearing
  <2>2. ASSUME NEW k \in Tick, TickStep(k) PROVE AlertsOK'
    <3>1. CASE TickFault(k)
      <4>1. faults' > 0 /\ UNCHANGED quarantined
        BY <3>1 DEF TickFault, AlertInv, BudgetInv, TypeOK, budget
      <4>2. \A j \in Tick : tick'[j] \in {tick[j], NoTick}
        BY <3>1, TickTo DEF TickFault, EndTick, AlertInv
      <4> QED
        BY <4>1, <4>2, ExcusedAlerts
    <3> QED
      BY <2>2, <3>1, EarlyAlerts, RecordFailureAlerts, FindActiveAlerts, EmitAlertAlerts DEF TickStep
  <2>3. ASSUME NEW k \in Tick, AwaitTimeout(k) PROVE AlertsOK'
    BY <2>3, EarlyAlerts
  <2>4. ASSUME NEW k \in Tick, NEW c \in Collector, RequestRun(k, c) \/ StartScheduled(k, c)
        PROVE  AlertsOK'
    BY <2>4, EarlyAlerts
  <2>5. ASSUME NEW o \in Operator, OpStep(o) \/ \E c \in Collector : Retry(o, c) PROVE AlertsOK'
    BY <2>5, RetryAlerts
  <2>6. ASSUME NEW c \in Collector, CliUnquarantine(c) PROVE AlertsOK'
    BY <2>6 DEF CliUnquarantine, budget, AlertInv, AlertsOK, EmissionOK, Announced, Emitting,
                Covered, Clearing
  <2>7. CASE Stop \/ CancelTicks
    <3>1. stopping' /\ UNCHANGED quarantined /\ \A k \in Tick : tick'[k] \in {tick[k], NoTick}
      BY <2>7 DEF Stop, CancelTicks, budget
    <3> QED
      BY <3>1, ExcusedAlerts
  <2>8. CASE Restart
    <3>1. (\A c \in Collector : quarantined'[c] = None) /\ \A k \in Tick : tick'[k] = NoTick
      BY <2>8 DEF Restart
    <3> QED
      BY <3>1, ExcusedAlerts
  <2> QED
    BY <2>1, <2>2, <2>3, <2>4, <2>5, <2>6, <2>7, <2>8 DEF Next
<1>3. BudgetInv /\ AlertsOK <=> AlertInv
  BY DEF AlertInv
<1> QED
  BY <1>1, <1>2, <1>3, BudgetInvariant, PTL DEF Spec

\* A quarantine does not stay silent: whatever ticks, retries and earlier alerts
\* interleave, a firing alert with its reason is there unless a tick is emitting it,
\* a retry is clearing the quarantine, a transaction raised or the process stops.
THEOREM QuarantinesAnnounced == Spec => []QuarantineIsAnnounced
<1>1. AlertInv => QuarantineIsAnnounced
  BY DEF AlertInv, AlertsOK, Announced, Covered, Clearing, Emitting, QuarantineIsAnnounced
<1> QED
  BY <1>1, AlwaysAlertInv, PTL
=============================================================================
