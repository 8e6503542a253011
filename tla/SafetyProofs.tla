---------------------------- MODULE SafetyProofs ----------------------------
(***************************************************************************)
(* Proofs about AutoFix, for every value of its constants, and about       *)
(* components that MCSafety runs beside it: the files of fixes (Files),    *)
(* the clients with sessions (Sessions), the event stream (Stream), the    *)
(* plugins, pages of logs (Pages), the live tail (Following), the log      *)
(* writer (Writer), startup and shutdown (Process), and the collectors     *)
(* (Collecting, by the theorems of CollectorsProofs).                      *)
(*                                                                         *)
(* TypeOK of AutoFix is not inductive alone: a task dereferences the       *)
(* runbook, the approval and the run in its locals, so Wellformed adds     *)
(* that they exist.  Ownership is the argument for OneRunPerApproval:      *)
(* between the guarded UPDATE to 'approved' and the pin or the revert, an  *)
(* approval belongs to exactly one task, and that task knows whether a run *)
(* was claimed.                                                            *)
(***************************************************************************)
EXTENDS MCSafety, Sequences, FiniteSetTheorems, WellFoundedInduction, TLAPS

\* Where a task has a claimed run that it has not reported back yet.
AfterClaim == {"transcript", "prepare", "create", "exec", "persist", "pin"}

\* Where a task that executes an approval has approved it.
Approved == AfterClaim \cup {"lock", "revert"}

\* At label l, the locals c that a task will use are there (ap and rs:
\* the two tables).
LocalsOK(l, c, ap, rs) ==
    /\ l \in RunPCs => c.rb \in Runbook
    /\ l \in RunPCs \ {"drift"} => c.hash \in Version
    /\ l \in {"drift", "approve", "pin", "revert"} => c.appr # None
    /\ l \in AfterClaim \cup {"kill", "verify", "stamp"} => c.run \in RunId
    /\ l \in AfterClaim => rs[c.run].mode = c.mode
    /\ l \in {"kill", "verify", "stamp"} => rs[c.run].mode = "real"
    /\ l \notin RunPCs => c.appr = None
    /\ c.appr # None => c.mode = "real" /\ ap[c.appr].status # "none"

TasksWellformed == \A t \in Task : LocalsOK(pc[t], ctx[t], approvals, runs)

\* A row that exists names a runbook and a version; a free one is all NULL.
RunsWellformed ==
    \A i \in RunId : IF runs[i].mode = "none"
                     THEN runs[i] = NoRun
                     ELSE /\ runs[i].rb \in Runbook /\ runs[i].hash \in Version
                          /\ runs[i].killed => runs[i].mode = "real"

\* An approval belongs to a dry run.
ApprovalsWellformed ==
    \A a \in RunId : approvals[a].status # "none" => runs[a].mode = "dry_run"

\* The published handle is a real run's.
HandleWellformed == currentRun # None => runs[currentRun].mode = "real"

Wellformed ==
    /\ TypeOK /\ TasksWellformed /\ RunsWellformed /\ ApprovalsWellformed
    /\ HandleWellformed

\* A task's claimed run is its own, was claimed for its approval and is open
\* until it is persisted.
ClaimsOwned ==
    /\ \A t \in Task : pc[t] \in AfterClaim =>
         /\ runs[ctx[t].run].appr = ctx[t].appr
         /\ pc[t] # "pin" => runs[ctx[t].run].ended = NoTime
    /\ \A t, u \in Task :
         pc[t] \in AfterClaim /\ pc[u] \in AfterClaim /\ ctx[t].run = ctx[u].run => t = u

\* From its approval on, a task is the only one that holds it, and before the
\* claim no run has it.
ApprovalsOwned ==
    /\ \A t \in Task : pc[t] \in Approved /\ ctx[t].appr # None =>
         /\ approvals[ctx[t].appr].status = "approved"
         /\ approvals[ctx[t].appr].real = None
         /\ pc[t] \in {"lock", "revert"} => \A i \in RunId : runs[i].appr # ctx[t].appr
    /\ \A t, u \in Task :
         /\ pc[t] \in Approved /\ pc[u] \in Approved
         /\ ctx[t].appr # None /\ ctx[t].appr = ctx[u].appr
         => t = u

\* An approval is for a completed run, and only an approved one has a real run.
ApprovalsComplete ==
    \A a \in RunId :
        /\ approvals[a].status # "none" => runs[a].ended # NoTime
        /\ approvals[a].status # "approved" => approvals[a].real = None

Owned ==
    /\ ClaimsOwned /\ ApprovalsOwned /\ ApprovalsComplete
    /\ OneRunPerApproval /\ SpentApprovalStaysApproved

\* The inductive invariant of the approval protocol.
ApprovalInv == Wellformed /\ Owned

LEMMA NoCtxType == NoCtx \in Ctx
  BY DEF NoCtx, Ctx, Modes

LEMMA NoRunType == NoRun \in RunRow
  BY DEF NoRun, RunRow, NoTime

\* No approval disappears.
ApprovalsStay == \A a \in RunId : approvals[a].status # "none" => approvals'[a].status # "none"

\* No run disappears or changes its mode.
RunsStay == \A i \in RunId : runs[i].mode # "none" => runs'[i].mode = runs[i].mode

\* A step of task t to label l with locals c leaves the other tasks wellformed.
LEMMA TaskStep ==
  ASSUME Wellformed, ApprovalsStay, RunsStay, NEW t \in Task, NEW l \in PCs, NEW c \in Ctx,
         LocalsOK(l, c, approvals', runs'),
         pc' = [pc EXCEPT ![t] = l], ctx' = [ctx EXCEPT ![t] = c]
  PROVE  pc' \in [Task -> PCs] /\ ctx' \in [Task -> Ctx] /\ TasksWellformed'
<1>1. pc' \in [Task -> PCs] /\ ctx' \in [Task -> Ctx]
  BY DEF Wellformed, TypeOK
<1>2. ASSUME NEW u \in Task PROVE LocalsOK(pc'[u], ctx'[u], approvals', runs')
  <2>1. CASE u = t
    BY <2>1 DEF Wellformed, TypeOK
  <2>2. CASE u # t
    <3>1. pc'[u] = pc[u] /\ ctx'[u] = ctx[u] /\ LocalsOK(pc[u], ctx[u], approvals, runs)
      BY <2>2 DEF Wellformed, TypeOK, TasksWellformed
    <3>2. ctx[u].appr \in RunId \cup {None} /\ ctx[u].mode # "none"
      BY DEF Wellformed, TypeOK, Ctx, Modes
    <3> QED
      BY <3>1, <3>2 DEF LocalsOK, ApprovalsStay, RunsStay
  <2> QED
    BY <2>1, <2>2
<1> QED
  BY <1>1, <1>2 DEF TasksWellformed

\* What a step that leaves the tables alone has to show.
LEMMA QuietStep ==
  ASSUME Wellformed, NEW t \in Task, NEW l \in PCs, NEW c \in Ctx,
         LocalsOK(l, c, approvals, runs),
         pc' = [pc EXCEPT ![t] = l], ctx' = [ctx EXCEPT ![t] = c],
         UNCHANGED <<runs, approvals>>
  PROVE  /\ pc' \in [Task -> PCs] /\ ctx' \in [Task -> Ctx]
         /\ TasksWellformed' /\ RunsWellformed' /\ ApprovalsWellformed'
<1>1. RunsWellformed' /\ ApprovalsWellformed'
  BY DEF Wellformed, RunsWellformed, ApprovalsWellformed
<1> QED
  BY <1>1, TaskStep DEF ApprovalsStay, RunsStay

LEMMA IdleLocals == \A ap, rs : LocalsOK("idle", NoCtx, ap, rs)
  BY DEF LocalsOK, NoCtx, RunPCs, AfterClaim

LEMMA DenyWellformed ==
  ASSUME Wellformed, NEW t \in Task, Deny(t)
  PROVE  Wellformed'
<1>1. /\ pc' \in [Task -> PCs] /\ ctx' \in [Task -> Ctx]
      /\ TasksWellformed' /\ RunsWellformed' /\ ApprovalsWellformed'
  BY QuietStep, IdleLocals, NoCtxType DEF Deny, Finish, PCs, db
<1> QED
  BY <1>1 DEF Deny, Wellformed, TypeOK, HandleWellformed, db, memory, world, bounds

\* A step that changes nothing but one task, its locals and the locks.
LEMMA MemoryStep ==
  ASSUME Wellformed, NEW t \in Task, NEW l \in PCs, NEW c \in Ctx,
         LocalsOK(l, c, approvals, runs),
         pc' = [pc EXCEPT ![t] = l], ctx' = [ctx EXCEPT ![t] = c],
         UNCHANGED <<now, db, world, bounds>>,
         lock' \in [Runbook -> Task \cup {None}],
         transcriptLock' \in Task \cup {None},
         currentRun' \in RunId \cup {None}, HandleWellformed'
  PROVE  Wellformed'
<1>1. /\ pc' \in [Task -> PCs] /\ ctx' \in [Task -> Ctx]
      /\ TasksWellformed' /\ RunsWellformed' /\ ApprovalsWellformed'
  BY QuietStep DEF db
<1> QED
  BY <1>1 DEF Wellformed, TypeOK, HandleWellformed, db, world, bounds

\* A step that changes nothing but one task and its locals.
LEMMA LocalStep ==
  ASSUME Wellformed, NEW t \in Task, NEW l \in PCs, NEW c \in Ctx,
         LocalsOK(l, c, approvals, runs),
         pc' = [pc EXCEPT ![t] = l], ctx' = [ctx EXCEPT ![t] = c],
         UNCHANGED <<now, db, memory, world, bounds>>
  PROVE  Wellformed'
<1>1. HandleWellformed'
  BY DEF Wellformed, HandleWellformed, db, memory
<1> QED
  BY <1>1, MemoryStep DEF Wellformed, TypeOK, memory

LEMMA LoadWellformed ==
  ASSUME Wellformed, NEW t \in Task, NEW r \in Runbook, NEW al \in Alert \cup {None},
         NEW mode \in Modes, NEW auto \in BOOLEAN, Load(t, r, al, mode, auto)
  PROVE  Wellformed'
<1> DEFINE w == book[r].enabled /\ (auto => book[r].auto)
           c == [rb |-> r, hash |-> book[r].hash, alert |-> al, mode |-> mode, allow |-> w,
                 appr |-> None, run |-> None, at |-> 0, res |-> "null"]
<1>1. ctx' = [ctx EXCEPT ![t] = c] /\ pc' = [pc EXCEPT ![t] = "switch"]
  BY DEF Load, Goto
<1>2. w \in BOOLEAN /\ book[r].hash \in Version
  BY DEF Wellformed, TypeOK, BookRow
<1> HIDE DEF w
<1>3. c \in Ctx
  BY <1>2 DEF Ctx
<1>4. LocalsOK("switch", c, approvals, runs)
  BY <1>2 DEF LocalsOK, RunPCs, AfterClaim
<1> HIDE DEF c
<1> QED
  BY <1>1, <1>3, <1>4, LocalStep DEF Load, PCs, RunPCs

LEMMA HandleAlertWellformed ==
  ASSUME Wellformed, NEW t \in Task, NEW al \in Alert, HandleAlert(t, al)
  PROVE  Wellformed'
<1>1. CASE UNCHANGED vars
  BY <1>1 DEF vars, db, memory, world, bounds, Wellformed, TypeOK, TasksWellformed,
              RunsWellformed, ApprovalsWellformed, HandleWellformed
<1>2. CASE \E r \in Runbook :
             Load(t, r, al, IF book[r].hash \in RiskyVersions THEN "dry_run" ELSE "real", TRUE)
  <2>1. PICK r \in Runbook :
          Load(t, r, al, IF book[r].hash \in RiskyVersions THEN "dry_run" ELSE "real", TRUE)
    BY <1>2
  <2>2. (IF book[r].hash \in RiskyVersions THEN "dry_run" ELSE "real") \in Modes
    BY DEF Modes
  <2> QED
    BY <2>1, <2>2, LoadWellformed
<1> QED
  BY <1>1, <1>2 DEF HandleAlert

LEMMA HandleOperatorTriggerWellformed ==
  ASSUME Wellformed, NEW t \in Task, NEW r \in Runbook, NEW mode \in Modes,
         HandleOperatorTrigger(t, r, mode)
  PROVE  Wellformed'
  BY LoadWellformed DEF HandleOperatorTrigger

LEMMA ExecuteApprovedWellformed ==
  ASSUME Wellformed, NEW t \in Task, NEW a \in RunId, ExecuteApproved(t, a)
  PROVE  Wellformed'
<1> DEFINE c == [NoCtx EXCEPT !.appr = a, !.rb = runs[a].rb, !.alert = runs[a].alert]
<1>1. ctx' = [ctx EXCEPT ![t] = c] /\ pc' = [pc EXCEPT ![t] = "drift"]
  BY DEF ExecuteApproved, Goto
<1>2. runs[a].rb \in Runbook /\ runs[a].alert \in Alert \cup {None}
  BY DEF ExecuteApproved, Wellformed, TypeOK, RunsWellformed, ApprovalsWellformed, RunRow
<1>3. c \in Ctx
  BY <1>2 DEF Ctx, NoCtx, Modes
<1>4. LocalsOK("drift", c, approvals, runs)
  BY <1>2, DataAssumption DEF ExecuteApproved, LocalsOK, RunPCs, AfterClaim, NoCtx
<1> HIDE DEF c
<1> QED
  BY <1>1, <1>3, <1>4, LocalStep DEF ExecuteApproved, PCs, RunPCs

\* mark_rejected changes a status, and no approval appears or disappears.
LEMMA MarkRejectedType ==
  ASSUME Wellformed, NEW a \in RunId, MarkRejected(a)
  PROVE  /\ approvals' \in [RunId -> ApprovalRow]
         /\ \A x \in RunId : approvals[x].status # "none" <=> approvals'[x].status # "none"
  BY DEF MarkRejected, Wellformed, TypeOK, ApprovalRow

LEMMA CheckDriftWellformed ==
  ASSUME Wellformed, NEW t \in Task, CheckDrift(t)
  PROVE  Wellformed'
<1> DEFINE b == book[ctx[t].rb]
           a == ctx[t].appr
<1>1. pc[t] = "drift" /\ LocalsOK("drift", ctx[t], approvals, runs)
  BY DEF CheckDrift, Wellformed, TasksWellformed
<1>2. ctx[t].rb \in Runbook /\ a \in RunId /\ ctx[t] \in Ctx
  BY <1>1 DEF Wellformed, TypeOK, LocalsOK, Ctx, RunPCs
<1>3. CASE MarkRejected(a) /\ Finish(t)
           /\ UNCHANGED <<now, book, runs, autoFixed, autofixEnabled, memory, world, bounds>>
  <2>1. pc' \in [Task -> PCs] /\ ctx' \in [Task -> Ctx] /\ TasksWellformed'
    BY <1>2, <1>3, MarkRejectedType, TaskStep, NoCtxType, IdleLocals
       DEF Finish, ApprovalsStay, RunsStay, PCs
  <2> QED
    BY <1>2, <1>3, <2>1, MarkRejectedType
       DEF Wellformed, TypeOK, HandleWellformed, RunsWellformed, ApprovalsWellformed, memory, world, bounds
<1>4. CASE ctx' = [ctx EXCEPT ![t] = [@ EXCEPT !.hash = b.hash, !.allow = b.enabled]]
           /\ Goto(t, "switch") /\ UNCHANGED <<now, db, memory, world, bounds>>
  <2> DEFINE c == [ctx[t] EXCEPT !.hash = b.hash, !.allow = b.enabled]
  <2>1. b.hash \in Version /\ b.enabled \in BOOLEAN
    BY <1>2 DEF Wellformed, TypeOK, BookRow
  <2>2. ctx' = [ctx EXCEPT ![t] = c] /\ pc' = [pc EXCEPT ![t] = "switch"]
    BY <1>4 DEF Goto
  <2> HIDE DEF b
  <2>3. c \in Ctx
    BY <1>2, <2>1 DEF Ctx
  <2>4. LocalsOK("switch", c, approvals, runs)
    BY <1>1, <1>2, <2>1 DEF LocalsOK, RunPCs, AfterClaim, Ctx
  <2> HIDE DEF c
  <2> QED
    BY <1>4, <2>2, <2>3, <2>4, LocalStep DEF PCs, RunPCs
<1> QED
  BY <1>3, <1>4 DEF CheckDrift

LEMMA RejectWellformed ==
  ASSUME Wellformed, NEW a \in RunId, Reject(a)
  PROVE  Wellformed'
<1>1. \A t \in Task : LocalsOK(pc[t], ctx[t], approvals', runs')
  <2> SUFFICES ASSUME NEW t \in Task PROVE LocalsOK(pc[t], ctx[t], approvals', runs')
    OBVIOUS
  <2>1. LocalsOK(pc[t], ctx[t], approvals, runs) /\ ctx[t].appr \in RunId \cup {None}
    BY DEF Wellformed, TypeOK, TasksWellformed, Ctx
  <2> QED
    BY <2>1, MarkRejectedType DEF Reject, LocalsOK
<1> QED
  BY <1>1, MarkRejectedType
     DEF Reject, Wellformed, TypeOK, HandleWellformed, TasksWellformed, RunsWellformed, ApprovalsWellformed,
         memory, world, bounds


LEMMA GotoWellformed ==
  ASSUME Wellformed, NEW t \in Task, NEW l \in PCs, LocalsOK(l, ctx[t], approvals, runs),
         Goto(t, l), UNCHANGED <<runs, approvals, ctx>>
  PROVE  /\ pc' \in [Task -> PCs] /\ ctx' \in [Task -> Ctx]
         /\ TasksWellformed' /\ RunsWellformed' /\ ApprovalsWellformed'
<1>1. ctx[t] \in Ctx /\ ctx' = [ctx EXCEPT ![t] = ctx[t]]
  BY DEF Wellformed, TypeOK
<1> QED
  BY <1>1, QuietStep DEF Goto

LEMMA ToggleOffWellformed ==
  ASSUME Wellformed, NEW t \in Task, ToggleOff(t)
  PROVE  Wellformed'
<1>1. LocalsOK("toggle", ctx[t], approvals, runs)
  BY DEF ToggleOff, Wellformed, TasksWellformed, LocalsOK, RunPCs, AfterClaim
<1>2. /\ pc' \in [Task -> PCs] /\ ctx' \in [Task -> Ctx]
      /\ TasksWellformed' /\ RunsWellformed' /\ ApprovalsWellformed'
  BY <1>1, GotoWellformed DEF ToggleOff, PCs, KillPCs, db
<1> QED
  BY <1>2 DEF ToggleOff, Wellformed, TypeOK, HandleWellformed, db, memory, world

LEMMA GateSwitchWellformed ==
  ASSUME Wellformed, NEW t \in Task, GateSwitch(t)
  PROVE  Wellformed'
<1>1. CASE Deny(t)
  BY <1>1, DenyWellformed
<1>2. CASE Goto(t, "limits") /\ UNCHANGED <<now, db, memory, ctx, world, bounds>>
  <2>1. LocalsOK("limits", ctx[t], approvals, runs)
    BY DEF GateSwitch, Wellformed, TasksWellformed, LocalsOK, RunPCs, AfterClaim
  <2>2. /\ pc' \in [Task -> PCs] /\ ctx' \in [Task -> Ctx]
        /\ TasksWellformed' /\ RunsWellformed' /\ ApprovalsWellformed'
    BY <1>2, <2>1, GotoWellformed DEF PCs, RunPCs, db
  <2> QED
    BY <1>2, <2>2 DEF Wellformed, TypeOK, HandleWellformed, db, memory, world, bounds
<1> QED
  BY <1>1, <1>2 DEF GateSwitch

LEMMA GateLimitsWellformed ==
  ASSUME Wellformed, NEW t \in Task, GateLimits(t)
  PROVE  Wellformed'
<1> DEFINE l == IF ctx[t].appr = None THEN "lock" ELSE "approve"
           c == [ctx[t] EXCEPT !.at = now]
<1>1. CASE Deny(t)
  BY <1>1, DenyWellformed
<1>2. CASE Goto(t, l) /\ ctx' = [ctx EXCEPT ![t].at = now]
           /\ UNCHANGED <<now, db, memory, world, bounds>>
  <2>1. ctx[t] \in Ctx /\ now \in Nat /\ LocalsOK("limits", ctx[t], approvals, runs)
    BY DEF GateLimits, Wellformed, TypeOK, TasksWellformed
  <2>2. c \in Ctx /\ l \in PCs
    BY <2>1 DEF Ctx, PCs, RunPCs
  <2>3. LocalsOK(l, c, approvals, runs)
    BY <2>1 DEF LocalsOK, RunPCs, AfterClaim, Ctx
  <2>4. ctx' = [ctx EXCEPT ![t] = c] /\ pc' = [pc EXCEPT ![t] = l]
    BY <1>2 DEF Goto
  <2> HIDE DEF c, l
  <2> QED
    BY <1>2, <2>2, <2>3, <2>4, LocalStep
<1> QED
  BY <1>1, <1>2 DEF GateLimits

LEMMA ApproveWellformed ==
  ASSUME Wellformed, NEW t \in Task, Approve(t)
  PROVE  Wellformed'
<1> DEFINE a == ctx[t].appr
           c == [ctx[t] EXCEPT !.at = now]
<1>1. CASE Deny(t)
  BY <1>1, DenyWellformed
<1>2. CASE /\ approvals' = [approvals EXCEPT ![a].status = "approved"]
           /\ ctx' = [ctx EXCEPT ![t].at = now]
           /\ Goto(t, "lock")
           /\ UNCHANGED <<now, book, runs, autoFixed, autofixEnabled, memory, world, bounds>>
  <2>1. ctx[t] \in Ctx /\ now \in Nat /\ LocalsOK("approve", ctx[t], approvals, runs)
    BY DEF Approve, Wellformed, TypeOK, TasksWellformed
  <2>2. a \in RunId /\ approvals[a].status # "none"
    BY <2>1 DEF LocalsOK, Ctx
  <2>3. /\ approvals' \in [RunId -> ApprovalRow]
        /\ \A x \in RunId : approvals[x].status # "none" <=> approvals'[x].status # "none"
    BY <1>2, <2>2 DEF Wellformed, TypeOK, ApprovalRow
  <2>4. c \in Ctx
    BY <2>1 DEF Ctx
  <2>5. LocalsOK("lock", c, approvals', runs')
    BY <2>1, <2>2, <2>3 DEF LocalsOK, RunPCs, AfterClaim, Ctx
  <2>6. ctx' = [ctx EXCEPT ![t] = c] /\ pc' = [pc EXCEPT ![t] = "lock"]
    BY <1>2 DEF Goto
  <2> HIDE DEF c, a
  <2>7. pc' \in [Task -> PCs] /\ ctx' \in [Task -> Ctx] /\ TasksWellformed'
    BY <1>2, <2>3, <2>4, <2>5, <2>6, TaskStep DEF ApprovalsStay, RunsStay, PCs, RunPCs
  <2> QED
    BY <1>2, <2>3, <2>7
       DEF Wellformed, TypeOK, HandleWellformed, RunsWellformed, ApprovalsWellformed, memory, world, bounds
<1> QED
  BY <1>1, <1>2 DEF Approve

LEMMA ClaimWellformed ==
  ASSUME Wellformed, NEW t \in Task, Claim(t)
  PROVE  Wellformed'
<1>1. ctx[t] \in Ctx /\ now \in Nat /\ LocalsOK("lock", ctx[t], approvals, runs)
  BY DEF Claim, Wellformed, TypeOK, TasksWellformed
<1>2. CASE ClaimDenied(t)
  <2>1. CASE Finish(t)
    BY <1>2, <2>1, DenyWellformed DEF ClaimDenied, Deny
  <2>2. CASE ctx[t].appr # None /\ Goto(t, "revert") /\ UNCHANGED ctx
    <3>1. LocalsOK("revert", ctx[t], approvals, runs)
      BY <1>1, <2>2 DEF LocalsOK, RunPCs, AfterClaim
    <3>2. /\ pc' \in [Task -> PCs] /\ ctx' \in [Task -> Ctx]
          /\ TasksWellformed' /\ RunsWellformed' /\ ApprovalsWellformed'
      BY <1>2, <2>2, <3>1, GotoWellformed DEF ClaimDenied, PCs, RunPCs, db
    <3> QED
      BY <1>2, <3>2 DEF ClaimDenied, Wellformed, TypeOK, HandleWellformed, db, memory, world, bounds
  <2> QED
    BY <1>2, <2>1, <2>2 DEF ClaimDenied
<1>3. CASE \E i \in RunId :
             /\ runs[i].mode = "none"
             /\ runs' = [runs EXCEPT ![i] = Claimed(t)]
             /\ ctx' = [ctx EXCEPT ![t].run = i]
             /\ lock' = [lock EXCEPT ![ctx[t].rb] = t]
             /\ Goto(t, "transcript")
             /\ UNCHANGED <<now, book, approvals, autoFixed, autofixEnabled,
                            transcriptLock, currentRun, world, bounds>>
  <2>1. PICK i \in RunId :
             /\ runs[i].mode = "none"
             /\ runs' = [runs EXCEPT ![i] = Claimed(t)]
             /\ ctx' = [ctx EXCEPT ![t].run = i]
             /\ lock' = [lock EXCEPT ![ctx[t].rb] = t]
             /\ Goto(t, "transcript")
             /\ UNCHANGED <<now, book, approvals, autoFixed, autofixEnabled,
                            transcriptLock, currentRun, world, bounds>>
    BY <1>3
  <2> DEFINE c == [ctx[t] EXCEPT !.run = i]
             row == Claimed(t)
  <2>2. /\ row \in RunRow /\ row.mode = ctx[t].mode /\ row.mode # "none"
        /\ row.rb \in Runbook /\ row.hash \in Version
    BY <1>1 DEF Claimed, NoRun, RunRow, LocalsOK, RunPCs, Ctx, Modes, NoTime
  <2>3. ~row.killed
    BY DEF Claimed, NoRun
  <2>4. ctx' = [ctx EXCEPT ![t] = c] /\ pc' = [pc EXCEPT ![t] = "transcript"]
        /\ runs' = [runs EXCEPT ![i] = row]
    BY <2>1 DEF Goto
  <2> HIDE DEF row
  <2>5. runs' \in [RunId -> RunRow] /\ runs'[i] = row
    BY <2>2, <2>4 DEF Wellformed, TypeOK
  <2>6. c \in Ctx
    BY <1>1 DEF Ctx
  <2>7. LocalsOK("transcript", c, approvals, runs')
    BY <1>1, <2>2, <2>5 DEF LocalsOK, RunPCs, AfterClaim, Ctx
  <2> HIDE DEF c
  <2>8. RunsStay /\ ApprovalsStay
    BY <2>1, <2>4 DEF RunsStay, ApprovalsStay, Wellformed, TypeOK
  <2>9. pc' \in [Task -> PCs] /\ ctx' \in [Task -> Ctx] /\ TasksWellformed'
    BY <2>1, <2>4, <2>6, <2>7, <2>8, TaskStep DEF PCs, RunPCs
  <2>10. RunsWellformed'
    BY <2>2, <2>3, <2>4 DEF Wellformed, TypeOK, RunsWellformed
  <2>11. ApprovalsWellformed' /\ HandleWellformed'
    BY <2>1, <2>8 DEF Wellformed, TypeOK, ApprovalsWellformed, HandleWellformed, RunsStay
  <2>12. lock' \in [Runbook -> Task \cup {None}]
    BY <2>1 DEF Wellformed, TypeOK
  <2> QED
    BY <2>1, <2>5, <2>9, <2>10, <2>11, <2>12 DEF Wellformed, TypeOK, world, bounds
<1> QED
  BY <1>2, <1>3 DEF Claim

LEMMA TakeTranscriptLockWellformed ==
  ASSUME Wellformed, NEW t \in Task, TakeTranscriptLock(t)
  PROVE  Wellformed'
<1>1. LocalsOK("prepare", ctx[t], approvals, runs)
  BY DEF TakeTranscriptLock, Wellformed, TasksWellformed, LocalsOK, RunPCs, AfterClaim
<1>2. /\ pc' \in [Task -> PCs] /\ ctx' \in [Task -> Ctx]
      /\ TasksWellformed' /\ RunsWellformed' /\ ApprovalsWellformed'
  BY <1>1, GotoWellformed DEF TakeTranscriptLock, PCs, RunPCs, db
<1> QED
  BY <1>2 DEF TakeTranscriptLock, Wellformed, TypeOK, HandleWellformed, db, world, bounds

\* What all ways out of the exec share.
LEMMA LeaveExecWellformed ==
  ASSUME Wellformed, NEW t \in Task, pc[t] \in {"prepare", "create", "exec"},
         NEW res \in {"zero", "nonzero", "error"}, LeaveExec(t, res),
         UNCHANGED <<now, db, containerUp, bounds>>, procs' \subseteq RunId
  PROVE  Wellformed'
<1> DEFINE c == [ctx[t] EXCEPT !.res = res]
<1>1. ctx[t] \in Ctx /\ LocalsOK(pc[t], ctx[t], approvals, runs)
  BY DEF Wellformed, TypeOK, TasksWellformed
<1>2. c \in Ctx
  BY <1>1 DEF Ctx
<1>3. LocalsOK("persist", c, approvals, runs)
  BY <1>1 DEF LocalsOK, RunPCs, AfterClaim, Ctx
<1>4. ctx' = [ctx EXCEPT ![t] = c] /\ pc' = [pc EXCEPT ![t] = "persist"]
  BY DEF LeaveExec, Goto
<1>5. currentRun' \in RunId \cup {None}
  BY DEF LeaveExec, HandleAfterExec, Wellformed, TypeOK
<1>7. HandleWellformed'
  BY DEF LeaveExec, HandleAfterExec, Wellformed, HandleWellformed, db
<1> HIDE DEF c
<1>6. /\ pc' \in [Task -> PCs] /\ ctx' \in [Task -> Ctx]
      /\ TasksWellformed' /\ RunsWellformed' /\ ApprovalsWellformed'
  BY <1>2, <1>3, <1>4, QuietStep DEF PCs, RunPCs, db
<1> QED
  BY <1>5, <1>6, <1>7 DEF LeaveExec, Wellformed, TypeOK, db, bounds

LEMMA PrepareFailsWellformed ==
  ASSUME Wellformed, NEW t \in Task, PrepareFails(t)
  PROVE  Wellformed'
  BY LeaveExecWellformed DEF PrepareFails, Wellformed, TypeOK, world

LEMMA ExecFailsWellformed ==
  ASSUME Wellformed, NEW t \in Task, ExecFails(t)
  PROVE  Wellformed'
  BY LeaveExecWellformed DEF ExecFails, Wellformed, TypeOK, world

LEMMA ExecReturnsWellformed ==
  ASSUME Wellformed, NEW t \in Task, ExecReturns(t)
  PROVE  Wellformed'
<1>1. procs' \subseteq RunId
  BY DEF ExecReturns, Wellformed, TypeOK
<1>2. PICK res \in {"zero", "nonzero"} : LeaveExec(t, res)
  BY DEF ExecReturns
<1> QED
  BY <1>1, <1>2, LeaveExecWellformed DEF ExecReturns

LEMMA PublishWellformed ==
  ASSUME Wellformed, NEW t \in Task, Publish(t)
  PROVE  Wellformed'
<1> DEFINE c == [ctx[t] EXCEPT !.at = now]
<1>1. ctx[t] \in Ctx /\ now \in Nat /\ LocalsOK("prepare", ctx[t], approvals, runs)
  BY DEF Publish, Wellformed, TypeOK, TasksWellformed
<1>2. c \in Ctx
  BY <1>1 DEF Ctx
<1>3. LocalsOK("create", c, approvals, runs)
  BY <1>1 DEF LocalsOK, RunPCs, AfterClaim, Ctx
<1>4. ctx' = [ctx EXCEPT ![t] = c] /\ pc' = [pc EXCEPT ![t] = "create"]
  BY DEF Publish, Goto
<1>5. currentRun' \in RunId \cup {None}
  BY <1>1 DEF Publish, HandlePublished, Wellformed, TypeOK, LocalsOK, AfterClaim
<1>6. HandleWellformed'
  BY <1>1 DEF Publish, HandlePublished, Wellformed, HandleWellformed, LocalsOK, AfterClaim,
              Ctx, Modes, db
<1> HIDE DEF c
<1> QED
  BY <1>2, <1>3, <1>4, <1>5, <1>6, MemoryStep DEF Publish, Wellformed, TypeOK, PCs, RunPCs

LEMMA StartProcessWellformed ==
  ASSUME Wellformed, NEW t \in Task, StartProcess(t)
  PROVE  Wellformed'
<1>1. LocalsOK("exec", ctx[t], approvals, runs) /\ ctx[t].run \in RunId
  BY DEF StartProcess, Wellformed, TasksWellformed, LocalsOK, RunPCs, AfterClaim
<1>2. /\ pc' \in [Task -> PCs] /\ ctx' \in [Task -> Ctx]
      /\ TasksWellformed' /\ RunsWellformed' /\ ApprovalsWellformed'
  BY <1>1, GotoWellformed DEF StartProcess, PCs, RunPCs, db
<1> QED
  BY <1>1, <1>2 DEF StartProcess, Wellformed, TypeOK, HandleWellformed, db, memory, bounds

LEMMA PersistWellformed ==
  ASSUME Wellformed, NEW t \in Task, Persist(t)
  PROVE  Wellformed'
<1> DEFINE i == ctx[t].run
           l == AfterPersist(ctx[t])
           c == IF ctx[t].appr = None THEN NoCtx ELSE ctx[t]
           row == [runs[i] EXCEPT !.ended = now, !.exit = ExitColumn(ctx[t].res)]
<1>1. ctx[t] \in Ctx /\ now \in Nat /\ LocalsOK("persist", ctx[t], approvals, runs)
  BY DEF Persist, Wellformed, TypeOK, TasksWellformed
<1>2. /\ i \in RunId /\ ctx[t].hash \in Version /\ runs[i] \in RunRow
      /\ runs[i].mode = ctx[t].mode /\ runs[i].mode # "none"
  BY <1>1 DEF LocalsOK, RunPCs, AfterClaim, Wellformed, TypeOK, Ctx, Modes
<1>3. runs' = [runs EXCEPT ![i] = row]
  BY DEF Persist
<1>4. ctx' = [ctx EXCEPT ![t] = c] /\ pc' = [pc EXCEPT ![t] = l]
  BY DEF Persist, Goto
<1>5. /\ row \in RunRow /\ row.mode = runs[i].mode /\ row.killed = runs[i].killed
      /\ row.rb = runs[i].rb /\ row.hash = runs[i].hash
  BY <1>1, <1>2 DEF RunRow, ExitColumn
<1>6. c \in Ctx /\ l \in PCs
  BY <1>1, NoCtxType DEF AfterPersist, PCs, RunPCs
<1> HIDE DEF row
<1>7. runs' \in [RunId -> RunRow] /\ RunsWellformed' /\ HandleWellformed' /\ RunsStay
  <2>1. runs \in [RunId -> RunRow] /\ RunsWellformed /\ HandleWellformed /\ currentRun \in RunId \cup {None}
    BY DEF Wellformed, TypeOK
  <2>2. runs'[i] = row /\ \A x \in RunId : x # i => runs'[x] = runs[x]
    BY <1>2, <1>3, <2>1
  <2>3. runs' \in [RunId -> RunRow]
    BY <1>2, <1>3, <1>5, <2>1
  <2>4. RunsWellformed'
    BY <1>2, <1>5, <2>1, <2>2 DEF RunsWellformed
  <2>5. \A x \in RunId : runs'[x].mode = runs[x].mode
    BY <1>5, <2>2
  <2>6. HandleWellformed' /\ RunsStay
    <3>1. currentRun' = currentRun
      BY DEF Persist, memory
    <3> QED
      BY <2>1, <2>5, <3>1 DEF HandleWellformed, RunsStay
  <2> QED
    BY <2>3, <2>4, <2>6
<1>8. /\ approvals' \in [RunId -> ApprovalRow]
      /\ \A x \in RunId : x # i => approvals'[x] = approvals[x]
      /\ ApprovalsStay
      /\ approvals'[i].status # "none" => approvals[i].status # "none" \/ ctx[t].mode = "dry_run"
  BY <1>2 DEF Persist, StoresPlan, Wellformed, TypeOK, ApprovalRow, ApprovalsStay
<1>9. ApprovalsWellformed'
  BY <1>2, <1>7, <1>8 DEF Wellformed, ApprovalsWellformed, RunsStay
<1>10. autoFixed' \subseteq Alert
  BY <1>1 DEF Persist, EarnsOutcome, Wellformed, TypeOK, Ctx
<1>11. LocalsOK(l, c, approvals', runs')
  <2>1. CASE ctx[t].appr = None
    BY <2>1, IdleLocals DEF AfterPersist
  <2>2. CASE ctx[t].appr # None
    BY <1>1, <1>2, <1>7, <1>8, <2>2
       DEF LocalsOK, AfterPersist, RunPCs, AfterClaim, ApprovalsStay, RunsStay, Ctx
  <2> QED
    BY <2>1, <2>2
<1> HIDE DEF l, c
<1>12. pc' \in [Task -> PCs] /\ ctx' \in [Task -> Ctx] /\ TasksWellformed'
  BY <1>4, <1>6, <1>7, <1>8, <1>11, TaskStep
<1> QED
  BY <1>7, <1>8, <1>9, <1>10, <1>12 DEF Persist, Wellformed, TypeOK, memory, world, bounds

LEMMA PinRealRunWellformed ==
  ASSUME Wellformed, NEW t \in Task, PinRealRun(t)
  PROVE  Wellformed'
<1>1. ctx[t] \in Ctx /\ LocalsOK("pin", ctx[t], approvals, runs)
  BY DEF PinRealRun, Wellformed, TypeOK, TasksWellformed
<1>2. ctx[t].appr \in RunId /\ ctx[t].run \in RunId
  BY <1>1 DEF LocalsOK, AfterClaim, Ctx
<1>3. /\ approvals' \in [RunId -> ApprovalRow]
      /\ \A x \in RunId : approvals[x].status # "none" <=> approvals'[x].status # "none"
  BY <1>2 DEF PinRealRun, Wellformed, TypeOK, ApprovalRow
<1>4. pc' \in [Task -> PCs] /\ ctx' \in [Task -> Ctx] /\ TasksWellformed'
  BY <1>3, TaskStep, NoCtxType, IdleLocals DEF PinRealRun, Finish, ApprovalsStay, RunsStay, PCs
<1> QED
  BY <1>3, <1>4
     DEF PinRealRun, Wellformed, TypeOK, HandleWellformed, RunsWellformed, ApprovalsWellformed, memory, world, bounds

LEMMA RevertWellformed ==
  ASSUME Wellformed, NEW t \in Task, Revert(t)
  PROVE  Wellformed'
<1>1. ctx[t] \in Ctx /\ LocalsOK("revert", ctx[t], approvals, runs)
  BY DEF Revert, Wellformed, TypeOK, TasksWellformed
<1>2. ctx[t].appr \in RunId
  BY <1>1 DEF LocalsOK, Ctx
<1>3. /\ approvals' \in [RunId -> ApprovalRow]
      /\ \A x \in RunId : approvals[x].status # "none" <=> approvals'[x].status # "none"
  BY <1>2 DEF Revert, Wellformed, TypeOK, ApprovalRow
<1>4. pc' \in [Task -> PCs] /\ ctx' \in [Task -> Ctx] /\ TasksWellformed'
  BY <1>3, TaskStep, NoCtxType, IdleLocals DEF Revert, Finish, ApprovalsStay, RunsStay, PCs
<1> QED
  BY <1>3, <1>4
     DEF Revert, Wellformed, TypeOK, HandleWellformed, RunsWellformed, ApprovalsWellformed, memory, world, bounds

LEMMA WriteFlagOffWellformed ==
  ASSUME Wellformed, NEW t \in Task, WriteFlagOff(t)
  PROVE  Wellformed'
<1>1. LocalsOK("snapshot", ctx[t], approvals, runs)
  BY DEF WriteFlagOff, Wellformed, TasksWellformed, LocalsOK, RunPCs, AfterClaim
<1>2. /\ pc' \in [Task -> PCs] /\ ctx' \in [Task -> Ctx]
      /\ TasksWellformed' /\ RunsWellformed' /\ ApprovalsWellformed'
  BY <1>1, GotoWellformed DEF WriteFlagOff, PCs, KillPCs
<1> QED
  BY <1>2 DEF WriteFlagOff, Wellformed, TypeOK, HandleWellformed, memory, world, bounds

LEMMA KillSnapshotWellformed ==
  ASSUME Wellformed, NEW t \in Task, KillSnapshot(t)
  PROVE  Wellformed'
<1> DEFINE c == [ctx[t] EXCEPT !.run = currentRun]
<1>1. CASE Deny(t)
  BY <1>1, DenyWellformed
<1>2. CASE /\ currentRun # None
           /\ ctx' = [ctx EXCEPT ![t].run = currentRun] /\ Goto(t, "kill")
           /\ UNCHANGED <<now, db, memory, world, bounds>>
  <2>1. ctx[t] \in Ctx /\ currentRun \in RunId /\ LocalsOK("snapshot", ctx[t], approvals, runs)
    BY <1>2 DEF KillSnapshot, Wellformed, TypeOK, TasksWellformed
  <2>2. c \in Ctx
    BY <2>1 DEF Ctx
  <2>3. LocalsOK("kill", c, approvals, runs)
    BY <1>2, <2>1 DEF LocalsOK, RunPCs, AfterClaim, Ctx, Wellformed, HandleWellformed
  <2>4. ctx' = [ctx EXCEPT ![t] = c] /\ pc' = [pc EXCEPT ![t] = "kill"]
    BY <1>2 DEF Goto
  <2> HIDE DEF c
  <2> QED
    BY <1>2, <2>2, <2>3, <2>4, LocalStep DEF PCs, KillPCs
<1> QED
  BY <1>1, <1>2 DEF KillSnapshot

LEMMA KillContainerWellformed ==
  ASSUME Wellformed, NEW t \in Task, KillContainer(t)
  PROVE  Wellformed'
<1>1. CASE Deny(t)
  BY <1>1, DenyWellformed
<1>2. CASE /\ containerUp' = FALSE /\ procs' = {} /\ Goto(t, "verify")
           /\ UNCHANGED <<now, db, memory, ctx, bounds>>
  <2>1. LocalsOK("verify", ctx[t], approvals, runs)
    BY DEF KillContainer, Wellformed, TasksWellformed, LocalsOK, RunPCs, AfterClaim
  <2>2. /\ pc' \in [Task -> PCs] /\ ctx' \in [Task -> Ctx]
        /\ TasksWellformed' /\ RunsWellformed' /\ ApprovalsWellformed'
    BY <1>2, <2>1, GotoWellformed DEF PCs, KillPCs, db
  <2> QED
    BY <1>2, <2>2 DEF Wellformed, TypeOK, HandleWellformed, db, memory, bounds
<1> QED
  BY <1>1, <1>2 DEF KillContainer

LEMMA KillVerifyWellformed ==
  ASSUME Wellformed, NEW t \in Task, KillVerify(t)
  PROVE  Wellformed'
<1>1. CASE Deny(t)
  BY <1>1, DenyWellformed
<1>2. CASE Goto(t, "stamp") /\ UNCHANGED <<now, db, memory, ctx, world, bounds>>
  <2>1. LocalsOK("stamp", ctx[t], approvals, runs)
    BY DEF KillVerify, Wellformed, TasksWellformed, LocalsOK, RunPCs, AfterClaim
  <2>2. /\ pc' \in [Task -> PCs] /\ ctx' \in [Task -> Ctx]
        /\ TasksWellformed' /\ RunsWellformed' /\ ApprovalsWellformed'
    BY <1>2, <2>1, GotoWellformed DEF PCs, KillPCs, db
  <2> QED
    BY <1>2, <2>2 DEF Wellformed, TypeOK, HandleWellformed, db, memory, world, bounds
<1> QED
  BY <1>1, <1>2 DEF KillVerify

LEMMA KillStampWellformed ==
  ASSUME Wellformed, NEW t \in Task, KillStamp(t)
  PROVE  Wellformed'
<1> DEFINE i == ctx[t].run
           row == [runs[i] EXCEPT !.killed = TRUE]
<1>1. LocalsOK("stamp", ctx[t], approvals, runs)
  BY DEF KillStamp, Wellformed, TypeOK, TasksWellformed
<1>2. i \in RunId /\ runs[i].mode = "real" /\ runs[i] \in RunRow
  BY <1>1 DEF LocalsOK, AfterClaim, Wellformed, TypeOK
<1>3. runs' = [runs EXCEPT ![i] = row]
  BY DEF KillStamp
<1>4. row \in RunRow /\ row.mode = "real" /\ row.rb = runs[i].rb /\ row.hash = runs[i].hash
  BY <1>2 DEF RunRow
<1> HIDE DEF row
<1>5. runs' \in [RunId -> RunRow] /\ RunsStay
  BY <1>2, <1>3, <1>4 DEF Wellformed, TypeOK, RunsStay
<1>6. RunsWellformed'
  BY <1>2, <1>3, <1>4 DEF Wellformed, TypeOK, RunsWellformed
<1>7. HandleWellformed' /\ ApprovalsWellformed'
  BY <1>5 DEF KillStamp, Wellformed, TypeOK, HandleWellformed, ApprovalsWellformed, RunsStay, memory
<1>8. pc' \in [Task -> PCs] /\ ctx' \in [Task -> Ctx] /\ TasksWellformed'
  BY <1>5, TaskStep, NoCtxType, IdleLocals DEF KillStamp, Finish, ApprovalsStay, PCs
<1> QED
  BY <1>5, <1>6, <1>7, <1>8 DEF KillStamp, Wellformed, TypeOK, memory, world, bounds

\* A step of the environment that leaves tasks, tables and the handle alone.
LEMMA AmbientStep ==
  ASSUME Wellformed, UNCHANGED <<runs, approvals, currentRun, pc, ctx>>
  PROVE  TasksWellformed' /\ RunsWellformed' /\ ApprovalsWellformed' /\ HandleWellformed'
  BY DEF Wellformed, TasksWellformed, RunsWellformed, ApprovalsWellformed, HandleWellformed

LEMMA ToggleOnWellformed ==
  ASSUME Wellformed, ToggleOn
  PROVE  Wellformed'
  BY AmbientStep DEF ToggleOn, Wellformed, TypeOK, memory, world

LEMMA EditWellformed ==
  ASSUME Wellformed, NEW r \in Runbook, NEW row \in BookRow, Edit(r, row)
  PROVE  Wellformed'
  BY AmbientStep DEF Edit, Wellformed, TypeOK, memory, world

LEMMA RefreshWellformed ==
  ASSUME Wellformed, NEW r \in Runbook, Refresh(r)
  PROVE  Wellformed'
<1>1. PICK h \in Version : Edit(r, [book[r] EXCEPT !.hash = h])
  BY DEF Refresh
<1>2. [book[r] EXCEPT !.hash = h] \in BookRow
  BY DEF Wellformed, TypeOK, BookRow
<1> QED
  BY <1>1, <1>2, EditWellformed

LEMMA PatchGatesWellformed ==
  ASSUME Wellformed, NEW r \in Runbook, PatchGates(r)
  PROVE  Wellformed'
<1>1. book[r] \in BookRow
  BY DEF Wellformed, TypeOK
<1>2. CASE Edit(r, [book[r] EXCEPT !.enabled = ~@])
  <2> DEFINE w == ~book[r].enabled
  <2>1. Edit(r, [book[r] EXCEPT !.enabled = w]) /\ w \in BOOLEAN
    BY <1>2
  <2> HIDE DEF w
  <2>2. [book[r] EXCEPT !.enabled = w] \in BookRow
    BY <1>1, <2>1 DEF BookRow
  <2> QED
    BY <2>1, <2>2, EditWellformed
<1>3. CASE Edit(r, [book[r] EXCEPT !.auto = ~@])
  <2> DEFINE w == ~book[r].auto
  <2>1. Edit(r, [book[r] EXCEPT !.auto = w]) /\ w \in BOOLEAN
    BY <1>3
  <2> HIDE DEF w
  <2>2. [book[r] EXCEPT !.auto = w] \in BookRow
    BY <1>1, <2>1 DEF BookRow
  <2> QED
    BY <2>1, <2>2, EditWellformed
<1> QED
  BY <1>2, <1>3 DEF PatchGates

LEMMA PruneWellformed ==
  ASSUME Wellformed, NEW r \in Runbook, Prune(r)
  PROVE  Wellformed'
<1>1. [book[r] EXCEPT !.present = FALSE] \in BookRow
  BY DEF Wellformed, TypeOK, BookRow
<1> QED
  BY <1>1, EditWellformed DEF Prune

LEMMA OrphanExitsWellformed ==
  ASSUME Wellformed, NEW i \in RunId, OrphanExits(i)
  PROVE  Wellformed'
  BY AmbientStep DEF OrphanExits, Wellformed, TypeOK, db, memory, bounds

LEMMA ContainerStartsWellformed ==
  ASSUME Wellformed, ContainerStarts
  PROVE  Wellformed'
  BY AmbientStep DEF ContainerStarts, Wellformed, TypeOK, db, memory, bounds

LEMMA TickWellformed ==
  ASSUME Wellformed, Tick
  PROVE  Wellformed'
  BY AmbientStep DEF Tick, Wellformed, TypeOK, db, memory, world, bounds

LEMMA CrashWellformed ==
  ASSUME Wellformed, Crash
  PROVE  Wellformed'
<1>1. TasksWellformed'
  BY IdleLocals DEF Crash, TasksWellformed
<1>2. RunsWellformed' /\ ApprovalsWellformed' /\ HandleWellformed'
  BY DEF Crash, Wellformed, RunsWellformed, ApprovalsWellformed, HandleWellformed, db
<1> QED
  BY <1>1, <1>2, NoCtxType DEF Crash, Wellformed, TypeOK, PCs, db, world

LEMMA InitWellformed == Init => Wellformed
<1> SUFFICES ASSUME Init PROVE Wellformed
  OBVIOUS
<1>1. book \in [Runbook -> BookRow]
  <2> DEFINE Rows == {[present |-> TRUE, hash |-> h, enabled |-> TRUE, auto |-> TRUE] : h \in Version}
  <2>1. Rows \subseteq BookRow
    <3>1. ASSUME NEW h \in Version, NEW w \in BOOLEAN
          PROVE  [present |-> w, hash |-> h, enabled |-> w, auto |-> w] \in BookRow
      BY DEF BookRow
    <3> QED
      BY <3>1
  <2>2. book \in [Runbook -> Rows]
    BY DEF Init
  <2> HIDE DEF Rows
  <2> QED
    BY <2>1, <2>2
<1>2. NoApproval \in ApprovalRow
  BY DEF NoApproval, ApprovalRow
<1>3. TypeOK
  BY <1>1, <1>2, NoCtxType, NoRunType DEF Init, TypeOK, PCs
<1>4. TasksWellformed
  BY IdleLocals DEF Init, TasksWellformed
<1>5. RunsWellformed /\ ApprovalsWellformed /\ HandleWellformed
  BY DEF Init, RunsWellformed, ApprovalsWellformed, HandleWellformed, NoRun, NoApproval
<1> QED
  BY <1>3, <1>4, <1>5 DEF Wellformed

\* One step of the specification, action by action.
LEMMA NextWellformed ==
  ASSUME Wellformed, [Next]_vars
  PROVE  Wellformed'
<1>1. CASE UNCHANGED vars
  BY <1>1, AmbientStep DEF vars, db, memory, world, bounds, Wellformed, TypeOK
<1>2. ASSUME NEW t \in Task, Request(t) PROVE Wellformed'
  BY <1>2, HandleAlertWellformed, HandleOperatorTriggerWellformed, ExecuteApprovedWellformed,
     ToggleOffWellformed DEF Request
<1>3. ASSUME NEW t \in Task, Step(t) PROVE Wellformed'
  BY <1>3, CheckDriftWellformed, GateSwitchWellformed, GateLimitsWellformed, ApproveWellformed,
     ClaimWellformed, TakeTranscriptLockWellformed, PrepareFailsWellformed, PublishWellformed,
     StartProcessWellformed, ExecReturnsWellformed, ExecFailsWellformed, PersistWellformed,
     PinRealRunWellformed, RevertWellformed, WriteFlagOffWellformed, KillSnapshotWellformed,
     KillContainerWellformed, KillVerifyWellformed, KillStampWellformed DEF Step
<1>4. CASE Environment
  BY <1>4, RejectWellformed, ToggleOnWellformed, RefreshWellformed, PatchGatesWellformed,
     PruneWellformed, OrphanExitsWellformed, ContainerStartsWellformed, TickWellformed,
     CrashWellformed DEF Environment
<1> QED
  BY <1>1, <1>2, <1>3, <1>4 DEF Next

LEMMA AlwaysWellformed == Spec => []Wellformed
  BY InitWellformed, NextWellformed, PTL DEF Spec

\* Whatever the tasks, the registry, the kill switch and crashes do, every row,
\* every local and every lock of the orchestrator stays in its type: no action
\* of AutoFix reads a runbook, a run or an approval that is not there.
THEOREM TypeCorrect == Spec => []TypeOK
<1>1. Wellformed => TypeOK
  BY DEF Wellformed
<1> QED
  BY <1>1, AlwaysWellformed, PTL

\* kill_inflight never stamps killed_at on a dry run, whatever race of publish,
\* exec end, kill and crash it meets.
THEOREM OnlyRealKilled == Spec => []OnlyRealRunsAreKilled
<1>1. Wellformed => OnlyRealRunsAreKilled
  BY DEF Wellformed, RunsWellformed, OnlyRealRunsAreKilled, NoRun
<1> QED
  BY <1>1, AlwaysWellformed, PTL

----------------------------------------------------------------------------
(* The approval protocol. *)

\* A step of one task that writes neither table: ownership is kept when the
\* task does not come to own a run or an approval that it did not own before.
LEMMA LocalOwned ==
  ASSUME ApprovalInv, NEW t \in Task, NEW l, NEW c,
         pc' = [pc EXCEPT ![t] = l], ctx' = [ctx EXCEPT ![t] = c],
         l \in AfterClaim => /\ pc[t] \in AfterClaim \ {"pin"}
                             /\ c.run = ctx[t].run /\ c.appr = ctx[t].appr,
         l \in Approved /\ c.appr # None =>
             /\ pc[t] \in Approved /\ c.appr = ctx[t].appr
             /\ l \in {"lock", "revert"} => pc[t] \in {"lock", "revert"},
         UNCHANGED <<runs, approvals>>
  PROVE  Owned'
<1>1. \A u \in Task : /\ pc'[u] = IF u = t THEN l ELSE pc[u]
                      /\ ctx'[u] = IF u = t THEN c ELSE ctx[u]
  BY DEF ApprovalInv, Wellformed, TypeOK
<1>2. ClaimsOwned'
  BY <1>1 DEF ApprovalInv, Owned, ClaimsOwned
<1>3. ApprovalsOwned'
  BY <1>1 DEF ApprovalInv, Owned, ApprovalsOwned
<1>4. ApprovalsComplete' /\ OneRunPerApproval' /\ SpentApprovalStaysApproved'
  BY DEF ApprovalInv, Owned, ApprovalsComplete, OneRunPerApproval, SpentApprovalStaysApproved
<1> QED
  BY <1>2, <1>3, <1>4 DEF Owned

\* A task that goes idle.
LEMMA FinishOwned ==
  ASSUME ApprovalInv, NEW t \in Task, Finish(t), UNCHANGED <<runs, approvals>>
  PROVE  Owned'
  BY LocalOwned DEF Finish, AfterClaim, Approved

\* A task that only moves to another label.
LEMMA GotoOwned ==
  ASSUME ApprovalInv, NEW t \in Task, NEW l, Goto(t, l),
         l \in AfterClaim => pc[t] \in AfterClaim \ {"pin"},
         l \in Approved /\ ctx[t].appr # None =>
             /\ pc[t] \in Approved
             /\ l \in {"lock", "revert"} => pc[t] \in {"lock", "revert"},
         UNCHANGED <<runs, approvals, ctx>>
  PROVE  Owned'
<1>1. ctx[t] \in Ctx /\ ctx' = [ctx EXCEPT ![t] = ctx[t]]
  BY DEF ApprovalInv, Wellformed, TypeOK
<1> QED
  BY <1>1, LocalOwned DEF Goto

\* A task at a label where it owns nothing yet.
LEMMA EarlyOwned ==
  ASSUME ApprovalInv, NEW t \in Task, NEW l \in PCs \ Approved, NEW c,
         Goto(t, l), ctx' = [ctx EXCEPT ![t] = c], UNCHANGED <<runs, approvals>>
  PROVE  Owned'
  BY LocalOwned DEF Goto, Approved

\* A step that writes neither table and moves no task.
LEMMA AmbientOwned ==
  ASSUME ApprovalInv, UNCHANGED <<runs, approvals, pc, ctx>>
  PROVE  Owned'
  BY DEF ApprovalInv, Owned, ClaimsOwned, ApprovalsOwned, ApprovalsComplete, OneRunPerApproval,
         SpentApprovalStaysApproved

LEMMA LoadOwned ==
  ASSUME ApprovalInv, NEW t \in Task, NEW r, NEW al, NEW mode, NEW auto,
         Load(t, r, al, mode, auto)
  PROVE  Owned'
  BY EarlyOwned DEF Load, PCs, RunPCs, AfterClaim, Approved, db

LEMMA RequestOwned ==
  ASSUME ApprovalInv, NEW t \in Task, Request(t)
  PROVE  Owned'
<1>1. ASSUME NEW al \in Alert, HandleAlert(t, al) PROVE Owned'
  BY <1>1, LoadOwned, AmbientOwned DEF HandleAlert, vars, db
<1>2. ASSUME NEW r \in Runbook, NEW mode \in Modes, HandleOperatorTrigger(t, r, mode) PROVE Owned'
  BY <1>2, LoadOwned DEF HandleOperatorTrigger
<1>3. ASSUME NEW a \in RunId, ExecuteApproved(t, a) PROVE Owned'
  BY <1>3, EarlyOwned DEF ExecuteApproved, PCs, RunPCs, AfterClaim, Approved, db
<1>4. CASE ToggleOff(t)
  BY <1>4, GotoOwned DEF ToggleOff, AfterClaim, Approved, db
<1> QED
  BY <1>1, <1>2, <1>3, <1>4 DEF Request

\* mark_rejected leaves alone what a task holds and what a run has spent: both
\* are approved.
LEMMA MarkRejectedOwned ==
  ASSUME ApprovalInv, NEW a \in RunId, MarkRejected(a), UNCHANGED runs,
         UNCHANGED <<pc, ctx>> \/ \E t \in Task : Finish(t)
  PROVE  Owned'
<1>1. \A x \in RunId : /\ approvals[x].status = "approved" => approvals'[x] = approvals[x]
                       /\ approvals[x].status # "none" <=> approvals'[x].status # "none"
                       /\ approvals[x].status = "approved" <=> approvals'[x].status = "approved"
                       /\ approvals'[x].real = approvals[x].real
  BY DEF MarkRejected, ApprovalInv, Wellformed, TypeOK, ApprovalRow
<1>2. \A u \in Task : pc'[u] \in Approved => pc'[u] = pc[u] /\ ctx'[u] = ctx[u]
  BY DEF Finish, ApprovalInv, Wellformed, TypeOK, Approved, AfterClaim
<1>3. \A u \in Task : ctx[u].appr \in RunId \cup {None} /\ runs[ctx[u].run].appr = runs'[ctx[u].run].appr
  BY DEF ApprovalInv, Wellformed, TypeOK, Ctx
<1>4. \A i \in RunId : runs[i].appr \in RunId \cup {None}
  BY DEF ApprovalInv, Wellformed, TypeOK, RunRow
<1>5. ClaimsOwned'
  BY <1>2 DEF ApprovalInv, Owned, ClaimsOwned, Approved
<1>6. ApprovalsOwned'
  BY <1>1, <1>2, <1>3 DEF ApprovalInv, Owned, ApprovalsOwned
<1>7. ApprovalsComplete' /\ OneRunPerApproval' /\ SpentApprovalStaysApproved'
  BY <1>1, <1>4 DEF ApprovalInv, Owned, ApprovalsComplete, OneRunPerApproval, SpentApprovalStaysApproved
<1> QED
  BY <1>5, <1>6, <1>7 DEF Owned

LEMMA ApproveOwned ==
  ASSUME ApprovalInv, NEW t \in Task, Approve(t)
  PROVE  Owned'
<1> DEFINE a == ctx[t].appr
<1>1. CASE Deny(t)
  BY <1>1, FinishOwned DEF Deny, db
<1>2. CASE /\ MarkApprovedLands(a)
           /\ approvals' = [approvals EXCEPT ![a].status = "approved"]
           /\ ctx' = [ctx EXCEPT ![t].at = now]
           /\ Goto(t, "lock")
           /\ UNCHANGED runs
  <2>1. a \in RunId
    BY DEF Approve, ApprovalInv, Wellformed, TypeOK, TasksWellformed, LocalsOK, Ctx
  <2>2. /\ approvals[a].status = "pending" /\ approvals[a].real = None
        /\ approvals'[a].status = "approved" /\ approvals'[a].real = None
        /\ \A x \in RunId : x # a => approvals'[x] = approvals[x]
    BY <1>2, <2>1 DEF MarkApprovedLands, ApprovalInv, Owned, ApprovalsComplete, Wellformed, TypeOK,
                      ApprovalRow
  <2>3. \A u \in Task : /\ pc'[u] = IF u = t THEN "lock" ELSE pc[u]
                        /\ ctx'[u].appr = ctx[u].appr /\ ctx'[u].run = ctx[u].run
                        /\ ctx[u].appr \in RunId \cup {None}
    BY <1>2 DEF Goto, ApprovalInv, Wellformed, TypeOK, Ctx
  <2>4. \A i \in RunId : runs[i].appr \in RunId \cup {None} /\ runs[i].appr # a
    BY <2>1, <2>2, DataAssumption
       DEF ApprovalInv, Owned, SpentApprovalStaysApproved, Wellformed, TypeOK, RunRow
  <2>5. \A u \in Task : pc[u] \in Approved => ctx[u].appr # a
    BY <2>1, <2>2, DataAssumption DEF ApprovalInv, Owned, ApprovalsOwned
  <2>6. ClaimsOwned'
    BY <1>2, <2>3 DEF ApprovalInv, Owned, ClaimsOwned, AfterClaim
  <2>7. ApprovalsOwned'
    BY <1>2, <2>2, <2>3, <2>4, <2>5 DEF ApprovalInv, Owned, ApprovalsOwned
  <2>8. ApprovalsComplete' /\ OneRunPerApproval' /\ SpentApprovalStaysApproved'
    BY <1>2, <2>2, <2>4
       DEF ApprovalInv, Owned, ApprovalsComplete, OneRunPerApproval, SpentApprovalStaysApproved
  <2> QED
    BY <2>6, <2>7, <2>8 DEF Owned
<1> QED
  BY <1>1, <1>2 DEF Approve

LEMMA ClaimOwned ==
  ASSUME ApprovalInv, NEW t \in Task, Claim(t)
  PROVE  Owned'
<1> DEFINE a == ctx[t].appr
<1>1. CASE ClaimDenied(t)
  <2>1. CASE Finish(t)
    BY <1>1, <2>1, FinishOwned DEF ClaimDenied, db
  <2>2. CASE Goto(t, "revert") /\ UNCHANGED ctx
    BY <1>1, <2>2, GotoOwned DEF Claim, ClaimDenied, AfterClaim, Approved, db
  <2> QED
    BY <1>1, <2>1, <2>2 DEF ClaimDenied
<1>2. ASSUME NEW i \in RunId, runs[i].mode = "none",
             runs' = [runs EXCEPT ![i] = Claimed(t)], ctx' = [ctx EXCEPT ![t].run = i],
             Goto(t, "transcript"), UNCHANGED approvals
      PROVE  Owned'
  <2>1. /\ Claimed(t).appr = a /\ Claimed(t).ended = NoTime
        /\ \A x \in RunId : runs'[x] = IF x = i THEN Claimed(t) ELSE runs[x]
    BY <1>2 DEF Claimed, NoRun, ApprovalInv, Wellformed, TypeOK
  <2>2. /\ runs[i].appr = None /\ runs[i].ended = NoTime /\ approvals[i].status = "none"
        /\ a \in RunId \cup {None}
    BY <1>2 DEF ApprovalInv, Wellformed, TypeOK, RunsWellformed, ApprovalsWellformed, NoRun, Ctx
  <2>3. \A u \in Task : pc[u] \in AfterClaim => ctx[u].run \in RunId /\ ctx[u].run # i
    BY <1>2 DEF ApprovalInv, Wellformed, TypeOK, TasksWellformed, LocalsOK, Ctx, Modes
  <2>4. \A u \in Task : /\ pc'[u] = IF u = t THEN "transcript" ELSE pc[u]
                        /\ ctx'[u].run = IF u = t THEN i ELSE ctx[u].run
                        /\ ctx'[u].appr = ctx[u].appr
    BY <1>2 DEF Goto, ApprovalInv, Wellformed, TypeOK, Ctx
  <2>5. a # None => /\ approvals[a].status = "approved" /\ approvals[a].real = None
                    /\ \A j \in RunId : runs[j].appr # a
    BY DEF Claim, ApprovalInv, Owned, ApprovalsOwned, Approved
  <2>6. \A u \in Task : u # t /\ pc[u] \in Approved /\ a # None => ctx[u].appr # a
    BY DEF Claim, ApprovalInv, Owned, ApprovalsOwned, Approved
  <2> HIDE DEF a
  <2>7. ClaimsOwned'
    BY <2>1, <2>2, <2>3, <2>4 DEF ApprovalInv, Owned, ClaimsOwned, AfterClaim, a
  <2>8. ApprovalsOwned'
    <3>1. \A u \in Task : pc'[u] \in Approved <=> pc[u] \in Approved
      BY <2>4 DEF Claim, Approved, AfterClaim
    <3>2. ASSUME NEW u \in Task, pc'[u] \in Approved, ctx'[u].appr # None
          PROVE  /\ approvals[ctx[u].appr].status = "approved"
                 /\ approvals[ctx[u].appr].real = None
                 /\ pc'[u] \in {"lock", "revert"} => \A j \in RunId : runs'[j].appr # ctx[u].appr
      BY <2>1, <2>4, <2>6, <3>1, <3>2 DEF ApprovalInv, Owned, ApprovalsOwned
    <3> QED
      BY <1>2, <2>4, <3>1, <3>2 DEF ApprovalInv, Owned, ApprovalsOwned
  <2>9. ApprovalsComplete'
    BY <1>2, <2>1, <2>2 DEF ApprovalInv, Owned, ApprovalsComplete
  <2>10. OneRunPerApproval'
    BY <2>1, <2>5 DEF ApprovalInv, Owned, OneRunPerApproval
  <2>11. SpentApprovalStaysApproved'
    BY <1>2, <2>1, <2>5 DEF ApprovalInv, Owned, SpentApprovalStaysApproved
  <2> QED
    BY <2>7, <2>8, <2>9, <2>10, <2>11 DEF Owned
<1> QED
  BY <1>1, <1>2 DEF Claim

LEMMA LeaveExecOwned ==
  ASSUME ApprovalInv, NEW t \in Task, pc[t] \in {"prepare", "create", "exec"}, NEW res,
         LeaveExec(t, res), UNCHANGED <<runs, approvals>>
  PROVE  Owned'
<1> DEFINE c == [ctx[t] EXCEPT !.res = res]
<1>1. ctx' = [ctx EXCEPT ![t] = c] /\ pc' = [pc EXCEPT ![t] = "persist"]
  BY DEF LeaveExec, Goto
<1>2. c.run = ctx[t].run /\ c.appr = ctx[t].appr
  BY DEF ApprovalInv, Wellformed, TypeOK, Ctx
<1> HIDE DEF c
<1> QED
  BY <1>1, <1>2, LocalOwned DEF AfterClaim, Approved

LEMMA PublishOwned ==
  ASSUME ApprovalInv, NEW t \in Task, Publish(t)
  PROVE  Owned'
<1> DEFINE c == [ctx[t] EXCEPT !.at = now]
<1>1. ctx' = [ctx EXCEPT ![t] = c] /\ pc' = [pc EXCEPT ![t] = "create"]
  BY DEF Publish, Goto
<1>2. c.run = ctx[t].run /\ c.appr = ctx[t].appr
  BY DEF ApprovalInv, Wellformed, TypeOK, Ctx
<1> HIDE DEF c
<1> QED
  BY <1>1, <1>2, LocalOwned DEF Publish, AfterClaim, Approved, db

LEMMA PersistOwned ==
  ASSUME ApprovalInv, NEW t \in Task, Persist(t)
  PROVE  Owned'
<1> DEFINE i == ctx[t].run
           a == ctx[t].appr
<1>1. /\ i \in RunId /\ runs[i].appr = a /\ runs[i].ended = NoTime
      /\ approvals[i].status = "none" /\ a \in RunId \cup {None} /\ now \in Nat
  BY DEF Persist, ApprovalInv, Wellformed, TypeOK, TasksWellformed, LocalsOK, AfterClaim, Ctx,
         Owned, ClaimsOwned, ApprovalsComplete
<1>2. \A x \in RunId : /\ runs'[x].appr = runs[x].appr
                       /\ x # i => runs'[x].ended = runs[x].ended
                       /\ x = i => runs'[x].ended # NoTime
  BY <1>1 DEF Persist, ApprovalInv, Wellformed, TypeOK, RunRow, NoTime
<1>3. \A x \in RunId : x # i => approvals'[x] = approvals[x]
  BY <1>1 DEF Persist, ApprovalInv, Wellformed, TypeOK
<1>4. approvals'[i].status # "approved" /\ approvals'[i].real = None
  BY <1>1 DEF Persist, ApprovalInv, Wellformed, TypeOK, Owned, ApprovalsComplete
<1>5. \A u \in Task : /\ pc'[u] \in Approved => pc[u] \in Approved /\ ctx'[u] = ctx[u]
                      /\ pc'[u] \in AfterClaim => pc[u] \in AfterClaim
                      /\ pc'[u] \in AfterClaim \ {"pin"} => u # t /\ pc'[u] = pc[u]
                      /\ pc'[u] \in {"lock", "revert"} => pc'[u] = pc[u]
  BY DEF Persist, Goto, AfterPersist, ApprovalInv, Wellformed, TypeOK, AfterClaim, Approved
<1>6. \A u \in Task : pc[u] \in AfterClaim => ctx[u].run \in RunId /\ (u # t => ctx[u].run # i)
  BY DEF Persist, ApprovalInv, Wellformed, TypeOK, TasksWellformed, LocalsOK, AfterClaim, Ctx,
         Owned, ClaimsOwned
<1>7. \A u \in Task : pc[u] \in Approved => ctx[u].appr \in RunId \cup {None} /\ ctx[u].appr # i
  BY <1>1, DataAssumption DEF ApprovalInv, Wellformed, TypeOK, Ctx, Owned, ApprovalsOwned
<1>8. \A x \in RunId : runs[x].appr \in RunId \cup {None} /\ runs[x].appr # i
  BY <1>1, DataAssumption
     DEF ApprovalInv, Wellformed, TypeOK, RunRow, Owned, SpentApprovalStaysApproved
<1> HIDE DEF i, a
<1>9. ClaimsOwned'
  BY <1>2, <1>5, <1>6 DEF ApprovalInv, Owned, ClaimsOwned, Approved
<1>10. ApprovalsOwned'
  BY <1>2, <1>3, <1>5, <1>7 DEF ApprovalInv, Owned, ApprovalsOwned
<1>11. ApprovalsComplete'
  BY <1>1, <1>2, <1>3, <1>4 DEF ApprovalInv, Owned, ApprovalsComplete
<1>12. OneRunPerApproval' /\ SpentApprovalStaysApproved'
  BY <1>2, <1>3, <1>8 DEF ApprovalInv, Owned, OneRunPerApproval, SpentApprovalStaysApproved
<1> QED
  BY <1>9, <1>10, <1>11, <1>12 DEF Owned

\* pin and revert write the approval that the finishing task holds: no other
\* task is concerned.
LEMMA SettleOwned ==
  ASSUME ApprovalInv, NEW t \in Task, pc[t] \in {"pin", "revert"}, Finish(t), UNCHANGED runs
  PROVE  /\ \A u \in Task : pc'[u] \in Approved => u # t /\ pc'[u] = pc[u] /\ ctx'[u] = ctx[u]
         /\ \A u \in Task : u # t /\ pc[u] \in Approved => ctx[u].appr # ctx[t].appr
         /\ ctx[t].appr \in RunId /\ \A u \in Task : ctx[u].appr \in RunId \cup {None}
         /\ \A i \in RunId : runs[i].appr \in RunId \cup {None}
         /\ ClaimsOwned' /\ OneRunPerApproval'
<1>1. \A u \in Task : pc'[u] \in Approved => u # t /\ pc'[u] = pc[u] /\ ctx'[u] = ctx[u]
  BY DEF Finish, Approved, AfterClaim, ApprovalInv, Wellformed, TypeOK
<1>2. ctx[t].appr \in RunId /\ \A u \in Task : ctx[u].appr \in RunId \cup {None}
  BY DEF ApprovalInv, Wellformed, TypeOK, TasksWellformed, LocalsOK, Ctx
<1>3. \A i \in RunId : runs[i].appr \in RunId \cup {None}
  BY DEF ApprovalInv, Wellformed, TypeOK, RunRow
<1>4. \A u \in Task : u # t /\ pc[u] \in Approved => ctx[u].appr # ctx[t].appr
  BY <1>2, DataAssumption DEF ApprovalInv, Owned, ApprovalsOwned, Approved, AfterClaim
<1>5. ClaimsOwned' /\ OneRunPerApproval'
  BY <1>1 DEF ApprovalInv, Owned, ClaimsOwned, OneRunPerApproval, Approved
<1> QED
  BY <1>1, <1>2, <1>3, <1>4, <1>5

LEMMA PinRealRunOwned ==
  ASSUME ApprovalInv, NEW t \in Task, PinRealRun(t)
  PROVE  Owned'
<1> DEFINE a == ctx[t].appr
           i == ctx[t].run
<1>1. /\ \A u \in Task : pc'[u] \in Approved => u # t /\ pc'[u] = pc[u] /\ ctx'[u] = ctx[u]
      /\ \A u \in Task : u # t /\ pc[u] \in Approved => ctx[u].appr # a
      /\ a \in RunId /\ \A u \in Task : ctx[u].appr \in RunId \cup {None}
      /\ \A x \in RunId : runs[x].appr \in RunId \cup {None}
      /\ ClaimsOwned' /\ OneRunPerApproval'
  BY SettleOwned DEF PinRealRun
<1>2. i \in RunId /\ runs[i].appr = a /\ approvals[a].status = "approved"
  BY <1>1, DataAssumption DEF PinRealRun, ApprovalInv, Wellformed, TasksWellformed, LocalsOK, AfterClaim, Approved,
         Owned, ClaimsOwned, ApprovalsOwned
<1>3. /\ approvals'[a].status = "approved" /\ approvals'[a].real = i
      /\ \A x \in RunId : x # a => approvals'[x] = approvals[x]
  BY <1>1, <1>2 DEF PinRealRun, ApprovalInv, Wellformed, TypeOK, ApprovalRow
<1>4. UNCHANGED runs
  BY DEF PinRealRun
<1>5. \A x \in RunId : runs[x].appr = a => x = i
  BY <1>1, <1>2, DataAssumption DEF ApprovalInv, Owned, OneRunPerApproval
<1> HIDE DEF a, i
<1>6. ApprovalsOwned'
  BY <1>1, <1>3, <1>4 DEF ApprovalInv, Owned, ApprovalsOwned
<1>7. ApprovalsComplete'
  BY <1>2, <1>3, <1>4 DEF ApprovalInv, Owned, ApprovalsComplete
<1>8. SpentApprovalStaysApproved'
  BY <1>1, <1>3, <1>4, <1>5 DEF ApprovalInv, Owned, SpentApprovalStaysApproved
<1> QED
  BY <1>1, <1>6, <1>7, <1>8 DEF Owned

LEMMA RevertOwned ==
  ASSUME ApprovalInv, NEW t \in Task, Revert(t)
  PROVE  Owned'
<1> DEFINE a == ctx[t].appr
<1>1. /\ \A u \in Task : pc'[u] \in Approved => u # t /\ pc'[u] = pc[u] /\ ctx'[u] = ctx[u]
      /\ \A u \in Task : u # t /\ pc[u] \in Approved => ctx[u].appr # a
      /\ a \in RunId /\ \A u \in Task : ctx[u].appr \in RunId \cup {None}
      /\ \A x \in RunId : runs[x].appr \in RunId \cup {None}
      /\ ClaimsOwned' /\ OneRunPerApproval'
  BY SettleOwned DEF Revert
<1>2. /\ approvals[a].status = "approved" /\ approvals[a].real = None
      /\ \A x \in RunId : runs[x].appr # a
  BY <1>1, DataAssumption DEF Revert, ApprovalInv, Approved, Owned, ApprovalsOwned
<1>3. /\ approvals'[a].status = "pending" /\ approvals'[a].real = None
      /\ \A x \in RunId : x # a => approvals'[x] = approvals[x]
  BY <1>1, <1>2 DEF Revert, ApprovalInv, Wellformed, TypeOK, ApprovalRow
<1>4. UNCHANGED runs
  BY DEF Revert
<1> HIDE DEF a
<1>5. ApprovalsOwned'
  BY <1>1, <1>3, <1>4 DEF ApprovalInv, Owned, ApprovalsOwned
<1>6. ApprovalsComplete'
  BY <1>2, <1>3, <1>4 DEF ApprovalInv, Owned, ApprovalsComplete
<1>7. SpentApprovalStaysApproved'
  BY <1>1, <1>2, <1>3, <1>4 DEF ApprovalInv, Owned, SpentApprovalStaysApproved
<1> QED
  BY <1>1, <1>5, <1>6, <1>7 DEF Owned

LEMMA KillStampOwned ==
  ASSUME ApprovalInv, NEW t \in Task, KillStamp(t)
  PROVE  Owned'
<1>1. \A i \in RunId : runs'[i].appr = runs[i].appr /\ runs'[i].ended = runs[i].ended
  BY DEF KillStamp, ApprovalInv, Wellformed, TypeOK, RunRow
<1>2. \A u \in Task : pc'[u] \in Approved => pc'[u] = pc[u] /\ ctx'[u] = ctx[u]
  BY DEF KillStamp, Finish, Approved, AfterClaim, ApprovalInv, Wellformed, TypeOK
<1>3. \A u \in Task : pc[u] \in AfterClaim => ctx[u].run \in RunId
  BY DEF ApprovalInv, Wellformed, TasksWellformed, LocalsOK
<1>4. ClaimsOwned'
  BY <1>1, <1>2, <1>3 DEF ApprovalInv, Owned, ClaimsOwned, Approved
<1>5. ApprovalsOwned'
  BY <1>1, <1>2 DEF KillStamp, ApprovalInv, Owned, ApprovalsOwned
<1>6. ApprovalsComplete' /\ OneRunPerApproval' /\ SpentApprovalStaysApproved'
  BY <1>1 DEF KillStamp, ApprovalInv, Owned, ApprovalsComplete, OneRunPerApproval,
              SpentApprovalStaysApproved
<1> QED
  BY <1>4, <1>5, <1>6 DEF Owned

LEMMA CheckDriftOwned ==
  ASSUME ApprovalInv, NEW t \in Task, CheckDrift(t)
  PROVE  Owned'
<1>1. ctx[t].appr \in RunId
  BY DEF CheckDrift, ApprovalInv, Wellformed, TypeOK, TasksWellformed, LocalsOK, Ctx
<1>2. CASE MarkRejected(ctx[t].appr) /\ Finish(t) /\ UNCHANGED runs
  BY <1>1, <1>2, MarkRejectedOwned
<1>3. CASE Goto(t, "switch") /\ UNCHANGED <<runs, approvals>>
           /\ \E c : ctx' = [ctx EXCEPT ![t] = c]
  BY <1>3, EarlyOwned DEF PCs, RunPCs, Approved, AfterClaim
<1> QED
  BY <1>2, <1>3 DEF CheckDrift, db

LEMMA GateLimitsOwned ==
  ASSUME ApprovalInv, NEW t \in Task, GateLimits(t)
  PROVE  Owned'
<1> DEFINE l == IF ctx[t].appr = None THEN "lock" ELSE "approve"
           c == [ctx[t] EXCEPT !.at = now]
<1>1. CASE Deny(t)
  BY <1>1, FinishOwned DEF Deny, db
<1>2. CASE Goto(t, l) /\ ctx' = [ctx EXCEPT ![t].at = now] /\ UNCHANGED <<runs, approvals>>
  <2>1. ctx' = [ctx EXCEPT ![t] = c] /\ pc' = [pc EXCEPT ![t] = l] /\ c.appr = ctx[t].appr
    BY <1>2 DEF Goto, ApprovalInv, Wellformed, TypeOK, Ctx
  <2>2. l \notin AfterClaim /\ ~(l \in Approved /\ c.appr # None)
    BY <2>1 DEF AfterClaim, Approved
  <2> HIDE DEF l, c
  <2> QED
    BY <1>2, <2>1, <2>2, LocalOwned
<1> QED
  BY <1>1, <1>2 DEF GateLimits, db

LEMMA KillSnapshotOwned ==
  ASSUME ApprovalInv, NEW t \in Task, KillSnapshot(t)
  PROVE  Owned'
<1>1. CASE Deny(t)
  BY <1>1, FinishOwned DEF Deny, db
<1>2. CASE Goto(t, "kill") /\ UNCHANGED <<runs, approvals>>
           /\ \E c : ctx' = [ctx EXCEPT ![t] = c]
  BY <1>2, EarlyOwned DEF PCs, KillPCs, Approved, AfterClaim
<1> QED
  BY <1>1, <1>2 DEF KillSnapshot, db

LEMMA StepOwned ==
  ASSUME ApprovalInv, NEW t \in Task, Step(t)
  PROVE  Owned'
<1>1. CASE GateSwitch(t)
  <2>1. CASE Deny(t)
    BY <2>1, FinishOwned DEF Deny, db
  <2>2. CASE Goto(t, "limits") /\ UNCHANGED <<runs, approvals, ctx>>
    BY <2>2, GotoOwned DEF AfterClaim, Approved
  <2> QED
    BY <1>1, <2>1, <2>2 DEF GateSwitch, db
<1>2. CASE TakeTranscriptLock(t)
  BY <1>2, GotoOwned DEF TakeTranscriptLock, AfterClaim, Approved, db
<1>3. CASE StartProcess(t)
  BY <1>3, GotoOwned DEF StartProcess, AfterClaim, Approved, db
<1>4. CASE PrepareFails(t) \/ ExecReturns(t) \/ ExecFails(t)
  BY <1>4, LeaveExecOwned DEF PrepareFails, ExecReturns, ExecFails, db
<1>5. CASE WriteFlagOff(t)
  BY <1>5, GotoOwned DEF WriteFlagOff, AfterClaim, Approved
<1>6. CASE KillContainer(t)
  <2>1. CASE Deny(t)
    BY <2>1, FinishOwned DEF Deny, db
  <2>2. CASE Goto(t, "verify") /\ UNCHANGED <<runs, approvals, ctx>>
    BY <2>2, GotoOwned DEF AfterClaim, Approved
  <2> QED
    BY <1>6, <2>1, <2>2 DEF KillContainer, db
<1>7. CASE KillVerify(t)
  <2>1. CASE Deny(t)
    BY <2>1, FinishOwned DEF Deny, db
  <2>2. CASE Goto(t, "stamp") /\ UNCHANGED <<runs, approvals, ctx>>
    BY <2>2, GotoOwned DEF AfterClaim, Approved
  <2> QED
    BY <1>7, <2>1, <2>2 DEF KillVerify, db
<1> QED
  BY <1>1, <1>2, <1>3, <1>4, <1>5, <1>6, <1>7, CheckDriftOwned, GateLimitsOwned, ApproveOwned,
     ClaimOwned, PublishOwned, PersistOwned, PinRealRunOwned, RevertOwned, KillSnapshotOwned,
     KillStampOwned DEF Step

LEMMA EnvironmentOwned ==
  ASSUME ApprovalInv, Environment
  PROVE  Owned'
<1>1. ASSUME NEW a \in RunId, Reject(a) PROVE Owned'
  BY <1>1, MarkRejectedOwned DEF Reject
<1>2. CASE \E r \in Runbook : Refresh(r) \/ PatchGates(r) \/ Prune(r)
  BY <1>2, AmbientOwned DEF Refresh, PatchGates, Prune, Edit
<1>3. CASE ToggleOn \/ ContainerStarts \/ Tick \/ \E i \in RunId : OrphanExits(i)
  BY <1>3, AmbientOwned DEF ToggleOn, ContainerStarts, Tick, OrphanExits, db
<1>4. CASE Crash
  <2>1. \A t \in Task : pc'[t] \notin Approved
    BY <1>4 DEF Crash, Approved, AfterClaim
  <2>2. UNCHANGED <<runs, approvals>>
    BY <1>4 DEF Crash, db
  <2> QED
    BY <2>1, <2>2 DEF ApprovalInv, Owned, ClaimsOwned, ApprovalsOwned, ApprovalsComplete,
                      OneRunPerApproval, SpentApprovalStaysApproved, Approved
<1> QED
  BY <1>1, <1>2, <1>3, <1>4 DEF Environment

LEMMA AlwaysApprovalInv == Spec => []ApprovalInv
<1>1. Init => ApprovalInv
  <2> SUFFICES ASSUME Init PROVE Owned
    BY InitWellformed DEF ApprovalInv
  <2>1. ClaimsOwned /\ ApprovalsOwned
    BY DEF Init, ClaimsOwned, ApprovalsOwned, AfterClaim, Approved
  <2>2. ApprovalsComplete /\ OneRunPerApproval /\ SpentApprovalStaysApproved
    BY DEF Init, ApprovalsComplete, OneRunPerApproval, SpentApprovalStaysApproved, NoRun, NoApproval
  <2> QED
    BY <2>1, <2>2 DEF Owned
<1>2. ApprovalInv /\ [Next]_vars => ApprovalInv'
  <2> SUFFICES ASSUME ApprovalInv, [Next]_vars PROVE Owned'
    BY NextWellformed DEF ApprovalInv
  <2>1. CASE UNCHANGED vars
    BY <2>1, AmbientOwned DEF vars, db
  <2>2. CASE Next
    BY <2>2, RequestOwned, StepOwned, EnvironmentOwned DEF Next
  <2> QED
    BY <2>1, <2>2
<1> QED
  BY <1>1, <1>2, PTL DEF Spec

\* One approval buys at most one real run, for any number of approvers, runs,
\* runbooks, registry edits, toggles and crashes.
THEOREM ApprovalsBuyOneRun == Spec => []OneRunPerApproval
<1>1. ApprovalInv => OneRunPerApproval
  BY DEF ApprovalInv, Owned
<1> QED
  BY <1>1, AlwaysApprovalInv, PTL

\* revert_to_pending and mark_rejected never touch the approval of a claimed run.
THEOREM SpentApprovalsStay == Spec => []SpentApprovalStaysApproved
<1>1. ApprovalInv => SpentApprovalStaysApproved
  BY DEF ApprovalInv, Owned
<1> QED
  BY <1>1, AlwaysApprovalInv, PTL

----------------------------------------------------------------------------
(* What a run was claimed for.  The tables are a history: a row keeps what it *)
(* was inserted with, an end is final, and an approval keeps the version of   *)
(* its plan.  A task keeps the alert and the version that it loaded, although *)
(* the registry may change between its load, its gates and its claim.         *)

\* A run keeps what it was claimed for, and a recorded end is final.
RowsKept ==
    \A i \in RunId : runs[i].mode # "none" =>
        /\ runs'[i].mode = runs[i].mode /\ runs'[i].rb = runs[i].rb
        /\ runs'[i].alert = runs[i].alert /\ runs'[i].hash = runs[i].hash
        /\ runs'[i].appr = runs[i].appr
        /\ runs[i].ended # NoTime =>
              runs'[i].ended = runs[i].ended /\ runs'[i].exit = runs[i].exit

\* An approval keeps the version that its dry run planned for.
PlansKept ==
    \A a \in RunId : approvals[a].status # "none" =>
        approvals'[a].status # "none" /\ approvals'[a].hash = approvals[a].hash

\* What the locals c of a task at label l say of its run and of its approval.
Serves(l, c, ap, rs) ==
    /\ l \in AfterClaim =>
         rs[c.run].rb = c.rb /\ rs[c.run].alert = c.alert /\ rs[c.run].hash = c.hash
    /\ l \in RunPCs /\ c.appr # None =>
         /\ rs[c.appr].rb = c.rb /\ rs[c.appr].alert = c.alert
         /\ l # "drift" => ap[c.appr].hash = c.hash
    /\ l \in RunPCs \ {"drift"} /\ c.mode = "real" /\ c.hash \in RiskyVersions => c.appr # None

TasksFaithful == \A t \in Task : Serves(pc[t], ctx[t], approvals, runs)

\* An approval is for the version that its dry run ran.
PlansFaithful ==
    \A a \in RunId : approvals[a].status # "none" => approvals[a].hash = runs[a].hash

\* A real run of a risky version was claimed under the approval of such a plan.
RunsFaithful ==
    \A i \in RunId : runs[i].mode = "real" =>
        /\ runs[i].hash \in RiskyVersions => runs[i].appr # None
        /\ runs[i].appr # None =>
              /\ approvals[runs[i].appr].hash = runs[i].hash
              /\ runs[runs[i].appr].rb = runs[i].rb
              /\ runs[runs[i].appr].alert = runs[i].alert

\* An exit code comes with an end.
ExitsFaithful == \A i \in RunId : runs[i].exit = "zero" => runs[i].ended # NoTime

TablesFaithful == PlansFaithful /\ RunsFaithful /\ ExitsFaithful /\ AutoFixedIsEarned

Faithful == TasksFaithful /\ TablesFaithful

\* The inductive invariant for what is run and what is recorded of it.
FixInv == ApprovalInv /\ Faithful

\* A step that only changes statuses, pins and kill stamps is part of a history.
LEMMA QuietHistory ==
  ASSUME UNCHANGED <<runs, approvals>>
  PROVE  RowsKept /\ PlansKept
  BY DEF RowsKept, PlansKept

LEMMA MarkRejectedHistory ==
  ASSUME ApprovalInv, NEW a \in RunId, MarkRejected(a), UNCHANGED runs
  PROVE  RowsKept /\ PlansKept
  BY DEF MarkRejected, ApprovalInv, Wellformed, TypeOK, ApprovalRow, RowsKept, PlansKept

LEMMA ApproveHistory ==
  ASSUME ApprovalInv, NEW t \in Task, Approve(t)
  PROVE  RowsKept /\ PlansKept
<1>1. CASE Deny(t)
  BY <1>1, QuietHistory DEF Deny, db
<1>2. CASE approvals' = [approvals EXCEPT ![ctx[t].appr].status = "approved"] /\ UNCHANGED runs
  BY <1>2 DEF ApprovalInv, Wellformed, TypeOK, ApprovalRow, RowsKept, PlansKept
<1> QED
  BY <1>1, <1>2 DEF Approve

LEMMA ClaimHistory ==
  ASSUME ApprovalInv, NEW t \in Task, Claim(t)
  PROVE  RowsKept /\ PlansKept
<1>1. CASE ClaimDenied(t)
  BY <1>1, QuietHistory DEF ClaimDenied, db
<1>2. ASSUME NEW i \in RunId, runs[i].mode = "none", runs' = [runs EXCEPT ![i] = Claimed(t)],
             UNCHANGED approvals
      PROVE  RowsKept /\ PlansKept
  BY <1>2 DEF ApprovalInv, Wellformed, TypeOK, RowsKept, PlansKept
<1> QED
  BY <1>1, <1>2 DEF Claim

LEMMA PersistHistory ==
  ASSUME ApprovalInv, NEW t \in Task, Persist(t)
  PROVE  RowsKept /\ PlansKept
<1> DEFINE i == ctx[t].run
<1>1. i \in RunId /\ runs[i] \in RunRow /\ runs[i].ended = NoTime
  BY DEF Persist, ApprovalInv, Wellformed, TypeOK, TasksWellformed, LocalsOK, Owned, ClaimsOwned,
         AfterClaim
<1>2. approvals[i].status = "none"
  BY <1>1 DEF ApprovalInv, Owned, ApprovalsComplete
<1>3. /\ \A x \in RunId : x # i => runs'[x] = runs[x]
      /\ runs'[i] = [runs[i] EXCEPT !.ended = now, !.exit = ExitColumn(ctx[t].res)]
  BY <1>1 DEF Persist, ApprovalInv, Wellformed, TypeOK
<1>4. \A x \in RunId : x # i => approvals'[x] = approvals[x]
  BY <1>1 DEF Persist, ApprovalInv, Wellformed, TypeOK
<1>5. RowsKept
  <2>1. /\ runs'[i].mode = runs[i].mode /\ runs'[i].rb = runs[i].rb
        /\ runs'[i].alert = runs[i].alert /\ runs'[i].hash = runs[i].hash
        /\ runs'[i].appr = runs[i].appr
    BY <1>1, <1>3 DEF RunRow
  <2> QED
    BY <1>1, <1>3, <2>1 DEF RowsKept
<1>6. PlansKept
  BY <1>2, <1>4 DEF PlansKept
<1> QED
  BY <1>5, <1>6

LEMMA PinRealRunHistory ==
  ASSUME ApprovalInv, NEW t \in Task, PinRealRun(t)
  PROVE  RowsKept /\ PlansKept
  BY DEF PinRealRun, ApprovalInv, Wellformed, TypeOK, ApprovalRow, RowsKept, PlansKept

LEMMA RevertHistory ==
  ASSUME ApprovalInv, NEW t \in Task, Revert(t)
  PROVE  RowsKept /\ PlansKept
<1>1. ctx[t].appr \in RunId
  BY DEF Revert, ApprovalInv, Wellformed, TypeOK, TasksWellformed, LocalsOK, Ctx
<1> QED
  BY <1>1 DEF Revert, ApprovalInv, Wellformed, TypeOK, ApprovalRow, RowsKept, PlansKept

LEMMA KillStampHistory ==
  ASSUME ApprovalInv, NEW t \in Task, KillStamp(t)
  PROVE  RowsKept /\ PlansKept
  BY DEF KillStamp, ApprovalInv, Wellformed, TypeOK, RunRow, RowsKept, PlansKept

LEMMA CheckDriftHistory ==
  ASSUME ApprovalInv, NEW t \in Task, CheckDrift(t)
  PROVE  RowsKept /\ PlansKept
<1>1. ctx[t].appr \in RunId
  BY DEF CheckDrift, ApprovalInv, Wellformed, TypeOK, TasksWellformed, LocalsOK, Ctx
<1> QED
  BY <1>1, MarkRejectedHistory, QuietHistory DEF CheckDrift, db

LEMMA StepHistory ==
  ASSUME ApprovalInv, [Next]_vars
  PROVE  RowsKept /\ PlansKept
<1>1. CASE UNCHANGED vars
  BY <1>1, QuietHistory DEF vars, db
<1>2. ASSUME NEW t \in Task, Request(t) PROVE RowsKept /\ PlansKept
  BY <1>2, QuietHistory
     DEF Request, HandleAlert, HandleOperatorTrigger, ExecuteApproved, ToggleOff, Load, vars, db
<1>3. ASSUME NEW t \in Task, Step(t) PROVE RowsKept /\ PlansKept
  <2>1. CASE GateSwitch(t) \/ GateLimits(t) \/ TakeTranscriptLock(t)
    BY <2>1, QuietHistory DEF GateSwitch, GateLimits, TakeTranscriptLock, Deny, db
  <2>2. CASE PrepareFails(t) \/ Publish(t) \/ StartProcess(t) \/ ExecReturns(t) \/ ExecFails(t)
    BY <2>2, QuietHistory DEF PrepareFails, Publish, StartProcess, ExecReturns, ExecFails, db
  <2>3. CASE WriteFlagOff(t) \/ KillSnapshot(t) \/ KillContainer(t) \/ KillVerify(t)
    BY <2>3, QuietHistory DEF WriteFlagOff, KillSnapshot, KillContainer, KillVerify, Deny, db
  <2> QED
    BY <1>3, <2>1, <2>2, <2>3, CheckDriftHistory, ApproveHistory, ClaimHistory, PersistHistory,
       PinRealRunHistory, RevertHistory, KillStampHistory DEF Step
<1>4. ASSUME Environment PROVE RowsKept /\ PlansKept
  <2>1. ASSUME NEW a \in RunId, Reject(a) PROVE RowsKept /\ PlansKept
    BY <2>1, MarkRejectedHistory DEF Reject
  <2>2. CASE ~\E a \in RunId : Reject(a)
    BY <1>4, <2>2, QuietHistory
       DEF Environment, ToggleOn, Refresh, PatchGates, Prune, Edit, OrphanExits, ContainerStarts,
           Tick, Crash, db
  <2> QED
    BY <2>1, <2>2
<1> QED
  BY <1>1, <1>2, <1>3, <1>4 DEF Next

\* The tables are a history: no step rewrites what a run was claimed for, a
\* recorded end or exit code, or the version an approval was given for.
THEOREM HistoryIsKept == Spec => [][RowsKept /\ PlansKept]_vars
<1>1. ApprovalInv /\ [Next]_vars => [RowsKept /\ PlansKept]_vars
  BY StepHistory
<1> QED
  BY <1>1, AlwaysApprovalInv, PTL DEF Spec

\* What a task has loaded still holds after a step of another one.
LEMMA ServesKept ==
  ASSUME FixInv, RowsKept, PlansKept, NEW u \in Task
  PROVE  Serves(pc[u], ctx[u], approvals', runs')
<1>1. LocalsOK(pc[u], ctx[u], approvals, runs) /\ Serves(pc[u], ctx[u], approvals, runs)
  BY DEF FixInv, ApprovalInv, Wellformed, TasksWellformed, Faithful, TasksFaithful
<1>2. ctx[u].mode # "none" /\ ctx[u].appr \in RunId \cup {None}
  BY DEF FixInv, ApprovalInv, Wellformed, TypeOK, Ctx, Modes
<1>3. ctx[u].appr # None => runs[ctx[u].appr].mode # "none"
  BY <1>1, <1>2 DEF LocalsOK, FixInv, ApprovalInv, Wellformed, ApprovalsWellformed
<1>4. pc[u] \in AfterClaim => ctx[u].run \in RunId /\ runs[ctx[u].run].mode # "none"
  BY <1>1, <1>2 DEF LocalsOK
<1> QED
  BY <1>1, <1>2, <1>3, <1>4 DEF Serves, LocalsOK, RowsKept, PlansKept

\* A task that goes on with what it loaded.
LEMMA ServesOn ==
  ASSUME FixInv, RowsKept, PlansKept, NEW t \in Task, NEW l, NEW c,
         c.rb = ctx[t].rb, c.alert = ctx[t].alert, c.hash = ctx[t].hash, c.mode = ctx[t].mode,
         c.appr = ctx[t].appr, c.run = ctx[t].run,
         l \in RunPCs => pc[t] \in RunPCs \ {"drift"},
         l \in AfterClaim => pc[t] \in AfterClaim
  PROVE  Serves(l, c, approvals', runs')
  BY ServesKept DEF Serves

\* The task that moves, to label l with locals c, and the others.
LEMMA MoveFaithful ==
  ASSUME FixInv, RowsKept, PlansKept, NEW t \in Task, NEW l, NEW c,
         Serves(l, c, approvals', runs'),
         pc' = [pc EXCEPT ![t] = l], ctx' = [ctx EXCEPT ![t] = c]
  PROVE  TasksFaithful'
<1>1. \A u \in Task : u # t => pc'[u] = pc[u] /\ ctx'[u] = ctx[u]
  BY DEF FixInv, ApprovalInv, Wellformed, TypeOK
<1>2. pc'[t] = l /\ ctx'[t] = c
  BY DEF FixInv, ApprovalInv, Wellformed, TypeOK
<1>3. \A u \in Task : Serves(pc'[u], ctx'[u], approvals', runs')
  BY <1>1, <1>2, ServesKept
<1> QED
  BY <1>3 DEF TasksFaithful

LEMMA FinishFaithful ==
  ASSUME FixInv, RowsKept, PlansKept, NEW t \in Task, Finish(t)
  PROVE  TasksFaithful'
<1>1. Serves("idle", NoCtx, approvals', runs')
  BY DEF Serves, RunPCs, AfterClaim
<1> QED
  BY <1>1, MoveFaithful DEF Finish

LEMMA GotoFaithful ==
  ASSUME FixInv, RowsKept, PlansKept, NEW t \in Task, NEW l, Goto(t, l), UNCHANGED ctx,
         l \in RunPCs => pc[t] \in RunPCs \ {"drift"},
         l \in AfterClaim => pc[t] \in AfterClaim
  PROVE  TasksFaithful'
<1>1. ctx' = [ctx EXCEPT ![t] = ctx[t]]
  BY DEF FixInv, ApprovalInv, Wellformed, TypeOK
<1>2. Serves(l, ctx[t], approvals', runs')
  BY ServesOn
<1> QED
  BY <1>1, <1>2, MoveFaithful DEF Goto

\* No task moves.
LEMMA StillFaithful ==
  ASSUME FixInv, RowsKept, PlansKept, UNCHANGED <<pc, ctx>>
  PROVE  TasksFaithful'
  BY ServesKept DEF TasksFaithful

\* What a step has to show that writes the tables: of a new run, of a new
\* approval, of the exits and of a new outcome.
LEMMA TablesFaithfulStep ==
  ASSUME FixInv, RowsKept, PlansKept,
         \A i \in RunId : runs[i].mode = "none" /\ runs'[i].mode = "real" =>
            /\ runs'[i].hash \in RiskyVersions => runs'[i].appr # None
            /\ runs'[i].appr # None =>
                  /\ approvals'[runs'[i].appr].hash = runs'[i].hash
                  /\ runs'[runs'[i].appr].rb = runs'[i].rb
                  /\ runs'[runs'[i].appr].alert = runs'[i].alert,
         \A a \in RunId : approvals[a].status = "none" /\ approvals'[a].status # "none" =>
            approvals'[a].hash = runs'[a].hash,
         ExitsFaithful',
         \A al \in autoFixed' \ autoFixed : \E i \in RunId :
            /\ runs'[i].alert = al /\ runs'[i].mode = "real" /\ runs'[i].exit = "zero"
            /\ runs'[i].hash \in RiskyVersions => runs'[i].appr # None
  PROVE  TablesFaithful'
<1>1. \A a \in RunId : approvals[a].status # "none" => runs[a].mode # "none"
  BY DEF FixInv, ApprovalInv, Wellformed, ApprovalsWellformed
<1>2. \A i \in RunId : runs[i].appr # None =>
        runs[i].appr \in RunId /\ approvals[runs[i].appr].status = "approved"
  BY DEF FixInv, ApprovalInv, Owned, SpentApprovalStaysApproved, Wellformed, TypeOK, RunRow
<1>3. PlansFaithful'
  BY <1>1 DEF PlansFaithful, FixInv, Faithful, TablesFaithful, RowsKept, PlansKept
<1>4. RunsFaithful'
  <2> SUFFICES ASSUME NEW i \in RunId, runs'[i].mode = "real", runs[i].mode # "none"
               PROVE  /\ runs'[i].hash \in RiskyVersions => runs'[i].appr # None
                      /\ runs'[i].appr # None =>
                            /\ approvals'[runs'[i].appr].hash = runs'[i].hash
                            /\ runs'[runs'[i].appr].rb = runs'[i].rb
                            /\ runs'[runs'[i].appr].alert = runs'[i].alert
    BY DEF RunsFaithful
  <2>1. /\ runs[i].mode = "real" /\ runs'[i].hash = runs[i].hash /\ runs'[i].appr = runs[i].appr
        /\ runs'[i].rb = runs[i].rb /\ runs'[i].alert = runs[i].alert
    BY DEF RowsKept
  <2>2. ASSUME runs[i].appr # None
        PROVE  /\ approvals'[runs[i].appr].hash = approvals[runs[i].appr].hash
               /\ runs'[runs[i].appr].rb = runs[runs[i].appr].rb
               /\ runs'[runs[i].appr].alert = runs[runs[i].appr].alert
    BY <1>1, <1>2, <2>2 DEF RowsKept, PlansKept
  <2> QED
    BY <2>1, <2>2 DEF FixInv, Faithful, TablesFaithful, RunsFaithful
<1>5. AutoFixedIsEarned'
  <2> SUFFICES ASSUME NEW al \in autoFixed
               PROVE  \E i \in RunId :
                        /\ runs'[i].alert = al /\ runs'[i].mode = "real" /\ runs'[i].exit = "zero"
                        /\ runs'[i].hash \in RiskyVersions => runs'[i].appr # None
    BY DEF AutoFixedIsEarned
  <2>1. PICK i \in RunId :
          /\ runs[i].alert = al /\ runs[i].mode = "real" /\ runs[i].exit = "zero"
          /\ runs[i].hash \in RiskyVersions => runs[i].appr # None
    BY DEF FixInv, Faithful, TablesFaithful, AutoFixedIsEarned
  <2>2. runs[i].ended # NoTime
    BY <2>1 DEF FixInv, Faithful, TablesFaithful, ExitsFaithful
  <2> QED
    BY <2>1, <2>2 DEF RowsKept
<1> QED
  BY <1>3, <1>4, <1>5 DEF TablesFaithful

\* A step that adds no run, no approval, no exit and no outcome.
LEMMA QuietTables ==
  ASSUME FixInv, RowsKept, PlansKept, UNCHANGED autoFixed,
         \A i \in RunId : /\ runs[i].mode = "none" => runs'[i].mode # "real"
                          /\ runs'[i].ended = runs[i].ended /\ runs'[i].exit = runs[i].exit,
         \A a \in RunId : approvals[a].status = "none" => approvals'[a].status = "none"
  PROVE  TablesFaithful'
<1>1. ExitsFaithful'
  BY DEF ExitsFaithful, FixInv, Faithful, TablesFaithful
<1> QED
  BY <1>1, TablesFaithfulStep

LEMMA SameTables ==
  ASSUME FixInv, RowsKept, PlansKept, UNCHANGED <<runs, approvals, autoFixed>>
  PROVE  TablesFaithful'
  BY QuietTables

\* Only the statuses and the pins of approvals change.
LEMMA MarkedTables ==
  ASSUME FixInv, RowsKept, PlansKept, UNCHANGED <<runs, autoFixed>>,
         \A a \in RunId : approvals[a].status = "none" => approvals'[a].status = "none"
  PROVE  TablesFaithful'
  BY QuietTables

LEMMA LoadFaithful ==
  ASSUME FixInv, RowsKept, PlansKept, NEW t \in Task, NEW r, NEW al, NEW mode, NEW auto,
         Load(t, r, al, mode, auto), mode = "real" => book[r].hash \notin RiskyVersions
  PROVE  Faithful'
<1> DEFINE w == book[r].enabled /\ (auto => book[r].auto)
           c == [rb |-> r, hash |-> book[r].hash, alert |-> al, mode |-> mode, allow |-> w,
                 appr |-> None, run |-> None, at |-> 0, res |-> "null"]
<1>1. ctx' = [ctx EXCEPT ![t] = c] /\ pc' = [pc EXCEPT ![t] = "switch"]
  BY DEF Load, Goto
<1>2. Serves("switch", c, approvals', runs')
  <2> HIDE DEF w
  <2> QED
    BY DEF Serves, AfterClaim
<1> HIDE DEF c
<1>3. TasksFaithful'
  BY <1>1, <1>2, MoveFaithful
<1>4. TablesFaithful'
  BY SameTables DEF Load, db
<1> QED
  BY <1>3, <1>4 DEF Faithful

LEMMA ExecuteApprovedFaithful ==
  ASSUME FixInv, RowsKept, PlansKept, NEW t \in Task, NEW a \in RunId, ExecuteApproved(t, a)
  PROVE  Faithful'
<1> DEFINE c == [NoCtx EXCEPT !.appr = a, !.rb = runs[a].rb, !.alert = runs[a].alert]
<1>1. ctx' = [ctx EXCEPT ![t] = c] /\ pc' = [pc EXCEPT ![t] = "drift"]
  BY DEF ExecuteApproved, Goto
<1>2. Serves("drift", c, approvals', runs')
  BY DEF ExecuteApproved, db, Serves, AfterClaim, NoCtx
<1> HIDE DEF c
<1>3. TasksFaithful'
  BY <1>1, <1>2, MoveFaithful
<1>4. TablesFaithful'
  BY SameTables DEF ExecuteApproved, db
<1> QED
  BY <1>3, <1>4 DEF Faithful

LEMMA RequestFaithful ==
  ASSUME FixInv, RowsKept, PlansKept, NEW t \in Task, Request(t)
  PROVE  Faithful'
<1>1. ASSUME NEW al \in Alert, HandleAlert(t, al) PROVE Faithful'
  <2>1. CASE UNCHANGED vars
    BY <2>1, StillFaithful, SameTables DEF vars, db, Faithful
  <2>2. CASE \E r \in Runbook :
               Load(t, r, al, IF book[r].hash \in RiskyVersions THEN "dry_run" ELSE "real", TRUE)
    BY <2>2, LoadFaithful
  <2> QED
    BY <1>1, <2>1, <2>2 DEF HandleAlert
<1>2. ASSUME NEW r \in Runbook, NEW mode \in Modes, HandleOperatorTrigger(t, r, mode)
      PROVE  Faithful'
  BY <1>2, LoadFaithful DEF HandleOperatorTrigger
<1>3. CASE ToggleOff(t)
  <2>1. TasksFaithful'
    BY <1>3, GotoFaithful DEF ToggleOff, RunPCs, AfterClaim
  <2> QED
    BY <1>3, <2>1, SameTables DEF ToggleOff, db, Faithful
<1> QED
  BY <1>1, <1>2, <1>3, ExecuteApprovedFaithful DEF Request

\* A request that ends without a change of the tables.
LEMMA DenyFaithful ==
  ASSUME FixInv, RowsKept, PlansKept, NEW t \in Task, Finish(t), UNCHANGED db
  PROVE  Faithful'
  BY FinishFaithful, SameTables DEF db, Faithful

\* A step to another label within the request.
LEMMA AdvanceFaithful ==
  ASSUME FixInv, RowsKept, PlansKept, NEW t \in Task, NEW l, Goto(t, l),
         UNCHANGED <<runs, approvals, autoFixed, ctx>>,
         l \in RunPCs => pc[t] \in RunPCs \ {"drift"},
         l \in AfterClaim => pc[t] \in AfterClaim
  PROVE  Faithful'
  BY GotoFaithful, SameTables DEF Faithful

\* The version of the registry row is that of the approval: this is the check.
LEMMA CheckDriftFaithful ==
  ASSUME FixInv, RowsKept, PlansKept, NEW t \in Task, CheckDrift(t)
  PROVE  Faithful'
<1> DEFINE b == book[ctx[t].rb]
           a == ctx[t].appr
<1>1. a \in RunId /\ ctx[t] \in Ctx
  BY DEF CheckDrift, FixInv, ApprovalInv, Wellformed, TypeOK, TasksWellformed, LocalsOK, Ctx
<1>2. CASE MarkRejected(a) /\ Finish(t) /\ UNCHANGED <<runs, autoFixed>>
  <2>1. \A x \in RunId : approvals[x].status = "none" => approvals'[x].status = "none"
    BY <1>1, <1>2, MarkRejectedType DEF FixInv, ApprovalInv
  <2> QED
    BY <1>2, <2>1, FinishFaithful, MarkedTables DEF Faithful
<1>3. CASE /\ ~Drifted(b, a)
           /\ ctx' = [ctx EXCEPT ![t] = [@ EXCEPT !.hash = b.hash, !.allow = b.enabled]]
           /\ Goto(t, "switch") /\ UNCHANGED db
  <2> DEFINE c == [ctx[t] EXCEPT !.hash = b.hash, !.allow = b.enabled]
  <2>1. ctx' = [ctx EXCEPT ![t] = c] /\ pc' = [pc EXCEPT ![t] = "switch"]
    BY <1>3 DEF Goto
  <2>2. /\ c.hash = approvals[a].hash /\ c.appr = a /\ a # None
        /\ c.rb = ctx[t].rb /\ c.alert = ctx[t].alert
    BY <1>1, <1>3, DataAssumption DEF Drifted, Ctx
  <2>3. runs[a].rb = ctx[t].rb /\ runs[a].alert = ctx[t].alert
    BY <2>2 DEF CheckDrift, FixInv, Faithful, TasksFaithful, Serves, RunPCs
  <2> HIDE DEF c
  <2>4. Serves("switch", c, approvals', runs')
    BY <1>3, <2>2, <2>3 DEF Serves, AfterClaim, db
  <2> QED
    BY <1>3, <2>1, <2>4, MoveFaithful, SameTables DEF db, Faithful
<1> QED
  BY <1>2, <1>3 DEF CheckDrift, db

LEMMA GateLimitsFaithful ==
  ASSUME FixInv, RowsKept, PlansKept, NEW t \in Task, GateLimits(t)
  PROVE  Faithful'
<1> DEFINE l == IF ctx[t].appr = None THEN "lock" ELSE "approve"
           c == [ctx[t] EXCEPT !.at = now]
<1>1. CASE Deny(t)
  BY <1>1, DenyFaithful DEF Deny
<1>2. CASE Goto(t, l) /\ ctx' = [ctx EXCEPT ![t].at = now] /\ UNCHANGED db
  <2>1. ctx' = [ctx EXCEPT ![t] = c] /\ pc' = [pc EXCEPT ![t] = l]
    BY <1>2 DEF Goto
  <2>2. Serves(l, c, approvals', runs')
    BY ServesOn DEF GateLimits, FixInv, ApprovalInv, Wellformed, TypeOK, Ctx, RunPCs, AfterClaim
  <2> HIDE DEF c, l
  <2> QED
    BY <1>2, <2>1, <2>2, MoveFaithful, SameTables DEF db, Faithful
<1> QED
  BY <1>1, <1>2 DEF GateLimits

LEMMA ApproveFaithful ==
  ASSUME FixInv, RowsKept, PlansKept, NEW t \in Task, Approve(t)
  PROVE  Faithful'
<1> DEFINE a == ctx[t].appr
           c == [ctx[t] EXCEPT !.at = now]
<1>1. CASE Deny(t)
  BY <1>1, DenyFaithful DEF Deny
<1>2. CASE /\ MarkApprovedLands(a)
           /\ approvals' = [approvals EXCEPT ![a].status = "approved"]
           /\ ctx' = [ctx EXCEPT ![t].at = now] /\ Goto(t, "lock") /\ UNCHANGED <<runs, autoFixed>>
  <2>1. ctx' = [ctx EXCEPT ![t] = c] /\ pc' = [pc EXCEPT ![t] = "lock"]
    BY <1>2 DEF Goto
  <2>2. Serves("lock", c, approvals', runs')
    BY ServesOn DEF Approve, FixInv, ApprovalInv, Wellformed, TypeOK, Ctx, RunPCs, AfterClaim
  <2>3. \A x \in RunId : approvals[x].status = "none" => approvals'[x].status = "none"
    BY <1>2 DEF MarkApprovedLands, FixInv, ApprovalInv, Wellformed, TypeOK, ApprovalRow
  <2> HIDE DEF c
  <2> QED
    BY <1>2, <2>1, <2>2, <2>3, MoveFaithful, MarkedTables DEF Faithful
<1> QED
  BY <1>1, <1>2 DEF Approve

\* The row that is inserted says what the task loaded.
LEMMA ClaimFaithful ==
  ASSUME FixInv, RowsKept, PlansKept, NEW t \in Task, Claim(t)
  PROVE  Faithful'
<1>1. CASE ClaimDenied(t)
  <2>1. CASE Finish(t)
    BY <1>1, <2>1, DenyFaithful DEF ClaimDenied
  <2>2. CASE Goto(t, "revert") /\ UNCHANGED ctx
    BY <1>1, <2>2, AdvanceFaithful DEF Claim, ClaimDenied, db, RunPCs, AfterClaim
  <2> QED
    BY <1>1, <2>1, <2>2 DEF ClaimDenied
<1>2. ASSUME NEW i \in RunId, runs[i].mode = "none", runs' = [runs EXCEPT ![i] = Claimed(t)],
             ctx' = [ctx EXCEPT ![t].run = i], Goto(t, "transcript"),
             UNCHANGED <<approvals, autoFixed>>
      PROVE  Faithful'
  <2> DEFINE c == [ctx[t] EXCEPT !.run = i]
  <2>1. ctx' = [ctx EXCEPT ![t] = c] /\ pc' = [pc EXCEPT ![t] = "transcript"]
    BY <1>2 DEF Goto
  <2>2. /\ c.rb = ctx[t].rb /\ c.alert = ctx[t].alert /\ c.hash = ctx[t].hash
        /\ c.mode = ctx[t].mode /\ c.appr = ctx[t].appr /\ c.run = i
    BY DEF FixInv, ApprovalInv, Wellformed, TypeOK, Ctx
  <2>3. /\ runs'[i].rb = ctx[t].rb /\ runs'[i].alert = ctx[t].alert /\ runs'[i].hash = ctx[t].hash
        /\ runs'[i].mode = ctx[t].mode /\ runs'[i].appr = ctx[t].appr
        /\ runs'[i].exit = "null"
        /\ \A x \in RunId : x # i => runs'[x] = runs[x]
    BY <1>2 DEF Claimed, NoRun, FixInv, ApprovalInv, Wellformed, TypeOK
  <2>4. Serves("lock", ctx[t], approvals', runs')
    BY ServesKept DEF Claim
  <2> HIDE DEF c
  <2>5. Serves("transcript", c, approvals', runs')
    BY <2>2, <2>3, <2>4 DEF Serves, RunPCs
  <2>6. TasksFaithful'
    BY <2>1, <2>5, MoveFaithful
  <2>7. \A x \in RunId : runs[x].mode = "none" /\ runs'[x].mode = "real" =>
            /\ runs'[x].hash \in RiskyVersions => runs'[x].appr # None
            /\ runs'[x].appr # None =>
                  /\ approvals'[runs'[x].appr].hash = runs'[x].hash
                  /\ runs'[runs'[x].appr].rb = runs'[x].rb
                  /\ runs'[runs'[x].appr].alert = runs'[x].alert
    BY <2>3, <2>4 DEF Serves, RunPCs
  <2>8. ExitsFaithful'
    BY <2>3 DEF ExitsFaithful, FixInv, Faithful, TablesFaithful
  <2>9. TablesFaithful'
    BY <1>2, <2>7, <2>8, TablesFaithfulStep
  <2> QED
    BY <2>6, <2>9 DEF Faithful
<1> QED
  BY <1>1, <1>2 DEF Claim

LEMMA LeaveExecFaithful ==
  ASSUME FixInv, RowsKept, PlansKept, NEW t \in Task, pc[t] \in {"prepare", "create", "exec"},
         NEW res, LeaveExec(t, res), UNCHANGED db
  PROVE  Faithful'
<1> DEFINE c == [ctx[t] EXCEPT !.res = res]
<1>1. ctx' = [ctx EXCEPT ![t] = c] /\ pc' = [pc EXCEPT ![t] = "persist"]
  BY DEF LeaveExec, Goto
<1>2. Serves("persist", c, approvals', runs')
  BY ServesOn DEF FixInv, ApprovalInv, Wellformed, TypeOK, Ctx, RunPCs, AfterClaim
<1> HIDE DEF c
<1> QED
  BY <1>1, <1>2, MoveFaithful, SameTables DEF db, Faithful

LEMMA PublishFaithful ==
  ASSUME FixInv, RowsKept, PlansKept, NEW t \in Task, Publish(t)
  PROVE  Faithful'
<1> DEFINE c == [ctx[t] EXCEPT !.at = now]
<1>1. ctx' = [ctx EXCEPT ![t] = c] /\ pc' = [pc EXCEPT ![t] = "create"]
  BY DEF Publish, Goto
<1>2. Serves("create", c, approvals', runs')
  BY ServesOn DEF Publish, FixInv, ApprovalInv, Wellformed, TypeOK, Ctx, RunPCs, AfterClaim
<1> HIDE DEF c
<1> QED
  BY <1>1, <1>2, MoveFaithful, SameTables DEF Publish, db, Faithful

\* The outcome is earned by the run that is persisted, and the plan that is
\* stored is for the version that ran.
LEMMA PersistFaithful ==
  ASSUME FixInv, RowsKept, PlansKept, NEW t \in Task, Persist(t)
  PROVE  Faithful'
<1> DEFINE i == ctx[t].run
           l == AfterPersist(ctx[t])
           c == IF ctx[t].appr = None THEN NoCtx ELSE ctx[t]
<1>1. ctx' = [ctx EXCEPT ![t] = c] /\ pc' = [pc EXCEPT ![t] = l]
  BY DEF Persist, Goto
<1>2. Serves("persist", ctx[t], approvals', runs') /\ Serves("persist", ctx[t], approvals, runs)
  BY ServesKept DEF Persist, FixInv, Faithful, TasksFaithful
<1>3. Serves(l, c, approvals', runs')
  BY <1>2 DEF Serves, AfterPersist, RunPCs, AfterClaim
<1>4. /\ i \in RunId /\ runs[i].mode = ctx[t].mode /\ runs[i].appr = ctx[t].appr
      /\ runs[i] \in RunRow /\ ctx[t].mode \in Modes /\ now \in Nat
  BY DEF Persist, FixInv, ApprovalInv, Wellformed, TypeOK, TasksWellformed, LocalsOK, Owned,
         ClaimsOwned, AfterClaim, Ctx
<1>5. /\ runs'[i].mode = ctx[t].mode /\ runs'[i].appr = ctx[t].appr
      /\ runs'[i].ended = now /\ runs'[i].exit = ExitColumn(ctx[t].res)
      /\ \A x \in RunId : x # i => runs'[x] = runs[x]
  BY <1>4 DEF Persist, FixInv, ApprovalInv, Wellformed, TypeOK, RunRow
<1>6. runs'[i].hash = ctx[t].hash /\ runs'[i].alert = ctx[t].alert
  BY <1>2 DEF Serves, AfterClaim
<1>7. \A x \in RunId : approvals[x].status = "none" /\ approvals'[x].status # "none" =>
          approvals'[x].hash = runs'[x].hash
  BY <1>4, <1>6 DEF Persist, FixInv, ApprovalInv, Wellformed, TypeOK
<1>8. ExitsFaithful'
  BY <1>4, <1>5 DEF ExitsFaithful, FixInv, Faithful, TablesFaithful, NoTime
<1>9. ASSUME NEW al \in autoFixed' \ autoFixed
      PROVE  /\ runs'[i].alert = al /\ runs'[i].mode = "real" /\ runs'[i].exit = "zero"
             /\ runs'[i].hash \in RiskyVersions => runs'[i].appr # None
  <2>1. EarnsOutcome(ctx[t]) /\ al = ctx[t].alert
    BY <1>9 DEF Persist
  <2> QED
    BY <1>2, <1>5, <1>6, <2>1 DEF EarnsOutcome, ExitColumn, Serves, RunPCs
<1>10. \A x \in RunId : runs[x].mode = "none" => runs'[x].mode # "real"
  BY <1>4, <1>5 DEF Modes
<1> HIDE DEF c, l
<1>11. TasksFaithful'
  BY <1>1, <1>3, MoveFaithful
<1>12. TablesFaithful'
  BY <1>4, <1>7, <1>8, <1>9, <1>10, TablesFaithfulStep
<1> QED
  BY <1>11, <1>12 DEF Faithful

LEMMA PinRealRunFaithful ==
  ASSUME FixInv, RowsKept, PlansKept, NEW t \in Task, PinRealRun(t)
  PROVE  Faithful'
<1>1. \A x \in RunId : approvals'[x].status = approvals[x].status
  BY DEF PinRealRun, FixInv, ApprovalInv, Wellformed, TypeOK, ApprovalRow
<1> QED
  BY <1>1, FinishFaithful, MarkedTables DEF PinRealRun, Faithful

LEMMA RevertFaithful ==
  ASSUME FixInv, RowsKept, PlansKept, NEW t \in Task, Revert(t)
  PROVE  Faithful'
<1>1. \A x \in RunId : approvals[x].status = "none" => approvals'[x].status = "none"
  BY DEF Revert, FixInv, ApprovalInv, Wellformed, TypeOK, ApprovalRow
<1> QED
  BY <1>1, FinishFaithful, MarkedTables DEF Revert, Faithful

LEMMA KillSnapshotFaithful ==
  ASSUME FixInv, RowsKept, PlansKept, NEW t \in Task, KillSnapshot(t)
  PROVE  Faithful'
<1> DEFINE c == [ctx[t] EXCEPT !.run = currentRun]
<1>1. CASE Deny(t)
  BY <1>1, DenyFaithful DEF Deny
<1>2. CASE ctx' = [ctx EXCEPT ![t].run = currentRun] /\ Goto(t, "kill") /\ UNCHANGED db
  <2>1. ctx' = [ctx EXCEPT ![t] = c] /\ pc' = [pc EXCEPT ![t] = "kill"]
    BY <1>2 DEF Goto
  <2>2. Serves("kill", c, approvals', runs')
    BY DEF Serves, RunPCs, AfterClaim
  <2> HIDE DEF c
  <2> QED
    BY <1>2, <2>1, <2>2, MoveFaithful, SameTables DEF db, Faithful
<1> QED
  BY <1>1, <1>2 DEF KillSnapshot

LEMMA KillStampFaithful ==
  ASSUME FixInv, RowsKept, PlansKept, NEW t \in Task, KillStamp(t)
  PROVE  Faithful'
<1>1. \A i \in RunId : /\ runs'[i].mode = runs[i].mode
                       /\ runs'[i].ended = runs[i].ended /\ runs'[i].exit = runs[i].exit
  BY DEF KillStamp, FixInv, ApprovalInv, Wellformed, TypeOK, RunRow
<1>2. TasksFaithful'
  BY FinishFaithful DEF KillStamp
<1>3. TablesFaithful'
  BY <1>1, QuietTables DEF KillStamp
<1> QED
  BY <1>2, <1>3 DEF Faithful

LEMMA StepFaithful ==
  ASSUME FixInv, RowsKept, PlansKept, NEW t \in Task, Step(t)
  PROVE  Faithful'
<1>1. CASE GateSwitch(t)
  <2>1. CASE Deny(t)
    BY <2>1, DenyFaithful DEF Deny
  <2>2. CASE Goto(t, "limits") /\ UNCHANGED <<db, ctx>>
    BY <1>1, <2>2, AdvanceFaithful DEF GateSwitch, RunPCs, AfterClaim, db
  <2> QED
    BY <1>1, <2>1, <2>2 DEF GateSwitch
<1>2. CASE TakeTranscriptLock(t)
  BY <1>2, AdvanceFaithful DEF TakeTranscriptLock, RunPCs, AfterClaim, db
<1>3. CASE StartProcess(t)
  BY <1>3, AdvanceFaithful DEF StartProcess, RunPCs, AfterClaim, db
<1>4. CASE PrepareFails(t) \/ ExecReturns(t) \/ ExecFails(t)
  BY <1>4, LeaveExecFaithful DEF PrepareFails, ExecReturns, ExecFails
<1>5. CASE WriteFlagOff(t)
  BY <1>5, AdvanceFaithful DEF WriteFlagOff, RunPCs, AfterClaim
<1>6. CASE KillContainer(t)
  <2>1. CASE Deny(t)
    BY <2>1, DenyFaithful DEF Deny
  <2>2. CASE Goto(t, "verify") /\ UNCHANGED <<db, ctx>>
    BY <2>2, AdvanceFaithful DEF RunPCs, AfterClaim, db
  <2> QED
    BY <1>6, <2>1, <2>2 DEF KillContainer
<1>7. CASE KillVerify(t)
  <2>1. CASE Deny(t)
    BY <2>1, DenyFaithful DEF Deny
  <2>2. CASE Goto(t, "stamp") /\ UNCHANGED <<db, ctx>>
    BY <2>2, AdvanceFaithful DEF RunPCs, AfterClaim, db
  <2> QED
    BY <1>7, <2>1, <2>2 DEF KillVerify
<1> QED
  BY <1>1, <1>2, <1>3, <1>4, <1>5, <1>6, <1>7, CheckDriftFaithful, GateLimitsFaithful,
     ApproveFaithful, ClaimFaithful, PublishFaithful, PersistFaithful, PinRealRunFaithful,
     RevertFaithful, KillSnapshotFaithful, KillStampFaithful DEF Step

LEMMA EnvironmentFaithful ==
  ASSUME FixInv, RowsKept, PlansKept, Environment
  PROVE  Faithful'
<1>1. ASSUME NEW a \in RunId, Reject(a) PROVE Faithful'
  <2>1. \A x \in RunId : approvals[x].status = "none" => approvals'[x].status = "none"
    BY <1>1, MarkRejectedType DEF Reject, FixInv, ApprovalInv
  <2> QED
    BY <1>1, <2>1, StillFaithful, MarkedTables DEF Reject, Faithful
<1>2. CASE \E r \in Runbook : Refresh(r) \/ PatchGates(r) \/ Prune(r)
  BY <1>2, StillFaithful, SameTables DEF Refresh, PatchGates, Prune, Edit, Faithful
<1>3. CASE ToggleOn \/ ContainerStarts \/ Tick \/ \E i \in RunId : OrphanExits(i)
  BY <1>3, StillFaithful, SameTables DEF ToggleOn, ContainerStarts, Tick, OrphanExits, db, Faithful
<1>4. CASE Crash
  <2>1. \A t \in Task : pc'[t] = "idle"
    BY <1>4 DEF Crash
  <2>2. TasksFaithful'
    BY <2>1 DEF TasksFaithful, Serves, RunPCs, AfterClaim
  <2> QED
    BY <1>4, <2>2, SameTables DEF Crash, db, Faithful
<1> QED
  BY <1>1, <1>2, <1>3, <1>4 DEF Environment

LEMMA AlwaysFixInv == Spec => []FixInv
<1>1. Init => Faithful
  <2> SUFFICES ASSUME Init PROVE Faithful
    OBVIOUS
  <2>1. TasksFaithful
    BY DEF Init, TasksFaithful, Serves, RunPCs, AfterClaim
  <2>2. TablesFaithful
    BY DEF Init, TablesFaithful, PlansFaithful, RunsFaithful, ExitsFaithful, AutoFixedIsEarned,
           NoRun, NoApproval
  <2> QED
    BY <2>1, <2>2 DEF Faithful
<1>2. ApprovalInv /\ Faithful /\ [Next]_vars => Faithful'
  <2> SUFFICES ASSUME FixInv, [Next]_vars PROVE Faithful'
    BY DEF FixInv
  <2>1. RowsKept /\ PlansKept
    BY StepHistory DEF FixInv
  <2>2. CASE UNCHANGED vars
    BY <2>1, <2>2, StillFaithful, SameTables DEF vars, db, Faithful
  <2>3. CASE Next
    BY <2>1, <2>3, RequestFaithful, StepFaithful, EnvironmentFaithful DEF Next
  <2> QED
    BY <2>2, <2>3
<1>3. ApprovalInv /\ Faithful => FixInv
  BY DEF FixInv
<1> QED
  BY <1>1, <1>2, <1>3, AlwaysApprovalInv, PTL DEF Spec

\* Non-negotiable #5, for every registry edit, approver race and crash: a real run
\* of a risky version has an approval of a completed dry run of the same runbook,
\* the same version and the same alert.
THEOREM RiskyRunsHaveApprovals == Spec => []RiskyRunsAreApproved
<1>1. FixInv => RiskyRunsAreApproved
  <2> SUFFICES ASSUME FixInv, NEW i \in RunId, runs[i].mode = "real", runs[i].hash \in RiskyVersions
               PROVE  LET a == runs[i].appr IN
                      /\ a # None
                      /\ approvals[a].hash = runs[i].hash
                      /\ runs[a].mode = "dry_run" /\ runs[a].ended # NoTime
                      /\ runs[a].rb = runs[i].rb /\ runs[a].alert = runs[i].alert
    BY DEF RiskyRunsAreApproved
  <2> DEFINE a == runs[i].appr
  <2>1. /\ a # None /\ approvals[a].hash = runs[i].hash
        /\ runs[a].rb = runs[i].rb /\ runs[a].alert = runs[i].alert
    BY DEF FixInv, Faithful, TablesFaithful, RunsFaithful
  <2>2. a \in RunId /\ approvals[a].status = "approved"
    BY <2>1 DEF FixInv, ApprovalInv, Owned, SpentApprovalStaysApproved, Wellformed, TypeOK, RunRow
  <2>3. runs[a].mode = "dry_run" /\ runs[a].ended # NoTime
    BY <2>2 DEF FixInv, ApprovalInv, Owned, ApprovalsComplete, Wellformed, ApprovalsWellformed
  <2> QED
    BY <2>1, <2>3
<1> QED
  BY <1>1, AlwaysFixInv, PTL

\* An alert is auto_fixed only through a real run for it that exited 0, and no
\* later write takes that run's mode, alert or exit code away.
THEOREM OutcomesAreEarned == Spec => []AutoFixedIsEarned
<1>1. FixInv => AutoFixedIsEarned
  BY DEF FixInv, Faithful, TablesFaithful
<1> QED
  BY <1>1, AlwaysFixInv, PTL

----------------------------------------------------------------------------
(* The limits.  A claim evaluates them with thresholds that were computed     *)
(* when its task began to wait for the lock: those are never younger than the *)
(* claim, so what they overlook is too old to count.                          *)

\* The runs that have a row.
Begun == {i \in RunId : runs[i].mode # "none"}

\* The runs of r that start in the window from `from' on.
Window(r, from) ==
    {i \in RunsOf(r) : from <= runs[i].started /\ runs[i].started <= from + RateWindow}

\* Finitely many runs have a row, and nothing is dated in the future.
Dated ==
    /\ IsFiniteSet(Begun)
    /\ \A t \in Task : ctx[t].at <= now
    /\ \A i \in RunId : runs[i].started <= now

\* The inductive invariant of the limits.
LimitInv == Wellformed /\ Dated /\ LimitsHold

LEMMA RateLimitByWindow ==
  RateLimitHolds <=> \A r \in Runbook, from \in 0..now : Cardinality(Window(r, from)) <= RateLimit
  BY DEF RateLimitHolds, Window

\* The runs of a runbook have a row, hence a window has finitely many.
LEMMA WindowsFinite ==
  ASSUME Wellformed, IsFiniteSet(Begun), NEW r \in Runbook
  PROVE  /\ IsFiniteSet(RunsOf(r))
         /\ \A from : IsFiniteSet(Window(r, from))
<1>1. RunsOf(r) \subseteq Begun
  BY DataAssumption DEF RunsOf, Begun, Wellformed, RunsWellformed, NoRun
<1>2. \A from : Window(r, from) \subseteq Begun
  BY <1>1 DEF Window
<1> QED
  BY <1>1, <1>2, FS_Subset

\* A step that dates no run leaves the windows alone.
LEMMA SameWindows ==
  ASSUME LimitInv, now' = now,
         \A i \in RunId : /\ runs'[i].mode = runs[i].mode /\ runs'[i].rb = runs[i].rb
                          /\ runs'[i].started = runs[i].started
  PROVE  IsFiniteSet(Begun)' /\ RateLimitHolds' /\ \A i \in RunId : runs'[i].started <= now'
<1>1. Begun' = Begun
  BY DEF Begun
<1>2. \A r, from : Window(r, from)' = Window(r, from)
  BY DEF Window, RunsOf
<1>3. RateLimitHolds'
  <2> SUFFICES ASSUME NEW r \in Runbook, NEW from \in 0..now'
               PROVE  Cardinality(Window(r, from)') <= RateLimit
    BY DEF RateLimitHolds, Window
  <2> QED
    BY <1>2, RateLimitByWindow DEF LimitInv, LimitsHold
<1> QED
  BY <1>1, <1>3 DEF LimitInv, Dated

LEMMA SameRuns ==
  ASSUME LimitInv, UNCHANGED <<now, runs>>, \A t \in Task : ctx'[t].at <= now
  PROVE  Dated' /\ LimitsHold'
<1>1. CooldownHolds'
  BY DEF LimitInv, LimitsHold, CooldownHolds
<1> QED
  BY <1>1, SameWindows DEF Dated, LimitsHold

\* A task reads its instants from the clock.
LEMMA StepDated ==
  ASSUME LimitInv, NEW t \in Task, Request(t) \/ Step(t)
  PROVE  now' = now /\ \A u \in Task : ctx'[u].at <= now
<1> USE DEF LimitInv, Wellformed, TypeOK, Dated, Ctx
<1>1. CASE Request(t)
  <2>1. CASE \E al \in Alert : HandleAlert(t, al)
    BY <2>1 DEF HandleAlert, Load, vars
  <2>2. CASE \E r \in Runbook, mode \in Modes : HandleOperatorTrigger(t, r, mode)
    BY <2>2 DEF HandleOperatorTrigger, Load
  <2>3. CASE \E a \in RunId : ExecuteApproved(t, a)
    BY <2>3 DEF ExecuteApproved, NoCtx
  <2>4. CASE ToggleOff(t)
    BY <2>4 DEF ToggleOff
  <2> QED
    BY <1>1, <2>1, <2>2, <2>3, <2>4 DEF Request
<1>2. CASE CheckDrift(t)
  <2>1. CASE now' = now /\ Finish(t)
    BY <2>1 DEF Finish, NoCtx
  <2>2. ASSUME NEW h, NEW w, now' = now,
               ctx' = [ctx EXCEPT ![t] = [@ EXCEPT !.hash = h, !.allow = w]]
        PROVE  now' = now /\ \A u \in Task : ctx'[u].at <= now
    BY <2>2
  <2> QED
    BY <1>2, <2>1, <2>2 DEF CheckDrift
<1>3. CASE GateSwitch(t) \/ GateLimits(t) \/ Approve(t)
  <2>1. CASE Deny(t)
    BY <2>1 DEF Deny, Finish, NoCtx
  <2>2. CASE now' = now /\ (ctx' = ctx \/ ctx' = [ctx EXCEPT ![t].at = now])
    BY <2>2
  <2> QED
    BY <1>3, <2>1, <2>2 DEF GateSwitch, GateLimits, Approve
<1>4. CASE Claim(t)
  BY <1>4 DEF Claim, ClaimDenied, Finish, NoCtx
<1>5. CASE TakeTranscriptLock(t) \/ PrepareFails(t) \/ Publish(t)
  BY <1>5 DEF TakeTranscriptLock, PrepareFails, Publish, LeaveExec
<1>6. CASE StartProcess(t) \/ ExecReturns(t) \/ ExecFails(t)
  BY <1>6 DEF StartProcess, ExecReturns, ExecFails, LeaveExec
<1>7. CASE Persist(t)
  BY <1>7 DEF Persist, NoCtx
<1>8. CASE PinRealRun(t) \/ Revert(t)
  BY <1>8 DEF PinRealRun, Revert, Finish, NoCtx
<1>9. CASE WriteFlagOff(t) \/ KillSnapshot(t) \/ KillContainer(t) \/ KillVerify(t) \/ KillStamp(t)
  BY <1>9 DEF WriteFlagOff, KillSnapshot, KillContainer, KillVerify, KillStamp, Deny, Finish, NoCtx
<1> QED
  BY <1>1, <1>2, <1>3, <1>4, <1>5, <1>6, <1>7, <1>8, <1>9 DEF Step

\* A claim is the one step that dates a run.
LEMMA ClaimLimits ==
  ASSUME LimitInv, NEW t \in Task, NEW i \in RunId, pc[t] = "lock",
         ~InLockGate(ctx[t].rb, ctx[t].at), runs[i].mode = "none",
         runs' = [runs EXCEPT ![i] = Claimed(t)], now' = now
  PROVE  IsFiniteSet(Begun)' /\ LimitsHold' /\ \A j \in RunId : runs'[j].started <= now'
<1> DEFINE r == ctx[t].rb
           since == ctx[t].at - RateWindow
<1>1. /\ r \in Runbook /\ now \in Nat /\ ctx[t].at \in Nat /\ ctx[t].at <= now
      /\ runs \in [RunId -> RunRow] /\ ctx[t].mode \in Modes
  BY DEF LimitInv, Dated, Wellformed, TypeOK, TasksWellformed, LocalsOK, RunPCs, Ctx
<1>2. /\ \A j \in RunId \ {i} : runs'[j] = runs[j]
      /\ runs'[i].mode # "none" /\ runs'[i].rb = r
      /\ runs'[i].started = now /\ runs'[i].ended = NoTime
  BY <1>1 DEF Claimed, NoRun, Modes
<1>3. \A q \in Runbook : i \notin RunsOf(q)
  BY DataAssumption DEF RunsOf, LimitInv, Wellformed, RunsWellformed, NoRun
<1>4. IsFiniteSet(Begun)'
  <2>1. Begun' = Begun \cup {i}
    BY <1>2 DEF Begun
  <2> QED
    BY <2>1, FS_AddElement DEF LimitInv, Dated
<1>5. \A j \in RunId : runs'[j].started <= now'
  BY <1>1, <1>2 DEF LimitInv, Dated
<1>6. RateLimitHolds'
  <2> SUFFICES ASSUME NEW q \in Runbook, NEW from \in 0..now
               PROVE  Cardinality(Window(q, from)') <= RateLimit
    BY DEF RateLimitHolds, Window
  <2>1. Cardinality(Window(q, from)) <= RateLimit
    BY RateLimitByWindow DEF LimitInv, LimitsHold
  <2>2. CASE q # r \/ now > from + RateWindow
    <3>1. Window(q, from)' = Window(q, from)
      BY <1>1, <1>2, <1>3, <2>2, TimeAssumption DEF Window, RunsOf
    <3> QED
      BY <2>1, <3>1
  <2>3. CASE q = r /\ now <= from + RateWindow
    <3>1. Window(q, from)' = Window(q, from) \cup {i}
      BY <1>2, <1>3, <2>3 DEF Window, RunsOf
    <3>2. Window(q, from) \subseteq StartedSince(q, since)
      BY <1>1, <2>3, TimeAssumption DEF Window, StartedSince, RunsOf, RunRow
    <3>3. IsFiniteSet(Window(q, from)) /\ IsFiniteSet(StartedSince(q, since))
      BY WindowsFinite, FS_Subset DEF LimitInv, Dated, StartedSince
    <3>4. /\ Cardinality(Window(q, from)) <= Cardinality(StartedSince(q, since))
          /\ Cardinality(Window(q, from)') <= Cardinality(Window(q, from)) + 1
          /\ Cardinality(Window(q, from)) \in Nat /\ Cardinality(StartedSince(q, since)) \in Nat
      BY <3>1, <3>2, <3>3, FS_AddElement, FS_Subset, FS_CardinalityType
    <3>5. Cardinality(StartedSince(q, since)) < RateLimit
      BY <2>3, <3>4, TimeAssumption DEF InLockGate, RateExceeded
    <3>6. Cardinality(Window(q, from)') \in Nat
      BY <3>1, <3>3, FS_AddElement, FS_CardinalityType
    <3> QED
      BY <3>4, <3>5, <3>6, TimeAssumption
  <2> QED
    BY <1>1, <2>2, <2>3, TimeAssumption
<1>7. CooldownHolds'
  <2> SUFFICES ASSUME NEW j \in RunId, NEW k \in RunId,
                      runs'[j].rb # None, runs'[j].rb = runs'[k].rb,
                      runs'[j].ended # NoTime, runs'[k].started > runs'[j].ended
               PROVE  runs'[k].started - runs'[j].ended >= Cooldown
    BY DEF CooldownHolds
  <2>1. runs'[j] = runs[j]
    BY <1>2
  <2>2. CASE k # i
    BY <1>2, <2>1, <2>2 DEF LimitInv, LimitsHold, CooldownHolds
  <2>3. CASE k = i
    <3>1. j \in RunsOf(r) /\ runs[j].ended \in Nat
      BY <1>1, <1>2, <2>1, <2>3 DEF RunsOf, RunRow
    <3>2. Cooldown > 0 => now - runs[j].ended >= Cooldown
      BY <1>1, <2>1, <3>1, TimeAssumption DEF InLockGate, CoolingDown
    <3> QED
      BY <1>1, <1>2, <2>1, <2>3, <3>1, <3>2, TimeAssumption
  <2> QED
    BY <2>2, <2>3
<1> QED
  BY <1>4, <1>5, <1>6, <1>7 DEF LimitsHold

\* An end is written at an instant that no run starts after.
LEMMA PersistLimits ==
  ASSUME LimitInv, NEW t \in Task, Persist(t)
  PROVE  IsFiniteSet(Begun)' /\ LimitsHold' /\ \A j \in RunId : runs'[j].started <= now'
<1> DEFINE i == ctx[t].run
<1>1. i \in RunId /\ now \in Nat /\ runs \in [RunId -> RunRow]
  BY DEF Persist, LimitInv, Wellformed, TypeOK, TasksWellformed, LocalsOK, AfterClaim
<1>2. /\ \A j \in RunId \ {i} : runs'[j] = runs[j]
      /\ \A j \in RunId : /\ runs'[j].mode = runs[j].mode /\ runs'[j].rb = runs[j].rb
                          /\ runs'[j].started = runs[j].started
      /\ runs'[i].ended = now /\ now' = now
  BY <1>1 DEF Persist, RunRow
<1>3. CooldownHolds'
  BY <1>1, <1>2 DEF LimitInv, LimitsHold, CooldownHolds, Dated, RunRow
<1> QED
  BY <1>2, <1>3, SameWindows DEF LimitsHold

LEMMA KillStampLimits ==
  ASSUME LimitInv, NEW t \in Task, KillStamp(t)
  PROVE  IsFiniteSet(Begun)' /\ LimitsHold' /\ \A j \in RunId : runs'[j].started <= now'
<1>1. /\ now' = now
      /\ \A j \in RunId : /\ runs'[j].mode = runs[j].mode /\ runs'[j].rb = runs[j].rb
                          /\ runs'[j].started = runs[j].started /\ runs'[j].ended = runs[j].ended
  BY DEF KillStamp, LimitInv, Wellformed, TypeOK, RunRow
<1>2. CooldownHolds'
  BY <1>1 DEF LimitInv, LimitsHold, CooldownHolds
<1> QED
  BY <1>1, <1>2, SameWindows DEF LimitsHold

\* No run starts in a window that has just begun.
LEMMA TickLimits ==
  ASSUME LimitInv, Tick
  PROVE  Dated' /\ LimitsHold'
<1>1. now \in Nat /\ now' = now + 1 /\ UNCHANGED <<runs, ctx>>
      /\ runs \in [RunId -> RunRow] /\ ctx \in [Task -> Ctx]
  BY DEF Tick, LimitInv, Wellformed, TypeOK, db
<1>2. Dated'
  BY <1>1 DEF LimitInv, Dated, Begun, RunRow, Ctx
<1>3. CooldownHolds'
  BY <1>1 DEF LimitInv, LimitsHold, CooldownHolds
<1>4. RateLimitHolds'
  <2> SUFFICES ASSUME NEW r \in Runbook, NEW from \in 0..now'
               PROVE  Cardinality(Window(r, from)') <= RateLimit
    BY DEF RateLimitHolds, Window
  <2>1. Window(r, from)' = Window(r, from)
    BY <1>1 DEF Window, RunsOf
  <2>2. CASE from \in 0..now
    BY <2>1, <2>2, RateLimitByWindow DEF LimitInv, LimitsHold
  <2>3. CASE from = now + 1
    <3>1. Window(r, from) = {}
      BY <1>1, <2>3 DEF Window, RunsOf, LimitInv, Dated, RunRow
    <3> QED
      BY <2>1, <3>1, FS_EmptySet, TimeAssumption
  <2> QED
    BY <1>1, <2>2, <2>3
<1> QED
  BY <1>2, <1>3, <1>4 DEF LimitsHold

LEMMA AlwaysLimitInv == Spec => []LimitInv
<1>1. Init => Dated /\ LimitsHold
  <2> SUFFICES ASSUME Init PROVE Dated /\ LimitsHold
    OBVIOUS
  <2>1. Begun = {} /\ \A r \in Runbook : RunsOf(r) = {}
    BY DataAssumption DEF Init, Begun, RunsOf, NoRun
  <2>2. Dated
    BY <2>1, FS_EmptySet DEF Init, Dated, NoCtx, NoRun
  <2>3. RateLimitHolds
    <3>1. \A r \in Runbook : \A from : Window(r, from) = {}
      BY <2>1 DEF Window
    <3> QED
      BY <3>1, RateLimitByWindow, FS_EmptySet, TimeAssumption
  <2>4. CooldownHolds
    BY DEF Init, CooldownHolds, NoRun
  <2> QED
    BY <2>2, <2>3, <2>4 DEF LimitsHold
<1>2. LimitInv /\ [Next]_vars => Dated' /\ LimitsHold'
  <2> SUFFICES ASSUME LimitInv, [Next]_vars PROVE Dated' /\ LimitsHold'
    OBVIOUS
  <2>1. CASE UNCHANGED vars
    BY <2>1, SameRuns DEF vars, db, LimitInv, Dated
  <2>2. ASSUME NEW t \in Task, Request(t) \/ Step(t) PROVE Dated' /\ LimitsHold'
    <3>1. now' = now /\ \A u \in Task : ctx'[u].at <= now
      BY <2>2, StepDated
    <3>2. CASE UNCHANGED runs
      BY <3>1, <3>2, SameRuns
    <3>3. CASE Claim(t) /\ runs' # runs
      <4>1. PICK i \in RunId : runs[i].mode = "none" /\ runs' = [runs EXCEPT ![i] = Claimed(t)]
        BY <3>3 DEF Claim, ClaimDenied, db
      <4>2. pc[t] = "lock" /\ ~InLockGate(ctx[t].rb, ctx[t].at)
        BY <3>3 DEF Claim, ClaimDenied, db
      <4> QED
        BY <3>1, <4>1, <4>2, ClaimLimits DEF Dated
    <3>4. CASE Persist(t) \/ KillStamp(t)
      BY <3>1, <3>4, PersistLimits, KillStampLimits DEF Dated
    <3>5. Claim(t) \/ Persist(t) \/ KillStamp(t) \/ UNCHANGED runs
      BY <2>2 DEF Request, HandleAlert, HandleOperatorTrigger, ExecuteApproved, ToggleOff, Load, vars,
                  Step, CheckDrift, GateSwitch, GateLimits, Approve, Deny, TakeTranscriptLock,
                  PrepareFails, Publish, StartProcess, ExecReturns, ExecFails, PinRealRun, Revert,
                  WriteFlagOff, KillSnapshot, KillContainer, KillVerify, db
    <3> QED
      BY <3>2, <3>3, <3>4, <3>5
  <2>3. CASE Environment
    <3>1. CASE Tick
      BY <3>1, TickLimits
    <3>2. CASE Crash
      BY <3>2, SameRuns DEF Crash, NoCtx, db, LimitInv, Wellformed, TypeOK
    <3>3. CASE Environment /\ ~Tick /\ ~Crash
      <4>1. UNCHANGED <<now, runs, ctx>>
        BY <3>3 DEF Environment, Reject, ToggleOn, Refresh, PatchGates, Prune, Edit, OrphanExits,
                    ContainerStarts, db
      <4> QED
        BY <4>1, SameRuns DEF LimitInv, Dated
    <3> QED
      BY <2>3, <3>1, <3>2, <3>3
  <2> QED
    BY <2>1, <2>2, <2>3 DEF Next
<1>3. Wellformed /\ Dated /\ LimitsHold <=> LimitInv
  BY DEF LimitInv
<1> QED
  BY <1>1, <1>2, <1>3, AlwaysWellformed, PTL DEF Spec

\* In no window of an hour does a runbook start more runs than its limit, and none
\* within the cooldown of a recorded end, however long a request waits between its
\* gates and its claim, whatever other requests do meanwhile and wherever the
\* process crashes.
THEOREM RunsAreLimited == Spec => []LimitsHold
<1>1. LimitInv => LimitsHold
  BY DEF LimitInv
<1> QED
  BY <1>1, AlwaysLimitInv, PTL

----------------------------------------------------------------------------
(* The files of fixes (RunFiles).  A file is told apart by what was there      *)
(* before, so what a run finds is its own or was made meanwhile by a process    *)
(* that outlived its exec, and was found by nobody else (Listing, Apart).  A    *)
(* transcript that the rotator takes is superseded by KeepLastN newer ones      *)
(* that are there, or too old; one of those that goes later was superseded by   *)
(* newer ones itself (Rotated).                                                 *)

FixPCs == {"new", "claimed", "exec", "intents", "persist", "done", "lost"}
PassRow == [todo : SUBSET FixRun, marking : FixRun \cup {None}]

FoundRow == [transcript : FixRun \cup {None}, feedback : FixRun \cup {None}]

FileTypes ==
    /\ days \in Nat /\ fixCrashes \in Nat
    /\ fixPc \in [FixRun -> FixPCs]
    /\ fixBook \in [FixRun -> FixBook \cup {None}] /\ dry \in [FixRun -> BOOLEAN] /\ claimed \in [FixRun -> Nat]
    /\ path \in [FixRun -> FixRun \cup {None}] /\ note \in [FixRun -> FixRun \cup {None}]
    /\ pruned \subseteq FixRun /\ prunes \in [FixRun -> Nat]
    /\ living \subseteq FixRun /\ outlived \subseteq FixRun
    /\ written \subseteq Files!File /\ removed \subseteq Files!File /\ before \subseteq Files!File
    /\ found \in [FixRun -> FoundRow]
    /\ intents \in [FixRun -> Files!IntentFile \cup {None}]
    /\ verdicts \in [FixRun -> Seq(Files!Verdict)] /\ restarts \in [FixRun -> Nat]
    /\ pass \in [Pass -> PassRow]

\* One run is between its listings, and only it and processes that outlived their exec
\* write files.
Writers ==
    /\ \A r, s \in FixRun : fixPc[r] = "exec" /\ fixPc[s] = "exec" => r = s
    /\ \A r \in living : r \in outlived \/ fixPc[r] = "exec"

\* What is new since the first listing was written by them, and nobody else found it.
Listing ==
    \A s \in FixRun : fixPc[s] = "exec" =>
        /\ \A f \in written : f \in before \/ f \in removed \/ f[2] = s \/ f[2] \in outlived
        /\ \A r \in FixRun : r # s =>
            /\ found[r].transcript # None => <<"transcript", found[r].transcript>> \in before \cup removed
            /\ found[r].feedback # None => <<"feedback", found[r].feedback>> \in before \cup removed

Findings ==
    \A r \in FixRun :
        /\ found[r].transcript # None => <<"transcript", found[r].transcript>> \in written
        /\ found[r].feedback # None => <<"feedback", found[r].feedback>> \in written
        /\ found[r].transcript # None => found[r].transcript = r \/ found[r].transcript \in outlived
        /\ found[r].feedback # None => found[r].feedback = r \/ found[r].feedback \in outlived

Apart ==
    \A r, s \in FixRun : r # s =>
        /\ found[r].transcript # None => found[s].transcript # found[r].transcript
        /\ found[r].feedback # None => found[s].feedback # found[r].feedback

\* A row has what its run found, once that is stored.
Stored ==
    \A r \in FixRun :
        /\ path[r] # None => fixPc[r] = "done" /\ path[r] = found[r].transcript
        /\ note[r] # None => fixPc[r] = "done" /\ note[r] = found[r].feedback
        /\ r \in pruned => fixPc[r] = "done" /\ path[r] = None

\* A transcript is removed by a pass, which finds it in a row.
Removals ==
    \A f \in removed : \E r \in FixRun : fixPc[r] = "done" /\ f = <<"transcript", found[r].transcript>>

\* Passes do not overlap, and the rows they are about are not marked yet.
Passes ==
    /\ \A p, q \in Pass : pass[p] # Files!Idle /\ pass[q] # Files!Idle => p = q
    /\ \A p \in Pass :
        /\ \A r \in pass[p].todo : path[r] # None
        /\ pass[p].marking # None =>
            /\ path[pass[p].marking] # None /\ pass[p].marking \notin pass[p].todo
            /\ <<"transcript", path[pass[p].marking]>> \in removed

\* What the rotator may take away.
NewerPresent(r) == {s \in Files!Present : fixBook[s] = fixBook[r] /\ Files!Newer(s, r)}
Superseded(r) == Files!TooOld(r) \/ Cardinality(NewerPresent(r)) >= KeepLastN
Gone(r) == r \in pruned \/ (path[r] # None /\ r \notin Files!Present) \/ \E p \in Pass : r \in pass[p].todo

Rotated == \A r \in FixRun : Gone(r) => Superseded(r)

\* How many of the first n intents docker may be asked for.
Allowed(f, n) == IF f[1] = "granted" THEN n ELSE IF n = 2 THEN 1 ELSE 0

Decisions ==
    \A r \in FixRun :
        /\ fixPc[r] \in {"new", "claimed", "exec"} => verdicts[r] = <<>>
        /\ verdicts[r] = <<>> => restarts[r] = 0
        /\ dry[r] => restarts[r] = 0
        /\ verdicts[r] # <<>> =>
            /\ intents[r] \in Files!IntentFile
            /\ fixPc[r] = "intents" => Len(verdicts[r]) = 1 /\ verdicts[r][1] # "failed"
            /\ fixPc[r] \in {"persist", "done"} => Len(verdicts[r]) = 2 \/ verdicts[r][Len(verdicts[r])] = "failed"
            /\ Len(verdicts[r]) <= 2 /\ restarts[r] <= Allowed(intents[r], Len(verdicts[r]))
            /\ \A i, j \in DOMAIN verdicts[r] : i < j /\ verdicts[r][i] = "unreachable"
                                              => verdicts[r][j] \in {"skipped", "failed"}

\* The parts about the processes, their files and what was found of them.
Traces == Writers /\ Listing /\ Findings /\ Apart

\* The parts about the rows and the rotator.
Rotation == Stored /\ Removals /\ Passes /\ Rotated /\ Files!PrunesAreAudited

FilesInv == FileTypes /\ Traces /\ Rotation /\ Decisions

LEMMA FilesConstants ==
  /\ None \notin FixRun /\ None \notin FixBook
  /\ FixRun \subseteq Nat /\ IsFiniteSet(FixRun)
  /\ KeepLastN \in Nat /\ MaxAge \in Nat
  BY FilesBounds DEF Files!FilesAssumption, Files!IsFiniteSet, IsFiniteSet

LEMMA FilesCardinality == \A S : Files!Cardinality(S) = Cardinality(S)
  BY Zenon DEF Files!Cardinality, Cardinality

\* More of the newer transcripts are enough all the same.
LEMMA MoreAreEnough ==
  ASSUME NEW S, NEW T, S \subseteq T, T \subseteq FixRun, Cardinality(S) >= KeepLastN
  PROVE  Cardinality(T) >= KeepLastN
<1>1. IsFiniteSet(T) /\ IsFiniteSet(S)
  BY FilesConstants, FS_Subset
<1>2. Cardinality(S) <= Cardinality(T) /\ Cardinality(S) \in Nat /\ Cardinality(T) \in Nat
  BY <1>1, FS_Subset, FS_CardinalityType
<1> QED
  BY <1>2, FilesConstants

----------------------------------------------------------------------------
(* Steps that leave a part alone. *)

\* Nobody enters or leaves the exec, nothing appears or is found.
LEMMA TracesStay ==
  ASSUME FileTypes, Traces, UNCHANGED <<written, before, found>>, removed \subseteq removed',
         living' \subseteq living, outlived \subseteq outlived',
         \A r \in FixRun : fixPc'[r] = "exec" <=> fixPc[r] = "exec"
  PROVE  Traces'
<1>1. Writers'
  BY DEF FileTypes, Traces, Writers
<1>2. Listing'
  BY DEF FileTypes, Traces, Listing
<1>3. Findings' /\ Apart'
  BY DEF FileTypes, Traces, Findings, Apart
<1> QED
  BY <1>1, <1>2, <1>3 DEF Traces

\* What is superseded stays so while no newer transcript goes.
LEMMA SupersededStays ==
  ASSUME FileTypes, NEW r \in FixRun, Superseded(r), days' \in Nat, days' >= days,
         Files!Present \subseteq Files!Present',
         \A s \in Files!Present \cup {r} : fixBook'[s] = fixBook[s] /\ claimed'[s] = claimed[s]
  PROVE  Superseded(r)'
<1>1. CASE Files!TooOld(r)
  BY <1>1, FilesConstants DEF Superseded, Files!TooOld, FileTypes
<1>2. CASE Cardinality(NewerPresent(r)) >= KeepLastN
  <2>1. NewerPresent(r) \subseteq NewerPresent(r)' /\ NewerPresent(r)' \subseteq FixRun
    BY DEF NewerPresent, Files!Newer, Files!Present
  <2> QED
    BY <1>2, <2>1, MoreAreEnough DEF Superseded
<1> QED
  BY <1>1, <1>2 DEF Superseded

\* Rows that are stored stay as they are, and so do the passes.
LEMMA RotationStays ==
  ASSUME FileTypes, Rotation, UNCHANGED <<path, note, pruned, prunes, removed, pass>>,
         written \subseteq written', days' \in Nat, days' >= days,
         \A r \in FixRun : fixPc[r] = "done" => /\ fixPc'[r] = "done" /\ found'[r] = found[r]
                                                /\ fixBook'[r] = fixBook[r] /\ claimed'[r] = claimed[r]
  PROVE  Rotation'
<1>1. Stored'
  BY DEF FileTypes, Rotation, Stored
<1>2. Removals'
  BY DEF FileTypes, Rotation, Removals
<1>3. Passes' /\ Files!PrunesAreAudited'
  BY DEF FileTypes, Rotation, Passes, Files!PrunesAreAudited, Files!Idle
<1>4. Rotated'
  <2> SUFFICES ASSUME NEW r \in FixRun, Gone(r)' PROVE Superseded(r)'
    BY DEF Rotated
  <2>1. Files!Present \subseteq Files!Present' /\ Files!Present' \subseteq FixRun
    BY DEF Files!Present, Files!Disk
  <2>2. \A s \in FixRun : s \in Files!Present \/ Gone(s) => fixPc[s] = "done"
    BY DEF Rotation, Stored, Passes, Gone, Files!Present
  <2>3. Gone(r)
    BY <2>1 DEF Gone
  <2>4. Superseded(r) /\ \A s \in Files!Present \cup {r} : fixBook'[s] = fixBook[s] /\ claimed'[s] = claimed[s]
    BY <2>2, <2>3 DEF Rotation, Rotated, Files!Present
  <2> QED
    BY <2>1, <2>4, SupersededStays
<1> QED
  BY <1>1, <1>2, <1>3, <1>4 DEF Rotation

\* A run with verdicts only ends.
LEMMA DecisionsStay ==
  ASSUME FileTypes, Decisions, UNCHANGED <<verdicts, restarts>>,
         \A r \in FixRun : verdicts[r] # <<>> =>
            /\ intents'[r] = intents[r] /\ dry'[r] = dry[r]
            /\ \/ fixPc'[r] \in {fixPc[r], "lost"}
               \/ fixPc[r] = "persist" /\ fixPc'[r] = "done"
  PROVE  Decisions'
<1> SUFFICES ASSUME NEW r \in FixRun
             PROVE  /\ fixPc'[r] \in {"new", "claimed", "exec"} => verdicts'[r] = <<>>
                    /\ verdicts'[r] = <<>> => restarts'[r] = 0
                    /\ dry'[r] => restarts'[r] = 0
                    /\ verdicts'[r] # <<>> =>
                        /\ intents'[r] \in Files!IntentFile
                        /\ fixPc'[r] = "intents" => Len(verdicts'[r]) = 1 /\ verdicts'[r][1] # "failed"
                        /\ fixPc'[r] \in {"persist", "done"} =>
                            Len(verdicts'[r]) = 2 \/ verdicts'[r][Len(verdicts'[r])] = "failed"
                        /\ Len(verdicts'[r]) <= 2 /\ restarts'[r] <= Allowed(intents'[r], Len(verdicts'[r]))
                        /\ \A i, j \in DOMAIN verdicts'[r] : i < j /\ verdicts'[r][i] = "unreachable"
                                                          => verdicts'[r][j] \in {"skipped", "failed"}
  BY DEF Decisions, Allowed, Files!IntentFile
<1>1. CASE verdicts[r] = <<>>
  BY <1>1 DEF FileTypes, Decisions
<1>2. CASE verdicts[r] # <<>>
  BY <1>2 DEF FileTypes, Decisions
<1> QED
  BY <1>1, <1>2

----------------------------------------------------------------------------
(* The steps of a run.                                                     *)

LEMMA ClaimFileKeeps ==
  ASSUME FilesInv, NEW i \in FixRun, NEW b \in FixBook, NEW plan \in BOOLEAN, Files!Claim(i, b, plan)
  PROVE  FilesInv'
<1>1. FileTypes'
  BY DEF FilesInv, FileTypes, FixPCs, Files!Claim, Files!runVars, Files!rowVars, Files!fileVars,
     Files!intentVars
<1>2. Traces'
  <2>1. /\ UNCHANGED <<written, before, found, removed, outlived>> /\ living' \subseteq living
        /\ \A r \in FixRun : fixPc'[r] = "exec" <=> fixPc[r] = "exec"
    BY DEF FilesInv, FileTypes, Files!Claim, Files!runVars, Files!rowVars, Files!fileVars, Files!intentVars
  <2> QED
    BY <2>1, TracesStay DEF FilesInv
<1>3. Rotation'
  <2>1. /\ UNCHANGED <<path, note, pruned, prunes, removed, pass, written>> /\ days' \in Nat /\ days' >= days
        /\ \A r \in FixRun : fixPc[r] = "done" => /\ fixPc'[r] = "done" /\ found'[r] = found[r]
                                                /\ fixBook'[r] = fixBook[r] /\ claimed'[r] = claimed[r]
    BY DEF FilesInv, FileTypes, Files!Claim, Files!runVars, Files!rowVars, Files!fileVars, Files!intentVars
  <2> QED
    BY <2>1, RotationStays DEF FilesInv
<1>4. Decisions'
  <2>1. /\ UNCHANGED <<verdicts, restarts>>
        /\ \A r \in FixRun : verdicts[r] # <<>> =>
            /\ intents'[r] = intents[r] /\ dry'[r] = dry[r]
            /\ \/ fixPc'[r] \in {fixPc[r], "lost"}
               \/ fixPc[r] = "persist" /\ fixPc'[r] = "done"
    BY DEF FilesInv, FileTypes, Decisions, Files!Claim, Files!runVars, Files!rowVars, Files!fileVars,
       Files!intentVars
  <2> QED
    BY <2>1, DecisionsStay DEF FilesInv
<1> QED
  BY <1>1, <1>2, <1>3, <1>4 DEF FilesInv

LEMMA QuietKeeps ==
  ASSUME FilesInv, NEW i \in FixRun,
         Files!PrepareFails(i) \/ Files!ProcessEnds(i) \/ Files!NoIntents(i) \/ Files!Tick
  PROVE  FilesInv'
<1>1. FileTypes'
  <2>1. CASE Files!PrepareFails(i) \/ Files!NoIntents(i)
    BY <2>1 DEF FilesInv, FileTypes, FixPCs, Files!PrepareFails, Files!NoIntents, Files!runVars,
       Files!rowVars, Files!fileVars, Files!intentVars
  <2>2. CASE Files!ProcessEnds(i)
    BY <2>2 DEF FilesInv, FileTypes, Files!ProcessEnds, Files!runVars, Files!rowVars, Files!fileVars,
       Files!intentVars
  <2>3. CASE Files!Tick
    BY <2>3 DEF FilesInv, FileTypes, Files!Tick, Files!runVars, Files!rowVars, Files!fileVars,
       Files!intentVars
  <2> QED
    BY <2>1, <2>2, <2>3
<1>2. Traces'
  <2>1. /\ UNCHANGED <<written, before, found, removed, outlived>> /\ living' \subseteq living
        /\ \A r \in FixRun : fixPc'[r] = "exec" <=> fixPc[r] = "exec"
    BY DEF FilesInv, FileTypes, Files!PrepareFails, Files!ProcessEnds, Files!NoIntents, Files!Tick,
       Files!runVars, Files!rowVars, Files!fileVars, Files!intentVars
  <2> QED
    BY <2>1, TracesStay DEF FilesInv
<1>3. Rotation'
  <2>1. /\ UNCHANGED <<path, note, pruned, prunes, removed, pass, written>> /\ days' \in Nat /\ days' >= days
        /\ \A r \in FixRun : fixPc[r] = "done" => /\ fixPc'[r] = "done" /\ found'[r] = found[r]
                                                /\ fixBook'[r] = fixBook[r] /\ claimed'[r] = claimed[r]
    BY DEF FilesInv, FileTypes, Files!PrepareFails, Files!ProcessEnds, Files!NoIntents, Files!Tick,
       Files!runVars, Files!rowVars, Files!fileVars, Files!intentVars
  <2> QED
    BY <2>1, RotationStays DEF FilesInv
<1>4. Decisions'
  <2>1. /\ UNCHANGED <<verdicts, restarts>>
        /\ \A r \in FixRun : verdicts[r] # <<>> =>
            /\ intents'[r] = intents[r] /\ dry'[r] = dry[r]
            /\ \/ fixPc'[r] \in {fixPc[r], "lost"}
               \/ fixPc[r] = "persist" /\ fixPc'[r] = "done"
    BY DEF FilesInv, FileTypes, Decisions, Files!PrepareFails, Files!ProcessEnds, Files!NoIntents,
       Files!Tick, Files!runVars, Files!rowVars, Files!fileVars, Files!intentVars
  <2> QED
    BY <2>1, DecisionsStay DEF FilesInv
<1> QED
  BY <1>1, <1>2, <1>3, <1>4 DEF FilesInv

\* Everything that is in the directory is in the first listing.
LEMMA ExecFileKeeps ==
  ASSUME FilesInv, NEW i \in FixRun, Files!Exec(i)
  PROVE  FilesInv'
<1>1. FileTypes'
  BY DEF FilesInv, FileTypes, FixPCs, Files!Exec, Files!Disk, Files!runVars, Files!rowVars,
     Files!fileVars, Files!intentVars
<1>2. Traces'
  <2>1. /\ fixPc' = [fixPc EXCEPT ![i] = "exec"] /\ fixPc[i] = "claimed" /\ \A s \in FixRun : fixPc[s] # "exec"
        /\ before' = written \ removed /\ living' = living \cup {i}
        /\ UNCHANGED <<written, removed, outlived, found>>
    BY DEF Files!Exec, Files!LockIsFree, Files!Disk
  <2>2. Writers'
    BY <2>1 DEF FilesInv, FileTypes, Traces, Writers
  <2>3. Listing'
    BY <2>1 DEF FilesInv, FileTypes, Traces, Findings, Listing
  <2>4. Findings' /\ Apart'
    BY <2>1 DEF FilesInv, Traces, Findings, Apart
  <2> QED
    BY <2>2, <2>3, <2>4 DEF Traces
<1>3. Rotation'
  <2>1. /\ UNCHANGED <<path, note, pruned, prunes, removed, pass, days>> /\ written \subseteq written'
        /\ \A r \in FixRun : fixPc[r] = "done" => /\ fixPc'[r] = "done" /\ found'[r] = found[r]
                                                /\ fixBook'[r] = fixBook[r] /\ claimed'[r] = claimed[r]
    BY DEF FilesInv, FileTypes, Files!Exec, Files!runVars, Files!rowVars, Files!fileVars, Files!intentVars
  <2> QED
    BY <2>1, RotationStays DEF FilesInv, FileTypes
<1>4. Decisions'
  <2>1. /\ UNCHANGED <<verdicts, restarts>>
        /\ \A r \in FixRun : verdicts[r] # <<>> =>
            /\ intents'[r] = intents[r] /\ dry'[r] = dry[r] /\ fixPc'[r] = fixPc[r]
    BY DEF FilesInv, FileTypes, Decisions, Files!Exec, Files!runVars, Files!rowVars, Files!fileVars,
       Files!intentVars
  <2> QED
    BY <2>1, DecisionsStay DEF FilesInv
<1> QED
  BY <1>1, <1>2, <1>3, <1>4 DEF FilesInv

\* A process that writes is the one in the exec or outlived its own.
LEMMA WriteFileKeeps ==
  ASSUME FilesInv, NEW i \in FixRun, NEW k \in Files!Kind, Files!Write(i, k)
  PROVE  FilesInv'
<1>1. FileTypes'
  BY SMTT(30) DEF FilesInv, FileTypes, Files!Write, Files!File, Files!runVars, Files!rowVars, Files!fileVars,
     Files!intentVars
<1>2. Traces'
  <2>1. /\ i \in living /\ written' = written \cup {<<k, i>>}
        /\ UNCHANGED <<fixPc, removed, before, living, outlived, found>>
    BY DEF Files!Write
  <2>2. Writers' /\ Findings' /\ Apart'
    BY <2>1 DEF FilesInv, Traces, Writers, Findings, Apart
  <2>3. Listing'
    BY <2>1 DEF FilesInv, FileTypes, Traces, Writers, Listing
  <2> QED
    BY <2>2, <2>3 DEF Traces
<1>3. Rotation'
  <2>1. /\ UNCHANGED <<path, note, pruned, prunes, removed, pass, days>> /\ written \subseteq written'
        /\ \A r \in FixRun : fixPc[r] = "done" => /\ fixPc'[r] = "done" /\ found'[r] = found[r]
                                                /\ fixBook'[r] = fixBook[r] /\ claimed'[r] = claimed[r]
    BY DEF FilesInv, FileTypes, Files!Write, Files!runVars, Files!rowVars, Files!fileVars, Files!intentVars
  <2> QED
    BY <2>1, RotationStays DEF FilesInv, FileTypes
<1>4. Decisions'
  <2>1. /\ UNCHANGED <<verdicts, restarts>>
        /\ \A r \in FixRun : verdicts[r] # <<>> =>
            /\ intents'[r] = intents[r] /\ dry'[r] = dry[r] /\ fixPc'[r] = fixPc[r]
    BY DEF FilesInv, FileTypes, Decisions, Files!Write, Files!runVars, Files!rowVars, Files!fileVars,
       Files!intentVars
  <2> QED
    BY <2>1, DecisionsStay DEF FilesInv
<1> QED
  BY <1>1, <1>2, <1>3, <1>4 DEF FilesInv

\* A file that appeared during the exec of s, if any did.
Appearing(k, s, q) == q = None \/ (q \in FixRun /\ <<k, q>> \in Files!Disk /\ <<k, q>> \notin before)

\* What appeared was written during the exec, and nobody has found it before.
LEMMA LeaveFileKeeps ==
  ASSUME FilesInv, NEW i \in FixRun, Files!Leave(i)
  PROVE  FilesInv'
<1>1. PICK t \in Files!Resolved("transcript"), f \in Files!Resolved("feedback") :
        found' = [found EXCEPT ![i] = [transcript |-> t, feedback |-> f]]
  BY DEF Files!Leave
<1> DEFINE x == [transcript |-> t, feedback |-> f]
<1>2. Appearing("transcript", i, t) /\ Appearing("feedback", i, f)
  <2>1. ASSUME NEW k, NEW q \in Files!Resolved(k)
        PROVE  Appearing(k, i, q)
    <3>1. CASE q \in Files!Appeared(k)
      <4>1. PICK g \in Files!Disk \ before : g[1] = k /\ q = g[2]
        BY <3>1 DEF Files!Appeared
      <4>2. g \in Files!Kind \X FixRun
        BY <4>1 DEF FilesInv, FileTypes, Files!File, Files!Disk
      <4>3. g = <<k, q>> /\ q \in FixRun
        BY <4>1, <4>2
      <4> QED
        BY <4>1, <4>3 DEF Appearing
    <3>2. CASE q \notin Files!Appeared(k)
      BY <2>1, <3>2 DEF Appearing, Files!Resolved
    <3> QED
      BY <3>1, <3>2
  <2> QED
    BY <1>1, <2>1
<1>3. x \in FoundRow /\ x.transcript = t /\ x.feedback = f
  BY <1>2 DEF FoundRow, Appearing
<1>4. found' = [found EXCEPT ![i] = x]
  BY <1>1
<1> HIDE DEF x
<1>5. found' \in [FixRun -> FoundRow] /\ found'[i] = x /\ \A r \in FixRun : r # i => found'[r] = found[r]
  BY <1>3, <1>4 DEF FilesInv, FileTypes
<1>6. /\ fixPc[i] = "exec" /\ UNCHANGED <<written, removed, before>>
      /\ \/ living' = living \ {i} /\ outlived' = outlived
         \/ living' = living /\ outlived' = outlived \cup {i}
      /\ \E l \in {"intents", "persist"} : fixPc' = [fixPc EXCEPT ![i] = l]
  BY DEF Files!Leave
<1>7. FileTypes'
  <2>1. /\ UNCHANGED <<days, fixCrashes, fixBook, dry, claimed, path, note, pruned, prunes, verdicts, restarts, pass>>
    BY DEF Files!Leave, Files!runVars, Files!rowVars
  <2>3. intents' \in [FixRun -> Files!IntentFile \cup {None}]
    <3>1. intents' = intents \/ \E n \in Files!IntentFile \cup {None} : intents' = [intents EXCEPT ![i] = n]
      BY DEF Files!Leave
    <3> QED
      BY <3>1 DEF FilesInv, FileTypes
  <2>2. fixPc' \in [FixRun -> FixPCs] /\ living' \subseteq FixRun /\ outlived' \subseteq FixRun
    BY <1>6 DEF FilesInv, FileTypes, FixPCs
  <2> QED
    BY <1>5, <1>6, <2>1, <2>2, <2>3 DEF FilesInv, FileTypes
<1>8. Traces'
  <2>1. \A s \in FixRun : fixPc'[s] # "exec"
    BY <1>6 DEF FilesInv, FileTypes, Traces, Writers
  <2>2. Writers' /\ Listing'
    BY <1>6, <2>1 DEF FilesInv, FileTypes, Traces, Writers, Listing
  <2>3. /\ t # None => /\ <<"transcript", t>> \in written /\ <<"transcript", t>> \notin before \cup removed
                       /\ t = i \/ t \in outlived
        /\ f # None => /\ <<"feedback", f>> \in written /\ <<"feedback", f>> \notin before \cup removed
                       /\ f = i \/ f \in outlived
    <3>1. ASSUME NEW g \in written, g \notin before \cup removed
          PROVE  g[2] = i \/ g[2] \in outlived
      BY <1>6, <3>1 DEF FilesInv, Traces, Listing
    <3>2. ASSUME NEW k, NEW q \in FixRun, <<k, q>> \in Files!Disk, <<k, q>> \notin before
          PROVE  <<k, q>> \in written /\ <<k, q>> \notin before \cup removed /\ (q = i \/ q \in outlived)
      BY <3>1, <3>2 DEF Files!Disk
    <3> QED
      BY <1>2, <3>2 DEF Appearing
  <2>4. Findings'
    <3> SUFFICES ASSUME NEW r \in FixRun
                 PROVE  /\ found'[r].transcript # None =>
                            /\ <<"transcript", found'[r].transcript>> \in written'
                            /\ found'[r].transcript = r \/ found'[r].transcript \in outlived'
                        /\ found'[r].feedback # None =>
                            /\ <<"feedback", found'[r].feedback>> \in written'
                            /\ found'[r].feedback = r \/ found'[r].feedback \in outlived'
      BY DEF Findings
    <3>1. outlived \subseteq outlived' /\ written' = written
      BY <1>6
    <3>2. CASE r = i
      BY <1>3, <1>5, <2>3, <3>1, <3>2
    <3>3. CASE r # i
      BY <1>5, <3>1, <3>3 DEF FilesInv, Traces, Findings
    <3> QED
      BY <3>2, <3>3
  <2>5. ASSUME NEW r \in FixRun, r # i
        PROVE  /\ t # None => found[r].transcript # t
               /\ f # None => found[r].feedback # f
    BY <1>6, <2>3, <2>5 DEF FilesInv, Traces, Listing
  <2>6. Apart'
    <3> SUFFICES ASSUME NEW r \in FixRun, NEW s \in FixRun, r # s
                 PROVE  /\ found'[r].transcript # None => found'[s].transcript # found'[r].transcript
                        /\ found'[r].feedback # None => found'[s].feedback # found'[r].feedback
      BY DEF Apart
    <3>1. CASE r = i
      BY <1>3, <1>5, <2>5, <3>1
    <3>2. CASE s = i
      BY <1>3, <1>5, <2>5, <3>2
    <3>3. CASE r # i /\ s # i
      BY <1>5, <3>3 DEF FilesInv, Traces, Apart
    <3> QED
      BY <3>1, <3>2, <3>3
  <2> QED
    BY <2>2, <2>4, <2>6 DEF Traces
<1>9. Rotation'
  <2>1. /\ UNCHANGED <<path, note, pruned, prunes, removed, pass, days, written>>
        /\ \A r \in FixRun : fixPc[r] = "done" => /\ fixPc'[r] = "done" /\ found'[r] = found[r]
                                                /\ fixBook'[r] = fixBook[r] /\ claimed'[r] = claimed[r]
    BY <1>5, <1>6 DEF FilesInv, FileTypes, Files!Leave, Files!runVars, Files!rowVars, Files!fileVars,
       Files!intentVars
  <2> QED
    BY <2>1, RotationStays DEF FilesInv, FileTypes
<1>10. Decisions'
  <2>1. /\ UNCHANGED <<verdicts, restarts>>
        /\ \A r \in FixRun : verdicts[r] # <<>> =>
            /\ intents'[r] = intents[r] /\ dry'[r] = dry[r] /\ fixPc'[r] = fixPc[r]
    BY <1>6 DEF FilesInv, FileTypes, Decisions, Files!Leave, Files!runVars, Files!rowVars,
       Files!fileVars, Files!intentVars
  <2> QED
    BY <2>1, DecisionsStay DEF FilesInv
<1> QED
  BY <1>7, <1>8, <1>9, <1>10 DEF FilesInv

----------------------------------------------------------------------------
(* The intents.                                                            *)

\* Nothing but the verdicts, the restarts and the place of one run changes.
LEMMA VerdictKeeps ==
  ASSUME FilesInv, NEW i \in FixRun, NEW v \in Files!Verdict, NEW l \in {"intents", "persist"},
         NEW k \in {0, 1},
         fixPc[i] = "intents", intents[i] \in Files!IntentFile,
         fixPc' = [fixPc EXCEPT ![i] = l],
         verdicts' = [verdicts EXCEPT ![i] = Append(@, v)],
         restarts' = [restarts EXCEPT ![i] = @ + k],
         k = 1 => ~dry[i] /\ intents[i][Len(verdicts[i]) + 1] = "granted",
         \A n \in 1..Len(verdicts[i]) : verdicts[i][n] = "unreachable" => v \in {"skipped", "failed"},
         l = "intents" => verdicts[i] = <<>> /\ v # "failed",
         l = "persist" => Len(verdicts[i]) = 1 \/ v = "failed",
         UNCHANGED <<days, fixBook, dry, claimed, path, note, pruned, prunes, written, removed, before,
                     living, outlived, found, intents, pass, fixCrashes>>
  PROVE  FilesInv'
<1>1. verdicts[i] \in Seq(Files!Verdict) /\ restarts[i] \in Nat /\ k \in Nat
  BY DEF FilesInv, FileTypes
<1>2. verdicts'[i] = Append(verdicts[i], v) /\ restarts'[i] = restarts[i] + k /\ fixPc'[i] = l
  BY DEF FilesInv, FileTypes
<1>3. \A r \in FixRun : r # i => verdicts'[r] = verdicts[r] /\ restarts'[r] = restarts[r] /\ fixPc'[r] = fixPc[r]
  BY DEF FilesInv, FileTypes
<1>4. FileTypes'
  <2>1. Append(verdicts[i], v) \in Seq(Files!Verdict) /\ restarts[i] + k \in Nat /\ l \in FixPCs
    BY <1>1 DEF FixPCs
  <2>2. verdicts' \in [FixRun -> Seq(Files!Verdict)]
    BY <2>1 DEF FilesInv, FileTypes
  <2>3. restarts' \in [FixRun -> Nat] /\ fixPc' \in [FixRun -> FixPCs]
    BY <2>1 DEF FilesInv, FileTypes
  <2> QED
    BY <2>2, <2>3 DEF FilesInv, FileTypes
<1>5. Traces'
  <2>1. \A r \in FixRun : fixPc'[r] = "exec" <=> fixPc[r] = "exec"
    BY <1>2, <1>3
  <2> QED
    BY <2>1, TracesStay DEF FilesInv
<1>6. Rotation'
  <2>1. \A r \in FixRun : fixPc[r] = "done" => fixPc'[r] = "done"
    BY <1>3
  <2>2. days' \in Nat /\ days' >= days /\ written \subseteq written'
    BY DEF FilesInv, FileTypes
  <2> QED
    BY <2>1, <2>2, RotationStays DEF FilesInv
<1>7. Decisions'
  <2>1. Len(verdicts[i]) \in {0, 1} /\ Len(verdicts'[i]) = Len(verdicts[i]) + 1
        /\ verdicts'[i] # <<>> /\ verdicts'[i][Len(verdicts'[i])] = v
        /\ \A n \in 1..Len(verdicts[i]) : verdicts'[i][n] = verdicts[i][n]
    BY <1>1, <1>2 DEF FilesInv, Decisions
  <2>2. DOMAIN verdicts'[i] = 1..(Len(verdicts[i]) + 1)
    BY <1>1, <1>2
  <2>3. restarts[i] <= Allowed(intents[i], Len(verdicts[i]))
    <3>1. CASE verdicts[i] = <<>>
      BY <3>1 DEF FilesInv, Decisions, Allowed
    <3>2. CASE verdicts[i] # <<>>
      BY <3>2 DEF FilesInv, Decisions
    <3> QED
      BY <3>1, <3>2
  <2>4. restarts'[i] <= Allowed(intents'[i], Len(verdicts'[i])) /\ (dry'[i] => restarts'[i] = 0)
    <3>1. dry[i] => restarts[i] = 0
      BY DEF FilesInv, Decisions
    <3>2. intents[i] \in {<<"granted", "granted">>, <<"foreign", "granted">>}
      BY DEF Files!IntentFile
    <3>3. CASE k = 1
      BY <1>1, <1>2, <2>1, <2>3, <3>1, <3>2, <3>3 DEF Allowed
    <3>4. CASE k = 0
      BY <1>1, <1>2, <2>1, <2>3, <3>1, <3>2, <3>4 DEF Allowed
    <3> QED
      BY <3>3, <3>4
  <2>5. \A m, n \in DOMAIN verdicts'[i] : m < n /\ verdicts'[i][m] = "unreachable"
                                          => verdicts'[i][n] \in {"skipped", "failed"}
    BY <2>1, <2>2
  <2>6. /\ l = "intents" => Len(verdicts'[i]) = 1 /\ verdicts'[i][1] # "failed"
        /\ l = "persist" => Len(verdicts'[i]) = 2 \/ verdicts'[i][Len(verdicts'[i])] = "failed"
        /\ Len(verdicts'[i]) <= 2
    <3>1. CASE l = "intents"
      <4>1. Len(verdicts[i]) = 0 /\ v # "failed"
        BY <3>1
      <4>2. Len(verdicts'[i]) = 1
        BY <2>1, <4>1
      <4> QED
        BY <2>1, <3>1, <4>1, <4>2
    <3>2. CASE l = "persist"
      BY <2>1, <3>2
    <3> QED
      BY <3>1, <3>2
  <2> SUFFICES ASSUME NEW r \in FixRun
               PROVE  /\ fixPc'[r] \in {"new", "claimed", "exec"} => verdicts'[r] = <<>>
                      /\ verdicts'[r] = <<>> => restarts'[r] = 0
                      /\ dry'[r] => restarts'[r] = 0
                      /\ verdicts'[r] # <<>> =>
                        /\ intents'[r] \in Files!IntentFile
                        /\ fixPc'[r] = "intents" => Len(verdicts'[r]) = 1 /\ verdicts'[r][1] # "failed"
                        /\ fixPc'[r] \in {"persist", "done"} =>
                            Len(verdicts'[r]) = 2 \/ verdicts'[r][Len(verdicts'[r])] = "failed"
                        /\ Len(verdicts'[r]) <= 2 /\ restarts'[r] <= Allowed(intents'[r], Len(verdicts'[r]))
                        /\ \A m, n \in DOMAIN verdicts'[r] : m < n /\ verdicts'[r][m] = "unreachable"
                                                          => verdicts'[r][n] \in {"skipped", "failed"}
    BY DEF Decisions, Allowed, Files!IntentFile
  <2>7. CASE r = i
    BY <1>2, <2>1, <2>4, <2>5, <2>6, <2>7
  <2>8. CASE r # i
    BY <1>3, <2>8 DEF FilesInv, Decisions
  <2> QED
    BY <2>7, <2>8
<1> QED
  BY <1>4, <1>5, <1>6, <1>7 DEF FilesInv

LEMMA DecideFileKeeps ==
  ASSUME FilesInv, NEW i \in FixRun, Files!DecideIntent(i) \/ Files!GatewayFails(i)
  PROVE  FilesInv'
<1> DEFINE n == Len(verdicts[i])
<1>1. n \in {0, 1} /\ fixPc[i] = "intents" /\ intents[i] \in Files!IntentFile /\ Len(intents[i]) = 2
      /\ (n = 0 <=> verdicts[i] = <<>>) /\ intents[i][n + 1] \in {"granted", "foreign"}
  <2>1. verdicts[i] \in Seq(Files!Verdict) /\ fixPc[i] = "intents" /\ intents[i] \in Files!IntentFile
    BY DEF FilesInv, FileTypes, Files!DecideIntent, Files!GatewayFails
  <2>2. n \in {0, 1} /\ (n = 0 <=> verdicts[i] = <<>>)
    <3>1. CASE verdicts[i] = <<>>
      BY <3>1
    <3>2. CASE verdicts[i] # <<>>
      BY <2>1, <3>2 DEF FilesInv, Decisions
    <3> QED
      BY <3>1, <3>2
  <2>3. Len(intents[i]) = 2 /\ intents[i][1] \in {"granted", "foreign"} /\ intents[i][2] = "granted"
    BY <2>1 DEF Files!IntentFile
  <2> QED
    BY <2>1, <2>2, <2>3
<1>2. UNCHANGED <<days, fixBook, dry, claimed, path, note, pruned, prunes, written, removed, before,
                     living, outlived, found, intents, pass, fixCrashes>>
  BY DEF Files!DecideIntent, Files!GatewayFails, Files!runVars, Files!rowVars, Files!fileVars
<1>3. CASE Files!DecideIntent(i)
  <2>1. PICK v \in Files!Outcomes(i, n) :
            /\ verdicts' = [verdicts EXCEPT ![i] = Append(@, v)]
            /\ restarts' = [restarts EXCEPT ![i] =
                                IF v \in {"executed", "refused", "unreachable"} THEN @ + 1 ELSE @]
    BY <1>3 DEF Files!DecideIntent
  <2> DEFINE k == IF v \in {"executed", "refused", "unreachable"} THEN 1 ELSE 0
             l == IF n = 1 THEN "persist" ELSE "intents"
  <2>2. restarts' = [restarts EXCEPT ![i] = @ + k]
    <3>1. CASE v \in {"executed", "refused", "unreachable"}
      BY <2>1, <3>1
    <3>2. CASE v \notin {"executed", "refused", "unreachable"}
      <4>1. restarts[i] + k = restarts[i]
        BY <3>2 DEF FilesInv, FileTypes
      <4>2. restarts' = [restarts EXCEPT ![i] = @]
        BY <2>1, <3>2
      <4> QED
        BY <4>1, <4>2
    <3> QED
      BY <3>1, <3>2
  <2>3. fixPc' = [fixPc EXCEPT ![i] = l]
    <3>1. fixPc' = [fixPc EXCEPT ![i] = IF n + 1 = Len(intents[i]) THEN "persist" ELSE @]
      BY <1>3 DEF Files!DecideIntent
    <3>2. CASE n = 1
      <4>1. n + 1 = Len(intents[i]) /\ l = "persist"
        BY <1>1, <3>2
      <4> QED
        BY <3>1, <4>1
    <3>3. CASE n = 0
      <4>1. n + 1 # Len(intents[i]) /\ l = fixPc[i]
        BY <1>1, <3>3
      <4> QED
        BY <3>1, <4>1
    <3> QED
      BY <1>1, <3>2, <3>3
  <2>4. v \in Files!Verdict /\ v # "failed"
        /\ (k = 1 => ~dry[i] /\ intents[i][n + 1] = "granted")
        /\ \A m \in 1..n : verdicts[i][m] = "unreachable" => v \in {"skipped", "failed"}
    BY <1>1, <2>1 DEF Files!Outcomes, Files!Verdict
  <2>5. k \in {0, 1} /\ l \in {"intents", "persist"} /\ (l = "intents" => n = 0) /\ (l = "persist" => n = 1)
    BY <1>1
  <2> HIDE DEF k, l
  <2> QED
    BY <1>1, <1>2, <2>1, <2>2, <2>3, <2>4, <2>5, VerdictKeeps
<1>4. CASE Files!GatewayFails(i)
  <2>1. /\ fixPc' = [fixPc EXCEPT ![i] = "persist"]
        /\ verdicts' = [verdicts EXCEPT ![i] = Append(@, "failed")] /\ "failed" \in Files!Verdict
    BY <1>4 DEF Files!GatewayFails, Files!Verdict
  <2>2. CASE restarts' = [restarts EXCEPT ![i] = @ + 1] /\ Files!Outcomes(i, n) \cap {"executed"} # {}
    <3>1. ~dry[i] /\ intents[i][n + 1] = "granted"
      BY <1>1, <2>2 DEF Files!Outcomes
    <3> QED
      BY <1>1, <1>2, <2>1, <2>2, <3>1, VerdictKeeps
  <2>3. CASE restarts' = restarts
    <3> DEFINE k == 0
    <3>1. restarts' = [restarts EXCEPT ![i] = @ + k] /\ k \in {0, 1} /\ k # 1
      BY <2>3 DEF FilesInv, FileTypes
    <3> HIDE DEF k
    <3> QED
      BY <1>1, <1>2, <2>1, <3>1, VerdictKeeps
  <2> QED
    BY <1>4, <2>2, <2>3 DEF Files!GatewayFails
<1> QED
  BY <1>3, <1>4

----------------------------------------------------------------------------
(* What is stored, and the rotator.                                        *)

\* A transcript that is stored has not been removed: that takes a row that has it.
LEMMA PersistFileKeeps ==
  ASSUME FilesInv, NEW i \in FixRun, Files!Persist(i)
  PROVE  FilesInv'
<1>1. /\ fixPc[i] = "persist" /\ fixPc' = [fixPc EXCEPT ![i] = "done"]
      /\ path' = [path EXCEPT ![i] = found[i].transcript]
      /\ note' = note \/ note' = [note EXCEPT ![i] = found[i].feedback]
      /\ UNCHANGED <<days, fixBook, dry, claimed, pruned, prunes, written, removed, before, living, outlived,
                     found, intents, verdicts, restarts, pass, fixCrashes>>
  BY DEF Files!Persist, Files!StoreFeedback, Files!runVars, Files!fileVars, Files!intentVars
<1>2. /\ path[i] = None /\ note[i] = None /\ i \notin pruned
      /\ found[i].transcript \in FixRun \cup {None} /\ found[i].feedback \in FixRun \cup {None}
  BY <1>1 DEF FilesInv, FileTypes, FoundRow, Rotation, Stored
<1>3. FileTypes'
  BY <1>1, <1>2 DEF FilesInv, FileTypes, FixPCs
<1>4. Traces'
  <2>1. \A r \in FixRun : fixPc'[r] = "exec" <=> fixPc[r] = "exec"
    BY <1>1 DEF FilesInv, FileTypes
  <2> QED
    BY <1>1, <2>1, TracesStay DEF FilesInv
<1>5. Decisions'
  <2>1. \A r \in FixRun : \/ fixPc'[r] = fixPc[r]
                          \/ fixPc[r] = "persist" /\ fixPc'[r] = "done"
    BY <1>1 DEF FilesInv, FileTypes
  <2> QED
    BY <1>1, <2>1, DecisionsStay DEF FilesInv
<1>6. Rotation'
  <2>1. /\ path'[i] = found[i].transcript /\ note'[i] \in {None, found[i].feedback} /\ fixPc'[i] = "done"
        /\ \A r \in FixRun : r # i => path'[r] = path[r] /\ note'[r] = note[r] /\ fixPc'[r] = fixPc[r]
    BY <1>1, <1>2 DEF FilesInv, FileTypes
  <2>2. Stored'
    BY <1>1, <1>2, <2>1 DEF FilesInv, Rotation, Stored
  <2>3. Removals'
    BY <1>1, <2>1 DEF FilesInv, Rotation, Removals
  <2>4. Passes' /\ Files!PrunesAreAudited'
    <3>1. \A r \in FixRun : path[r] # None => path'[r] = path[r]
      BY <1>2, <2>1
    <3>2. \A q \in Pass : pass[q].todo \subseteq FixRun /\ pass[q].marking \in FixRun \cup {None}
      BY DEF FilesInv, FileTypes, PassRow
    <3>3. ASSUME NEW q \in Pass
          PROVE  /\ \A r \in pass[q].todo : path'[r] # None
                 /\ pass[q].marking # None =>
                      /\ path'[pass[q].marking] # None /\ pass[q].marking \notin pass[q].todo
                      /\ <<"transcript", path'[pass[q].marking]>> \in removed
      <4>1. /\ \A r \in pass[q].todo : path[r] # None
            /\ pass[q].marking # None =>
                 /\ path[pass[q].marking] # None /\ pass[q].marking \notin pass[q].todo
                 /\ <<"transcript", path[pass[q].marking]>> \in removed
        BY DEF FilesInv, Rotation, Passes
      <4>2. CASE pass[q].marking = None
        BY <3>1, <3>2, <4>1, <4>2
      <4>3. CASE pass[q].marking # None
        <5>1. path'[pass[q].marking] = path[pass[q].marking]
          BY <3>1, <3>2, <4>1, <4>3
        <5> QED
          BY <3>1, <3>2, <4>1, <5>1
      <4> QED
        BY <4>2, <4>3
    <3>4. Passes'
      BY <1>1, <3>3 DEF FilesInv, Rotation, Passes, Files!Idle
    <3> QED
      BY <1>1, <3>4 DEF FilesInv, Rotation, Files!PrunesAreAudited
  <2>5. path'[i] # None => <<"transcript", path'[i]>> \in Files!Disk'
    <3> SUFFICES ASSUME path'[i] # None, <<"transcript", path'[i]>> \in removed PROVE FALSE
      <4>1. path'[i] # None => <<"transcript", path'[i]>> \in written
        BY <2>1 DEF FilesInv, Traces, Findings
      <4> QED
        BY <1>1, <4>1 DEF Files!Disk
    <3>1. PICK r \in FixRun : fixPc[r] = "done" /\ <<"transcript", path'[i]>> = <<"transcript", found[r].transcript>>
      BY DEF FilesInv, Rotation, Removals
    <3>2. r # i /\ found[r].transcript = found[i].transcript /\ found[i].transcript # None
      BY <1>1, <2>1, <3>1
    <3> QED
      BY <3>2 DEF FilesInv, Traces, Apart
  <2>6. Rotated'
    <3> SUFFICES ASSUME NEW r \in FixRun, Gone(r)' PROVE Superseded(r)'
      BY DEF Rotated
    <3>1. Files!Present \subseteq Files!Present' /\ Files!Disk' = Files!Disk
      BY <1>1, <1>2, <2>1 DEF Files!Present, Files!Disk
    <3>2. r # i /\ Gone(r)
      <4>1. \A p \in Pass : i \notin pass[p].todo
        BY <1>2 DEF FilesInv, Rotation, Passes
      <4>2. r # i
        BY <1>1, <1>2, <2>5, <4>1 DEF Gone, Files!Present
      <4> QED
        BY <1>1, <2>1, <3>1, <4>2 DEF Gone
    <3>3. Superseded(r)
      BY <3>2 DEF FilesInv, Rotation, Rotated
    <3>4. FileTypes /\ days' \in Nat /\ days' >= days
      BY <1>1 DEF FilesInv, FileTypes
    <3> QED
      BY <1>1, <3>1, <3>3, <3>4, SupersededStays
  <2> QED
    BY <2>2, <2>3, <2>4, <2>6 DEF Rotation
<1> QED
  BY <1>3, <1>4, <1>5, <1>6 DEF FilesInv

\* Being newer is transitive, and what is older than something too old is too old.
LEMMA NewerIsAnOrder ==
  ASSUME FileTypes, NEW r \in FixRun, NEW s \in FixRun, Files!Newer(s, r)
  PROVE  /\ r # s
         /\ Files!TooOld(s) => Files!TooOld(r)
         /\ \A t \in FixRun : Files!Newer(t, s) => Files!Newer(t, r) /\ t # s
<1>1. /\ r \in Nat /\ s \in Nat /\ MaxAge \in Nat /\ days \in Nat
      /\ claimed[r] \in Nat /\ claimed[s] \in Nat
  BY FilesConstants DEF FileTypes
<1>2. claimed[s] > claimed[r] \/ (claimed[s] = claimed[r] /\ s > r)
  BY DEF Files!Newer
<1>3. r # s
  BY <1>1, <1>2
<1>4. Files!TooOld(s) => Files!TooOld(r)
  BY <1>1, <1>2 DEF Files!TooOld
<1>5. ASSUME NEW t \in FixRun, Files!Newer(t, s)
      PROVE  Files!Newer(t, r) /\ t # s
  <2>1. t \in Nat /\ claimed[t] \in Nat
    BY FilesConstants DEF FileTypes
  <2>2. claimed[t] > claimed[s] \/ (claimed[t] = claimed[s] /\ t > s)
    BY <1>5 DEF Files!Newer
  <2> QED
    BY <1>1, <1>2, <2>1, <2>2 DEF Files!Newer
<1> QED
  BY <1>3, <1>4, <1>5

\* The steps of the rotator leave the run and its intents alone.
LEMMA RotatorOnly ==
  ASSUME FilesInv, UNCHANGED <<days, fixPc, fixBook, dry, claimed, note, written, before, living, outlived,
                               found, intents, verdicts, restarts, fixCrashes>>,
         path' \in [FixRun -> FixRun \cup {None}], pruned' \subseteq FixRun, prunes' \in [FixRun -> Nat],
         removed' \subseteq Files!File, removed \subseteq removed', pass' \in [Pass -> PassRow],
         Rotation'
  PROVE  FilesInv'
<1>1. FileTypes'
  BY DEF FilesInv, FileTypes
<1>2. Traces'
  BY TracesStay DEF FilesInv
<1>3. Decisions'
  BY DecisionsStay DEF FilesInv
<1> QED
  BY <1>1, <1>2, <1>3 DEF FilesInv

\* A newer transcript that is not there was superseded itself, by ones that are newer
\* still.
LEMMA PassStartsKeeps ==
  ASSUME FilesInv, NEW p \in Pass, Files!PassStarts(p)
  PROVE  FilesInv'
<1> DEFINE new == [todo |-> Files!Candidates, marking |-> None]
<1>1. /\ \A q \in Pass : pass[q] = Files!Idle
      /\ pass' = [pass EXCEPT ![p] = new]
      /\ UNCHANGED <<days, fixPc, fixBook, dry, claimed, path, note, pruned, prunes, written, removed, before,
                     living, outlived, found, intents, verdicts, restarts, fixCrashes>>
  BY DEF Files!PassStarts, Files!runVars, Files!rowVars, Files!fileVars, Files!intentVars
<1>2. new \in PassRow /\ new.todo = Files!Candidates /\ new.marking = None
  BY DEF PassRow, Files!Candidates, Files!Kept
<1>3. \A r \in Files!Candidates : r \in FixRun /\ path[r] # None
  BY DEF Files!Candidates, Files!Kept
<1> HIDE DEF new
<1>4. pass' \in [Pass -> PassRow] /\ pass'[p] = new /\ \A q \in Pass : q # p => pass'[q] = pass[q]
  BY <1>1, <1>2 DEF FilesInv, FileTypes
<1>5. Passes'
  <2>1. /\ \A q \in Pass : q # p => pass'[q] = Files!Idle
        /\ Files!Idle.todo = {} /\ Files!Idle.marking = None
    BY <1>1, <1>4 DEF Files!Idle
  <2>2. \A q, o \in Pass : pass'[q] # Files!Idle /\ pass'[o] # Files!Idle => q = o
    BY <2>1
  <2>3. \A q \in Pass : /\ pass'[q].marking = None
                        /\ \A r \in pass'[q].todo : path'[r] # None
    BY <1>1, <1>2, <1>3, <1>4, <2>1
  <2> QED
    BY <2>2, <2>3 DEF Passes, Files!Idle
<1>6. Rotated'
  <2> SUFFICES ASSUME NEW r \in FixRun, Gone(r)' PROVE Superseded(r)
    BY <1>1 DEF Rotated, Superseded, Files!TooOld, NewerPresent, Files!Present, Files!Disk, Files!Newer
  <2>1. CASE Gone(r)
    BY <2>1 DEF FilesInv, Rotation, Rotated
  <2>2. CASE ~Gone(r)
    <3>1. r \in Files!Candidates
      BY <1>1, <1>2, <1>4, <2>2 DEF Gone, Files!Present, Files!Disk, Files!Idle
    <3>2. CASE Files!TooOld(r)
      BY <3>2 DEF Superseded
    <3>3. CASE Cardinality(Files!NewerKept(r)) >= KeepLastN /\ Files!NewerKept(r) \subseteq Files!Present
      <4>1. Files!NewerKept(r) \subseteq NewerPresent(r) /\ NewerPresent(r) \subseteq FixRun
        BY <3>3 DEF Files!NewerKept, NewerPresent, Files!Present
      <4> QED
        BY <3>3, <4>1, MoreAreEnough DEF Superseded
    <3>4. ASSUME NEW s \in Files!NewerKept(r), s \notin Files!Present
          PROVE  Superseded(r)
      <4>1. s \in FixRun /\ fixBook[s] = fixBook[r] /\ Files!Newer(s, r) /\ Gone(s)
        BY <3>4 DEF Files!NewerKept, Files!Kept, Gone
      <4>2. Superseded(s)
        BY <4>1 DEF FilesInv, Rotation, Rotated
      <4>3. CASE Files!TooOld(s)
        BY <4>1, <4>3, NewerIsAnOrder DEF FilesInv, Superseded
      <4>4. CASE Cardinality(NewerPresent(s)) >= KeepLastN
        <5>1. NewerPresent(s) \subseteq NewerPresent(r) /\ NewerPresent(r) \subseteq FixRun
          BY <4>1, NewerIsAnOrder DEF FilesInv, NewerPresent, Files!Present
        <5> QED
          BY <4>4, <5>1, MoreAreEnough DEF Superseded
      <4> QED
        BY <4>2, <4>3, <4>4 DEF Superseded
    <3>5. Files!TooOld(r) \/ Cardinality(Files!NewerKept(r)) >= KeepLastN
      BY <3>1, FilesCardinality DEF Files!Candidates
    <3> QED
      BY <3>2, <3>3, <3>4, <3>5
  <2> QED
    BY <2>1, <2>2
<1>7. Rotation'
  BY <1>1, <1>5, <1>6 DEF FilesInv, Rotation, Stored, Removals, Files!PrunesAreAudited
<1> QED
  BY <1>1, <1>4, <1>7, RotatorOnly DEF FilesInv, FileTypes

\* One transcript goes, which KeepLastN newer ones outlive: they outlive the ones it
\* had superseded itself as well.
LEMMA RemoveFileKeeps ==
  ASSUME FilesInv, NEW p \in Pass, NEW i \in FixRun, Files!Remove(p, i)
  PROVE  FilesInv'
<1>1. /\ pass[p].marking = None /\ i \in pass[p].todo
      /\ UNCHANGED <<days, fixPc, fixBook, dry, claimed, path, note, pruned, prunes, written, before,
                     living, outlived, found, intents, verdicts, restarts, fixCrashes>>
      /\ \E m \in {None, i} :
            /\ pass' = [pass EXCEPT ![p] = [todo |-> @.todo \ {i}, marking |-> m]]
            /\ \/ removed' = removed \cup {<<"transcript", path[i]>>}
               \/ removed' = removed /\ m = None
  <2>1. CASE removed' = removed \cup {<<"transcript", path[i]>>}
             /\ \E known \in BOOLEAN : pass' = [pass EXCEPT ![p] = [todo |-> @.todo \ {i},
                                                marking |-> IF known THEN i ELSE None]]
    BY <2>1 DEF Files!Remove, Files!runVars, Files!rowVars, Files!intentVars
  <2>2. CASE removed' = removed /\ pass' = [pass EXCEPT ![p].todo = @ \ {i}]
    <3>1. [pass EXCEPT ![p].todo = @ \ {i}] = [pass EXCEPT ![p] = [todo |-> @.todo \ {i}, marking |-> None]]
      <4>1. pass[p] \in PassRow /\ pass[p].marking = None
        BY DEF FilesInv, FileTypes, Files!Remove
      <4>2. [pass[p] EXCEPT !.todo = @ \ {i}] = [todo |-> pass[p].todo \ {i}, marking |-> None]
        BY <4>1 DEF PassRow
      <4> QED
        BY <4>2
    <3> QED
      BY <2>2, <3>1 DEF Files!Remove, Files!runVars, Files!rowVars, Files!intentVars
  <2> QED
    BY <2>1, <2>2 DEF Files!Remove
<1>2. PICK m \in {None, i} :
            /\ pass' = [pass EXCEPT ![p] = [todo |-> @.todo \ {i}, marking |-> m]]
            /\ \/ removed' = removed \cup {<<"transcript", path[i]>>}
               \/ removed' = removed /\ m = None
  BY <1>1
<1> DEFINE new == [todo |-> pass[p].todo \ {i}, marking |-> m]
<1>3. new \in PassRow /\ new.todo = pass[p].todo \ {i} /\ new.marking = m
  BY DEF FilesInv, FileTypes, PassRow
<1>4. pass' = [pass EXCEPT ![p] = new]
  BY <1>2
<1> HIDE DEF new
<1>5. pass' \in [Pass -> PassRow] /\ pass'[p] = new /\ \A q \in Pass : q # p => pass'[q] = pass[q]
  BY <1>3, <1>4 DEF FilesInv, FileTypes
<1>6. /\ path[i] \in FixRun /\ path[i] = found[i].transcript /\ fixPc[i] = "done" /\ Superseded(i)
      /\ \A q \in Pass : q # p => pass[q] = Files!Idle
  <2>1. path[i] # None /\ pass[p] # Files!Idle /\ Gone(i)
    <3>1. path[i] # None
      BY <1>1 DEF FilesInv, Rotation, Passes
    <3>2. pass[p] # Files!Idle /\ Gone(i)
      BY <1>1 DEF Files!Idle, Gone
    <3> QED
      BY <3>1, <3>2
  <2> QED
    BY <2>1 DEF FilesInv, FileTypes, Rotation, Stored, Rotated, Passes
<1>7. removed \subseteq removed' /\ removed' \subseteq Files!File
      /\ (m # None => <<"transcript", path[i]>> \in removed')
      /\ \A f \in removed' : f \in removed \/ f = <<"transcript", path[i]>>
  BY <1>2, <1>6 DEF FilesInv, FileTypes, Files!File, Files!Kind
<1>8. Files!Present' \subseteq Files!Present /\ \A r \in Files!Present : r # i => r \in Files!Present'
  <2>1. ASSUME NEW r \in Files!Present, r # i
        PROVE  r \in Files!Present'
    <3>1. path[r] = found[r].transcript /\ found[r].transcript # None
      BY <2>1 DEF FilesInv, Rotation, Stored, Files!Present
    <3>2. path[r] # path[i]
      BY <1>6, <2>1, <3>1 DEF FilesInv, Traces, Apart, Files!Present
    <3> QED
      BY <1>1, <1>7, <3>2 DEF Files!Present, Files!Disk
  <2> QED
    BY <1>1, <1>7, <2>1 DEF Files!Present, Files!Disk
<1>9. Removals'
  BY <1>1, <1>6, <1>7 DEF FilesInv, Rotation, Removals
<1>10. Passes'
  <2>1. \A q, o \in Pass : pass'[q] # Files!Idle /\ pass'[o] # Files!Idle => q = o
    BY <1>5, <1>6
  <2>2. ASSUME NEW q \in Pass
        PROVE  /\ \A r \in pass'[q].todo : path[r] # None
               /\ pass'[q].marking # None =>
                    /\ path[pass'[q].marking] # None /\ pass'[q].marking \notin pass'[q].todo
                    /\ <<"transcript", path[pass'[q].marking]>> \in removed'
    <3>1. CASE q = p
      <4>1. \A r \in pass[p].todo : path[r] # None
        BY DEF FilesInv, Rotation, Passes
      <4>2. None \notin FixRun
        BY FilesConstants
      <4> QED
        BY <1>3, <1>5, <1>6, <1>7, <3>1, <4>1, <4>2
    <3>2. CASE q # p
      BY <1>5, <1>6, <3>2 DEF Files!Idle
    <3> QED
      BY <3>1, <3>2
  <2>3. Files!Idle' = Files!Idle
    BY DEF Files!Idle
  <2> QED
    BY <1>1, <2>1, <2>2 DEF Passes, Files!Idle
<1>11. Rotated'
  <2> SUFFICES ASSUME NEW r \in FixRun, Gone(r)' PROVE Superseded(r)'
    BY DEF Rotated
  <2>1. Gone(r)
    <3>1. CASE r = i
      BY <1>1, <3>1 DEF Gone
    <3>2. CASE r # i
      BY <1>1, <1>3, <1>5, <1>8, <3>2 DEF Gone
    <3> QED
      BY <3>1, <3>2
  <2>2. Superseded(r)
    BY <2>1 DEF FilesInv, Rotation, Rotated
  <2>3. Files!TooOld(r)' <=> Files!TooOld(r)
    BY <1>1 DEF Files!TooOld
  <2>4. CASE Files!TooOld(r)
    BY <2>3, <2>4 DEF Superseded
  <2>5. CASE Cardinality(NewerPresent(r)) >= KeepLastN /\ i \notin NewerPresent(r)
    <3>1. NewerPresent(r) \subseteq NewerPresent(r)' /\ NewerPresent(r)' \subseteq FixRun
      BY <1>1, <1>8, <2>5 DEF NewerPresent, Files!Newer, Files!Present
    <3> QED
      BY <2>5, <3>1, MoreAreEnough DEF Superseded
  <2>6. CASE i \in NewerPresent(r)
    <3>1. fixBook[i] = fixBook[r] /\ Files!Newer(i, r)
      BY <2>6 DEF NewerPresent
    <3>2. CASE Files!TooOld(i)
      BY <2>3, <3>1, <3>2, NewerIsAnOrder DEF FilesInv, Superseded
    <3>3. CASE Cardinality(NewerPresent(i)) >= KeepLastN
      <4>1. \A s \in FixRun : Files!Newer(s, i) => Files!Newer(s, r) /\ s # i
        BY <3>1, NewerIsAnOrder DEF FilesInv
      <4>2. NewerPresent(i) \subseteq NewerPresent(r)' /\ NewerPresent(r)' \subseteq FixRun
        BY <1>1, <1>8, <3>1, <4>1 DEF NewerPresent, Files!Newer, Files!Present
      <4> QED
        BY <3>3, <4>2, MoreAreEnough DEF Superseded
    <3> QED
      BY <1>6, <3>2, <3>3 DEF Superseded
  <2> QED
    BY <2>2, <2>4, <2>5, <2>6 DEF Superseded
<1>12. Rotation'
  BY <1>1, <1>9, <1>10, <1>11 DEF FilesInv, Rotation, Stored, Files!PrunesAreAudited
<1> QED
  BY <1>1, <1>5, <1>7, <1>12, RotatorOnly DEF FilesInv, FileTypes

\* A pass that has nothing more to do: what it leaves is as superseded as before.
LEMMA PassesEnd ==
  ASSUME FilesInv, NEW done \in SUBSET Pass,
         pass' = [q \in Pass |-> IF q \in done THEN Files!Idle ELSE pass[q]],
         UNCHANGED <<days, fixBook, claimed, path, note, pruned, prunes, written, removed, found>>,
         \A r \in FixRun : fixPc[r] = "done" => fixPc'[r] = "done"
  PROVE  Rotation' /\ pass' \in [Pass -> PassRow]
<1>1. Files!Idle \in PassRow /\ Files!Idle.todo = {} /\ Files!Idle.marking = None
  BY DEF PassRow, Files!Idle
<1>2. \A q \in Pass : IF q \in done THEN pass'[q] = Files!Idle ELSE pass'[q] = pass[q]
  OBVIOUS
<1>3. pass' \in [Pass -> PassRow]
  BY <1>1 DEF FilesInv, FileTypes
<1>4. Passes'
  <2>1. \A q, o \in Pass : pass'[q] # Files!Idle /\ pass'[o] # Files!Idle => q = o
    BY <1>2 DEF FilesInv, Rotation, Passes
  <2>2. ASSUME NEW q \in Pass
        PROVE  /\ \A r \in pass'[q].todo : path[r] # None
               /\ pass'[q].marking # None =>
                    /\ path[pass'[q].marking] # None /\ pass'[q].marking \notin pass'[q].todo
                    /\ <<"transcript", path[pass'[q].marking]>> \in removed
    <3>1. CASE q \in done
      BY <1>1, <1>2, <3>1
    <3>2. CASE q \notin done
      BY <1>2, <3>2 DEF FilesInv, Rotation, Passes
    <3> QED
      BY <3>1, <3>2
  <2> QED
    BY <2>1, <2>2 DEF Passes, Files!Idle
<1>5. Rotated'
  <2>1. \A r \in FixRun : Gone(r)' => Gone(r)
    BY <1>1, <1>2 DEF Gone, Files!Present, Files!Disk
  <2>2. \A r \in FixRun : Superseded(r) => Superseded(r)'
    BY DEF Superseded, Files!TooOld, NewerPresent, Files!Newer, Files!Present, Files!Disk
  <2> QED
    BY <2>1, <2>2 DEF FilesInv, Rotation, Rotated
<1>6. Stored' /\ Removals' /\ Files!PrunesAreAudited'
  BY DEF FilesInv, Rotation, Stored, Removals, Files!PrunesAreAudited
<1> QED
  BY <1>3, <1>4, <1>5, <1>6 DEF Rotation

LEMMA MarkFailsKeeps ==
  ASSUME FilesInv, NEW p \in Pass, Files!MarkFails(p)
  PROVE  FilesInv'
<1>1. pass' = [q \in Pass |-> IF q \in {p} THEN Files!Idle ELSE pass[q]]
  BY DEF FilesInv, FileTypes, Files!MarkFails
<1>2. UNCHANGED <<days, fixPc, fixBook, dry, claimed, path, note, pruned, prunes, written, removed, before,
                  living, outlived, found, intents, verdicts, restarts, fixCrashes>>
  BY DEF Files!MarkFails, Files!runVars, Files!rowVars, Files!fileVars, Files!intentVars
<1>3. Rotation' /\ pass' \in [Pass -> PassRow]
  BY <1>1, <1>2, PassesEnd
<1> QED
  BY <1>2, <1>3, RotatorOnly DEF FilesInv, FileTypes

LEMMA CrashFileKeeps ==
  ASSUME FilesInv, Files!Crash
  PROVE  FilesInv'
<1>1. /\ fixPc' = [r \in FixRun |-> IF fixPc[r] \in {"new", "done"} THEN fixPc[r] ELSE "lost"]
      /\ outlived' = outlived \cup living
      /\ pass' = [q \in Pass |-> IF q \in Pass THEN Files!Idle ELSE pass[q]]
      /\ fixCrashes' = fixCrashes + 1
      /\ UNCHANGED <<days, fixBook, dry, claimed, path, note, pruned, prunes, written, removed, before,
                     living, found, intents, verdicts, restarts>>
  BY DEF Files!Crash, Files!runVars, Files!rowVars, Files!intentVars
<1>2. \A r \in FixRun : fixPc'[r] = IF fixPc[r] \in {"new", "done"} THEN fixPc[r] ELSE "lost"
  BY <1>1
<1>3. Rotation' /\ pass' \in [Pass -> PassRow]
  <2>1. \A r \in FixRun : fixPc[r] = "done" => fixPc'[r] = "done"
    BY <1>2
  <2> QED
    BY <1>1, <2>1, PassesEnd
<1>4. FileTypes'
  BY <1>1, <1>3 DEF FilesInv, FileTypes, FixPCs
<1>5. Traces'
  <2>1. \A r \in FixRun : fixPc'[r] # "exec"
    BY <1>2
  <2> QED
    BY <1>1, <2>1 DEF FilesInv, Traces, Writers, Listing, Findings, Apart
<1>6. Decisions'
  <2>1. \A r \in FixRun : fixPc'[r] \in {fixPc[r], "lost"}
    BY <1>2
  <2> QED
    BY <1>1, <2>1, DecisionsStay DEF FilesInv
<1> QED
  BY <1>3, <1>4, <1>5, <1>6 DEF FilesInv

\* The row that is marked had lost its file.
LEMMA MarkFileKeeps ==
  ASSUME FilesInv, NEW p \in Pass, Files!Mark(p)
  PROVE  FilesInv'
<1> DEFINE m == pass[p].marking
           new == [todo |-> pass[p].todo, marking |-> None]
<1>1. /\ m \in FixRun /\ m \notin pass[p].todo /\ path[m] # None
      /\ <<"transcript", path[m]>> \in removed
  BY DEF Files!Mark, FilesInv, FileTypes, PassRow, Rotation, Passes
<1>2. /\ path' = [path EXCEPT ![m] = None] /\ pruned' = pruned \cup {m}
      /\ prunes' = [prunes EXCEPT ![m] = @ + 1]
      /\ UNCHANGED <<days, fixPc, fixBook, dry, claimed, note, written, removed, before,
                     living, outlived, found, intents, verdicts, restarts, fixCrashes>>
  BY DEF Files!Mark, Files!runVars, Files!fileVars, Files!intentVars
<1>3. new \in PassRow /\ new.todo = pass[p].todo /\ new.marking = None
  BY DEF FilesInv, FileTypes, PassRow
<1>4. pass' = [pass EXCEPT ![p] = new]
  <2>1. [pass[p] EXCEPT !.marking = None] = new
    BY DEF FilesInv, FileTypes, PassRow
  <2> QED
    BY <2>1 DEF Files!Mark
<1> HIDE DEF new
<1>5. pass' \in [Pass -> PassRow] /\ pass'[p] = new /\ \A q \in Pass : q # p => pass'[q] = pass[q]
  BY <1>3, <1>4 DEF FilesInv, FileTypes
<1>6. /\ pass[p] # Files!Idle /\ \A q \in Pass : q # p => pass[q] = Files!Idle
      /\ Files!Idle.todo = {} /\ Files!Idle.marking = None
  BY SMTT(30) DEF Files!Mark, FilesInv, Rotation, Passes, Files!Idle
<1>7. fixPc[m] = "done" /\ m \notin pruned /\ m \notin Files!Present /\ Gone(m)
  BY <1>1 DEF FilesInv, Rotation, Stored, Files!Present, Files!Disk, Gone
<1> HIDE DEF m
<1>8. path'[m] = None /\ \A r \in FixRun : r # m => path'[r] = path[r]
  BY <1>1, <1>2 DEF FilesInv, FileTypes
<1>9. path' \in [FixRun -> FixRun \cup {None}] /\ pruned' \subseteq FixRun /\ prunes' \in [FixRun -> Nat]
  BY <1>1, <1>2 DEF FilesInv, FileTypes
<1>10. Stored' /\ Removals'
  BY <1>2, <1>7, <1>8 DEF FilesInv, Rotation, Stored, Removals
<1>11. Files!PrunesAreAudited'
  BY <1>1, <1>2, <1>7 DEF FilesInv, FileTypes, Rotation, Files!PrunesAreAudited
<1>12. Passes'
  <2>1. \A q, o \in Pass : pass'[q] # Files!Idle /\ pass'[o] # Files!Idle => q = o
    BY <1>5, <1>6
  <2>2. ASSUME NEW q \in Pass
        PROVE  pass'[q].marking = None /\ \A r \in pass'[q].todo : path'[r] # None
    <3>1. \A r \in pass[p].todo : r \in FixRun /\ r # m /\ path[r] # None
      BY <1>1 DEF FilesInv, FileTypes, PassRow, Rotation, Passes
    <3>2. CASE q = p
      BY <1>3, <1>5, <1>8, <3>1, <3>2
    <3>3. CASE q # p
      BY <1>5, <1>6, <3>3
    <3> QED
      BY <3>2, <3>3
  <2> QED
    BY <2>1, <2>2 DEF Passes, Files!Idle
<1>13. Rotated'
  <2> SUFFICES ASSUME NEW r \in FixRun, Gone(r)' PROVE Superseded(r)'
    BY DEF Rotated
  <2>1. Files!Present' = Files!Present
    BY <1>2, <1>7, <1>8 DEF Files!Present, Files!Disk
  <2>2. Gone(r)
    <3>1. CASE r = m
      BY <1>7, <3>1
    <3>2. CASE r # m
      <4>1. \A q \in Pass : pass'[q].todo = pass[q].todo
        BY <1>3, <1>5
      <4> QED
        BY <1>2, <1>8, <2>1, <3>2, <4>1 DEF Gone
    <3> QED
      BY <3>1, <3>2
  <2>3. Superseded(r)
    BY <2>2 DEF FilesInv, Rotation, Rotated
  <2> QED
    BY <1>2, <2>1, <2>3 DEF Superseded, Files!TooOld, NewerPresent, Files!Newer
<1>14. Rotation'
  BY <1>10, <1>11, <1>12, <1>13 DEF Rotation
<1> QED
  BY <1>2, <1>5, <1>9, <1>14, RotatorOnly DEF FilesInv, FileTypes

----------------------------------------------------------------------------
(* The files of fixes.                                                     *)

LEMMA FilesInit == Files!Init => FilesInv
<1> SUFFICES ASSUME Files!Init PROVE FilesInv
  OBVIOUS
<1>1. FileTypes
  <2>1. Files!Nothing \in FoundRow /\ Files!Idle \in PassRow /\ <<>> \in Seq(Files!Verdict)
    BY DEF FoundRow, PassRow, Files!Nothing, Files!Idle
  <2> QED
    BY <2>1 DEF Files!Init, FileTypes, FixPCs
<1>2. \A r \in FixRun : /\ fixPc[r] = "new" /\ path[r] = None /\ note[r] = None /\ verdicts[r] = <<>>
                        /\ restarts[r] = 0 /\ prunes[r] = 0
                        /\ found[r].transcript = None /\ found[r].feedback = None
  BY DEF Files!Init, Files!Nothing
<1>3. written = {} /\ removed = {} /\ living = {} /\ pruned = {}
      /\ \A p \in Pass : pass[p] = Files!Idle /\ pass[p].todo = {} /\ pass[p].marking = None
  BY DEF Files!Init, Files!Idle
<1>4. Traces
  BY <1>2, <1>3 DEF Traces, Writers, Listing, Findings, Apart
<1>5. Rotation
  BY <1>2, <1>3 DEF Rotation, Stored, Removals, Passes, Rotated, Gone, Files!PrunesAreAudited
<1>6. Decisions
  BY <1>2 DEF Decisions
<1> QED
  BY <1>1, <1>4, <1>5, <1>6 DEF FilesInv

LEMMA FilesNext == FilesInv /\ [Files!Next]_Files!vars => FilesInv'
<1> SUFFICES ASSUME FilesInv, [Files!Next]_Files!vars PROVE FilesInv'
  OBVIOUS
<1>1. CASE UNCHANGED Files!vars
  <2>1. FileTypes'
    BY <1>1 DEF FilesInv, FileTypes, Files!vars
  <2>2. Traces'
    BY <1>1, TracesStay DEF FilesInv, Files!vars
  <2>3. Rotation'
    BY <1>1, RotationStays DEF FilesInv, FileTypes, Files!vars
  <2>4. Decisions'
    BY <1>1, DecisionsStay DEF FilesInv, Files!vars
  <2> QED
    BY <2>1, <2>2, <2>3, <2>4 DEF FilesInv
<1>2. ASSUME NEW r \in FixRun, NEW b \in FixBook, NEW plan \in BOOLEAN, Files!Claim(r, b, plan)
      PROVE  FilesInv'
  BY <1>2, ClaimFileKeeps
<1>3. ASSUME NEW r \in FixRun, Files!PrepareFails(r) \/ Files!ProcessEnds(r) \/ Files!NoIntents(r)
      PROVE  FilesInv'
  BY <1>3, QuietKeeps
<1>4. ASSUME NEW r \in FixRun, Files!Exec(r)
      PROVE  FilesInv'
  BY <1>4, ExecFileKeeps
<1>5. ASSUME NEW r \in FixRun, NEW k \in Files!Kind, Files!Write(r, k)
      PROVE  FilesInv'
  BY <1>5, WriteFileKeeps
<1>6. ASSUME NEW r \in FixRun, Files!Leave(r)
      PROVE  FilesInv'
  BY <1>6, LeaveFileKeeps
<1>7. ASSUME NEW r \in FixRun, Files!DecideIntent(r) \/ Files!GatewayFails(r)
      PROVE  FilesInv'
  BY <1>7, DecideFileKeeps
<1>8. ASSUME NEW r \in FixRun, Files!Persist(r)
      PROVE  FilesInv'
  BY <1>8, PersistFileKeeps
<1>9. ASSUME NEW p \in Pass, Files!PassStarts(p)
      PROVE  FilesInv'
  BY <1>9, PassStartsKeeps
<1>10. ASSUME NEW p \in Pass, NEW r \in FixRun, Files!Remove(p, r)
       PROVE  FilesInv'
  BY <1>10, RemoveFileKeeps
<1>11. ASSUME NEW p \in Pass, Files!Mark(p)
       PROVE  FilesInv'
  BY <1>11, MarkFileKeeps
<1>12. ASSUME NEW p \in Pass, Files!MarkFails(p)
       PROVE  FilesInv'
  BY <1>12, MarkFailsKeeps
<1>13. CASE Files!Crash
  BY <1>13, CrashFileKeeps
<1>14. CASE Files!Tick
  <2>1. FileTypes'
    BY <1>14 DEF FilesInv, FileTypes, Files!Tick, Files!runVars, Files!rowVars, Files!fileVars,
       Files!intentVars
  <2>2. Traces'
    BY <1>14, TracesStay DEF FilesInv, Files!Tick, Files!fileVars
  <2>3. Rotation'
    BY <1>14, <2>1, RotationStays DEF FilesInv, FileTypes, Files!Tick, Files!runVars, Files!rowVars,
       Files!fileVars
  <2>4. Decisions'
    BY <1>14, DecisionsStay DEF FilesInv, Files!Tick, Files!runVars, Files!intentVars
  <2> QED
    BY <2>1, <2>2, <2>3, <2>4 DEF FilesInv
<1> QED
  BY <1>1, <1>2, <1>3, <1>4, <1>5, <1>6, <1>7, <1>8, <1>9, <1>10, <1>11, <1>12, <1>13, <1>14
     DEF Files!Next

\* The invariant says what the properties do.
LEMMA FilesSound ==
  ASSUME FilesInv
  PROVE  Files!FilesAreAttributed /\ Files!NewestAreKept /\ Files!PrunesAreAudited /\ Files!IntentsAreDecided
<1>1. Files!FilesAreAttributed
  BY ZenonT(30) DEF FilesInv, Traces, Rotation, Stored, Findings, Apart, Files!FilesAreAttributed
<1>2. Files!NewestAreKept
  BY FilesCardinality DEF FilesInv, Rotation, Rotated, Gone, Superseded, NewerPresent, Files!NewestAreKept
<1>3. Files!PrunesAreAudited
  BY DEF FilesInv, Rotation
<1>4. \A f \in Files!IntentFile :
        Len(f) = 2 /\ Allowed(f, 2) = Files!Cardinality({n \in DOMAIN f : f[n] = "granted"})
  <2> SUFFICES ASSUME NEW f \in Files!IntentFile
               PROVE  Len(f) = 2 /\ Allowed(f, 2) = Files!Cardinality({n \in DOMAIN f : f[n] = "granted"})
    OBVIOUS
  <2>1. Cardinality({2}) = 1 /\ Cardinality({1, 2}) = 2
    <3>1. IsFiniteSet({2}) /\ Cardinality({2}) = 1
      BY FS_Singleton
    <3>2. 1 \notin {2} /\ {2} \cup {1} = {1, 2}
      OBVIOUS
    <3> QED
      BY <3>1, <3>2, FS_AddElement
  <2>2. CASE f = <<"granted", "granted">>
    <3>1. {n \in DOMAIN f : f[n] = "granted"} = {1, 2}
      BY <2>2
    <3> QED
      BY <2>1, <2>2, <3>1, FilesCardinality DEF Allowed
  <2>3. CASE f = <<"foreign", "granted">>
    <3>1. {n \in DOMAIN f : f[n] = "granted"} = {2}
      BY <2>3
    <3> QED
      BY <2>1, <2>3, <3>1, FilesCardinality DEF Allowed
  <2> QED
    BY <2>2, <2>3 DEF Files!IntentFile
<1>5. Files!IntentsAreDecided
  <2> SUFFICES ASSUME NEW r \in FixRun, verdicts[r] # <<>>
               PROVE  /\ fixPc[r] \in {"persist", "done"} =>
                           Len(verdicts[r]) = Len(intents[r]) \/ verdicts[r][Len(verdicts[r])] = "failed"
                      /\ restarts[r] <= Files!Cardinality({n \in DOMAIN intents[r] : intents[r][n] = "granted"})
                      /\ dry[r] => restarts[r] = 0
                      /\ \A m, n \in DOMAIN verdicts[r] : m < n /\ verdicts[r][m] = "unreachable"
                                                        => verdicts[r][n] \in {"skipped", "failed"}
    BY DEF Files!IntentsAreDecided
  <2>1. /\ intents[r] \in Files!IntentFile /\ Len(verdicts[r]) <= 2
        /\ fixPc[r] \in {"persist", "done"} => Len(verdicts[r]) = 2 \/ verdicts[r][Len(verdicts[r])] = "failed"
        /\ restarts[r] <= Allowed(intents[r], Len(verdicts[r]))
        /\ dry[r] => restarts[r] = 0
        /\ \A m, n \in DOMAIN verdicts[r] : m < n /\ verdicts[r][m] = "unreachable"
                                          => verdicts[r][n] \in {"skipped", "failed"}
    BY DEF FilesInv, Decisions
  <2>2. Allowed(intents[r], Len(verdicts[r])) <= Allowed(intents[r], 2)
    BY <2>1 DEF FilesInv, FileTypes, Allowed
  <2>3. Allowed(intents[r], 2) \in Nat /\ Allowed(intents[r], Len(verdicts[r])) \in Nat /\ restarts[r] \in Nat
    BY DEF FilesInv, FileTypes, Allowed
  <2>4. restarts[r] <= Allowed(intents[r], 2)
    BY <2>1, <2>2, <2>3
  <2> QED
    BY <1>4, <2>1, <2>4 DEF FilesInv, Decisions
<1> QED
  BY <1>1, <1>2, <1>3, <1>5

LEMMA FilesStep == FilesInv /\ [MCNext]_allVars => FilesInv'
<1> SUFFICES ASSUME FilesInv, [MCNext]_allVars PROVE [Files!Next]_Files!vars
  BY FilesNext
<1> QED
  BY DEF MCNext, allVars, filesVars, Files!vars

\* With or without the other parts, what is stored with a fix is its own, the rotator
\* keeps the newest transcripts and audits the others, and intents are decided one by
\* one (_resolve_transcript, _rotate_locked, _execute_intents).
THEOREM FilesAreSound == MCSpec => []RunFilesAreSound
<1>1. MCInit => FilesInv
  BY FilesInit DEF MCInit
<1>2. FilesInv => RunFilesAreSound
  BY FilesSound DEF RunFilesAreSound
<1> QED
  BY <1>1, <1>2, FilesStep, PTL DEF MCSpec

----------------------------------------------------------------------------
(* The clients of an API (ApiSessions).  Ids only grow, so as long as       *)
(* nothing was lost since a call began, an id that is another one than the  *)
(* one that was refused is younger than the call, and valid.                *)

CallPCs == {"idle", "ensure", "login", "send", "sent", "ended"}

CallFields == {"stream", "retry", "failed", "sent", "since", "result"}

SessionTypes ==
    /\ sid \in Nat /\ issued \in Nat /\ losses \in Nat
    /\ spc \in [Caller -> CallPCs]
    /\ call = [c \in Caller |-> call[c]] /\ \A c \in Caller : DOMAIN call[c] = CallFields
    /\ \A c \in Caller : call[c].since \in Nat /\ call[c].since <= losses

\* What holds of a call that was refused once, if no session was lost since it began.
Renewed ==
    \A c \in Caller : Sessions!HasSession /\ call[c].retry /\ losses = call[c].since =>
        /\ spc[c] = "ensure" => sid = call[c].failed \/ sid \in valid
        /\ spc[c] = "send" => sid \in valid
        /\ spc[c] = "sent" => call[c].sent \in valid

SessionInv == SessionTypes /\ Renewed

LEMMA SessionInit == Sessions!Init => SessionInv
  BY DEF Sessions!Init, Sessions!NoSid, Sessions!Idle, SessionInv, SessionTypes, Renewed, CallPCs,
     CallFields

\* The call that ends has no second attempt any more.
LEMMA EndsKeeps ==
  ASSUME SessionInv, NEW c \in Caller, NEW r, Sessions!Ends(c, r), UNCHANGED <<client, sid, issued, valid, losses>>
  PROVE  SessionInv'
<1> DEFINE x == [Sessions!Idle EXCEPT !.since = call[c].since, !.result = r]
<1>1. /\ DOMAIN x = CallFields
      /\ x.retry = FALSE /\ x.since = call[c].since
  BY DEF Sessions!Idle, CallFields
<1>2. call' = [call EXCEPT ![c] = x] /\ spc' = [spc EXCEPT ![c] = "ended"]
  BY DEF Sessions!Ends
<1> HIDE DEF x
<1>3. /\ call'[c] = x /\ spc'[c] = "ended"
      /\ \A d \in Caller : d # c => call'[d] = call[d] /\ spc'[d] = spc[d]
  BY <1>2 DEF SessionInv, SessionTypes
<1>4. SessionTypes'
  BY <1>1, <1>2, <1>3 DEF SessionInv, SessionTypes, CallPCs
<1>5. Renewed'
  BY <1>1, <1>3 DEF SessionInv, Renewed, Sessions!HasSession
<1> QED
  BY <1>4, <1>5 DEF SessionInv

\* A step of one call, and perhaps of the session id, that keeps what it must.
LEMMA CallKeeps ==
  ASSUME SessionInv, NEW c \in Caller, NEW l \in CallPCs, NEW x, NEW k \in Nat,
         DOMAIN x = CallFields,
         x.since \in Nat, x.since <= losses,
         call' = [call EXCEPT ![c] = x], spc' = [spc EXCEPT ![c] = l],
         sid' = k, issued' \in Nat, UNCHANGED <<client, losses>>, valid \subseteq valid',
         sid' = sid \/ sid' \in valid',
         Sessions!HasSession /\ x.retry /\ losses = x.since =>
            /\ l = "ensure" => sid' = x.failed \/ sid' \in valid'
            /\ l = "send" => sid' \in valid'
            /\ l = "sent" => x.sent \in valid'
  PROVE  SessionInv'
<1>1. /\ call'[c] = x /\ spc'[c] = l
      /\ \A d \in Caller : d # c => call'[d] = call[d] /\ spc'[d] = spc[d]
  BY DEF SessionInv, SessionTypes
<1>2. SessionTypes'
  BY <1>1 DEF SessionInv, SessionTypes, CallPCs
<1>3. Renewed'
  <2> SUFFICES ASSUME NEW d \in Caller, Sessions!HasSession, call'[d].retry, losses = call'[d].since
               PROVE  /\ spc'[d] = "ensure" => sid' = call'[d].failed \/ sid' \in valid'
                      /\ spc'[d] = "send" => sid' \in valid'
                      /\ spc'[d] = "sent" => call'[d].sent \in valid'
    BY DEF Renewed, Sessions!HasSession
  <2>1. CASE d = c
    BY <1>1, <2>1
  <2>2. CASE d # c
    BY <1>1, <2>2 DEF SessionInv, Renewed
  <2> QED
    BY <2>1, <2>2
<1> QED
  BY <1>2, <1>3 DEF SessionInv

LEMMA SessionNext == SessionInv /\ [Sessions!Next]_Sessions!vars => SessionInv'
<1> SUFFICES ASSUME SessionInv, [Sessions!Next]_Sessions!vars PROVE SessionInv'
  OBVIOUS
<1>1. CASE UNCHANGED Sessions!vars
  BY <1>1 DEF Sessions!vars, SessionInv, SessionTypes, Renewed, Sessions!HasSession
<1>2. ASSUME NEW c \in Caller, NEW stream \in BOOLEAN, Sessions!Request(c, stream)
      PROVE  SessionInv'
  <2> DEFINE x == [Sessions!Idle EXCEPT !.stream = stream, !.since = losses]
             l == IF Sessions!HasSession /\ sid = Sessions!NoSid THEN "ensure" ELSE "send"
  <2>1. /\ DOMAIN x = CallFields
        /\ x.retry = FALSE /\ x.since = losses
    BY DEF Sessions!Idle, CallFields
  <2>2. call' = [call EXCEPT ![c] = x] /\ spc' = [spc EXCEPT ![c] = l] /\ l \in CallPCs
    BY <1>2 DEF Sessions!Request, CallPCs
  <2>3. UNCHANGED <<client, sid, issued, valid, losses>>
    BY <1>2 DEF Sessions!Request
  <2>4. sid \in Nat /\ issued \in Nat /\ losses \in Nat /\ losses <= losses
    BY DEF SessionInv, SessionTypes
  <2> HIDE DEF x, l
  <2> QED
    BY <2>1, <2>2, <2>3, <2>4, CallKeeps
<1>3. ASSUME NEW c \in Caller, Sessions!EnsureSession(c)
      PROVE  SessionInv'
  <2>1. PICK l \in {"send", "login"} :
            /\ spc' = [spc EXCEPT ![c] = l]
            /\ l = "send" => sid # call[c].failed
    BY <1>3 DEF Sessions!EnsureSession
  <2>2. UNCHANGED <<client, sid, issued, valid, losses, call>> /\ spc[c] = "ensure" /\ l \in CallPCs
    BY <1>3, <2>1 DEF Sessions!EnsureSession, CallPCs
  <2>3. call' = [call EXCEPT ![c] = call[c]]
    BY <2>2 DEF SessionInv, SessionTypes
  <2>4. /\ DOMAIN call[c] = CallFields
        /\ call[c].since \in Nat /\ call[c].since <= losses
        /\ sid \in Nat /\ issued \in Nat
    BY DEF SessionInv, SessionTypes
  <2>5. Sessions!HasSession /\ call[c].retry /\ losses = call[c].since => (l = "send" => sid \in valid)
    BY <2>1, <2>2 DEF SessionInv, Renewed
  <2> QED
    BY <2>1, <2>2, <2>3, <2>4, <2>5, CallKeeps
<1>4. ASSUME NEW c \in Caller, Sessions!Login(c)
      PROVE  SessionInv'
  <2>1. CASE \E r \in Sessions!LoginErrors : Sessions!Ends(c, r) /\ UNCHANGED <<sid, issued, valid>>
    BY <1>4, <2>1, EndsKeeps DEF Sessions!Login
  <2>2. CASE /\ issued' = issued + 1 /\ sid' = issued' /\ valid' = valid \cup {issued'}
             /\ spc' = [spc EXCEPT ![c] = "send"] /\ UNCHANGED call
    <3>1. call' = [call EXCEPT ![c] = call[c]] /\ "send" \in CallPCs
      BY <2>2 DEF SessionInv, SessionTypes, CallPCs
    <3>2. /\ DOMAIN call[c] = CallFields
          /\ call[c].since \in Nat /\ call[c].since <= losses
          /\ issued + 1 \in Nat
      BY DEF SessionInv, SessionTypes
    <3>3. UNCHANGED <<client, losses>> /\ sid' = issued + 1 /\ sid' \in valid'
      BY <1>4, <2>2 DEF Sessions!Login
    <3> QED
      BY <2>2, <3>1, <3>2, <3>3, CallKeeps
  <2> QED
    BY <1>4, <2>1, <2>2 DEF Sessions!Login
<1>5. ASSUME NEW c \in Caller, Sessions!DoRequest(c)
      PROVE  SessionInv'
  <2> DEFINE x == [call[c] EXCEPT !.sent = sid]
  <2>1. /\ DOMAIN call[c] = CallFields
        /\ call[c].since \in Nat /\ call[c].since <= losses
        /\ sid \in Nat /\ issued \in Nat
    BY DEF SessionInv, SessionTypes
  <2>2. /\ DOMAIN x = CallFields
        /\ x.retry = call[c].retry /\ x.since = call[c].since /\ x.sent = sid
    BY <2>1 DEF CallFields
  <2>3. /\ call' = [call EXCEPT ![c] = x] /\ spc' = [spc EXCEPT ![c] = "sent"] /\ spc[c] = "send"
        /\ "sent" \in CallPCs /\ UNCHANGED <<client, sid, issued, valid, losses>>
    BY <1>5 DEF Sessions!DoRequest, CallPCs
  <2>4. Sessions!HasSession /\ call[c].retry /\ losses = call[c].since => sid \in valid
    BY <2>3 DEF SessionInv, Renewed
  <2> HIDE DEF x
  <2> QED
    BY <2>1, <2>2, <2>3, <2>4, CallKeeps
<1>6. ASSUME NEW c \in Caller, Sessions!Respond(c)
      PROVE  SessionInv'
  <2>1. UNCHANGED <<client, sid, issued, valid, losses>>
    BY <1>6 DEF Sessions!Respond
  <2>2. CASE \E r : Sessions!Ends(c, r)
    BY <2>1, <2>2, EndsKeeps
  <2>3. CASE /\ spc' = [spc EXCEPT ![c] = "ensure"]
             /\ call' = [call EXCEPT ![c].retry = TRUE, ![c].failed = sid]
    <3> DEFINE x == [call[c] EXCEPT !.retry = TRUE, !.failed = sid]
    <3>1. /\ DOMAIN call[c] = CallFields
          /\ call[c].since \in Nat /\ call[c].since <= losses
          /\ sid \in Nat /\ issued \in Nat
      BY DEF SessionInv, SessionTypes
    <3>2. /\ DOMAIN x = CallFields
          /\ x.since = call[c].since /\ x.failed = sid
      BY <3>1 DEF CallFields
    <3>3. call' = [call EXCEPT ![c] = x] /\ "ensure" \in CallPCs
      BY <2>3 DEF SessionInv, SessionTypes, CallPCs
    <3> HIDE DEF x
    <3> QED
      BY <2>1, <2>3, <3>1, <3>2, <3>3, CallKeeps
  <2> QED
    BY <1>6, <2>2, <2>3 DEF Sessions!Respond
<1>7. CASE (\E s \in valid : Sessions!Expire(s)) \/ Sessions!CloseEnds
  <2>1. /\ losses' = losses + 1 /\ UNCHANGED <<spc, call, issued>> /\ sid' \in {sid, 0}
    BY <1>7 DEF Sessions!Expire, Sessions!CloseEnds, Sessions!NoSid
  <2> QED
    BY <2>1 DEF SessionInv, SessionTypes, Renewed
<1>8. CASE Sessions!CloseStarts
  BY <1>8 DEF Sessions!CloseStarts, SessionInv, SessionTypes, Renewed, Sessions!HasSession
<1> QED
  BY <1>1, <1>2, <1>3, <1>4, <1>5, <1>6, <1>7, <1>8 DEF Sessions!Next

\* A call is told "unauthorized after re-auth" only if a session was lost while it ran,
\* however many callers log in meanwhile (_request, _get).
THEOREM LossesAreHidden == MCSpec => []OneLossIsHidden
<1>1. MCInit => SessionInv
  BY SessionInit DEF MCInit
<1>2. SessionInv /\ [MCNext]_allVars => SessionInv'
  <2> SUFFICES ASSUME SessionInv, [MCNext]_allVars PROVE [Sessions!Next]_Sessions!vars
    BY SessionNext
  <2> QED
    BY DEF MCNext, allVars, sessionVars, Sessions!vars
<1>3. SessionInv => OneLossIsHidden
  <2> SUFFICES ASSUME SessionInv, NEW c \in Caller, Sessions!HasSession, spc[c] = "sent", call[c].retry,
                      call[c].sent \notin valid
               PROVE  losses > call[c].since
    BY DEF OneLossIsHidden, Sessions!OneLossIsHidden
  <2>1. call[c].since \in Nat /\ losses \in Nat /\ call[c].since <= losses /\ losses # call[c].since
    BY DEF SessionInv, SessionTypes, Renewed
  <2> QED
    BY <2>1
<1> QED
  BY <1>1, <1>2, <1>3, PTL DEF MCSpec

----------------------------------------------------------------------------
(* The event stream (EventBroker).                                         *)

StreamTypes ==
    /\ seq \in Nat
    /\ ring \in Seq(Nat) /\ Len(ring) <= Replay /\ Len(ring) <= seq
    /\ queue \in [Conn -> Seq(Nat \cup {Disconnect})]
    /\ conn \in [Conn -> {"free", "requested", "live", "left"}]
    /\ last \in [Conn -> Nat] /\ missed \in [Conn -> Nat]

\* The ring holds the newest events.
RingIsNewest == \A i \in 1..Len(ring) : ring[i] = seq - Len(ring) + i

\* A connection that is not live yet has nothing, and is no subscriber.
Unserved ==
    \A c \in Conn : conn[c] \in {"free", "requested"} => last[c] = 0 /\ c \notin subscribed

\* What a live connection can still be sent; queues are bounded.
Served ==
    \A c \in Conn : conn[c] = "live" =>
        /\ c \in subscribed =>
            /\ \A i \in 1..Len(queue[c]) : queue[c][i] = seq - Len(queue[c]) + i
            /\ seq - Len(queue[c]) = IF last[c] = 0 THEN missed[c] ELSE last[c]
        /\ c \notin subscribed => queue[c] # <<>> /\ queue[c][Len(queue[c])] = Disconnect

StreamInv == StreamTypes /\ RingIsNewest /\ Unserved /\ Served

LEMMA StreamConstants ==
  Depth \in Nat \ {0} /\ Replay \in Nat /\ Disconnect \notin Nat /\ None \notin Conn
  BY StreamBounds DEF Stream!BrokerAssumption

LEMMA StreamInit == Stream!Init => StreamInv
  BY StreamConstants DEF Stream!Init, StreamInv, StreamTypes, RingIsNewest, Unserved, Served

\* Only the places of requests that are not live change.
LEMMA TabKeeps ==
  ASSUME StreamInv, UNCHANGED <<seq, ring, subscribed, queue, last, missed>>,
         conn' \in [Conn -> {"free", "requested", "live", "left"}],
         \A c \in Conn : \/ conn'[c] \in {conn[c], "left"}
                         \/ conn[c] = "free" /\ conn'[c] = "requested"
  PROVE  StreamInv'
  BY DEF StreamInv, StreamTypes, RingIsNewest, Unserved, Served

LEMMA PublishKeeps ==
  ASSUME StreamInv, Stream!Publish
  PROVE  StreamInv'
<1>1. /\ seq' = seq + 1 /\ queue' = [c \in Conn |-> Stream!Delivered(c)]
      /\ ring' = IF Len(Append(ring, seq + 1)) > Replay THEN Tail(Append(ring, seq + 1)) ELSE Append(ring, seq + 1)
      /\ subscribed' = subscribed \ Stream!Full /\ UNCHANGED <<conn, last, missed>>
  BY DEF Stream!Publish
<1>2. seq + 1 \in Nat \ {0} /\ seq \in Nat
  BY DEF StreamInv, StreamTypes
<1>3. ring' \in Seq(Nat) /\ Len(ring') <= Replay /\ Len(ring') <= seq'
      /\ \A i \in 1..Len(ring') : ring'[i] = seq' - Len(ring') + i
  <2> DEFINE r == Append(ring, seq + 1)
  <2>1. /\ r \in Seq(Nat) /\ Len(r) = Len(ring) + 1 /\ Len(ring) \in Nat
        /\ \A i \in 1..Len(ring) : r[i] = ring[i]
        /\ r[Len(ring) + 1] = seq + 1
    BY <1>2 DEF StreamInv, StreamTypes
  <2>2. \A i \in 1..Len(r) : r[i] = (seq + 1) - Len(r) + i
    BY <1>2, <2>1 DEF StreamInv, RingIsNewest
  <2>3. Len(ring) <= Replay /\ Len(ring) <= seq /\ Replay \in Nat
    BY StreamConstants DEF StreamInv, StreamTypes
  <2> HIDE DEF r
  <2>4. CASE Len(r) > Replay
    <3>1. r # <<>>
      BY <2>1
    <3>2. Tail(r) \in Seq(Nat) /\ Len(Tail(r)) = Len(ring) /\ \A i \in 1..Len(ring) : Tail(r)[i] = r[i + 1]
      BY <2>1, <3>1
    <3>3. ring' = Tail(r)
      BY <1>1, <2>4 DEF r
    <3> QED
      <4>1. Len(ring') = Len(ring) /\ seq' = seq + 1 /\ ring' \in Seq(Nat)
        BY <1>1, <3>2, <3>3
      <4>2. Len(ring') <= Replay /\ Len(ring') <= seq'
        BY <1>2, <2>1, <2>3, <4>1
      <4>3. ASSUME NEW i \in 1..Len(ring')
            PROVE  ring'[i] = seq' - Len(ring') + i
        <5>1. i + 1 \in 1..Len(r) /\ i \in 1..Len(ring)
          BY <2>1, <4>1
        <5>2. ring'[i] = (seq + 1) - Len(r) + (i + 1)
          BY <2>2, <3>2, <3>3, <5>1
        <5> QED
          BY <1>2, <2>1, <4>1, <5>1, <5>2
      <4> QED
        BY <4>1, <4>2, <4>3
  <2>5. CASE ~(Len(r) > Replay)
    <3>1. ring' = r
      BY <1>1, <2>5 DEF r
    <3> QED
      <4>1. Len(r) <= Replay /\ Len(r) <= seq + 1
        BY <1>2, <2>1, <2>3, <2>5
      <4> QED
        BY <1>1, <2>1, <2>2, <3>1, <4>1
  <2> QED
    BY <2>4, <2>5
<1>4. ASSUME NEW c \in Conn
      PROVE  /\ queue'[c] \in Seq(Nat \cup {Disconnect})
             /\ conn'[c] = "live" =>
                  /\ c \in subscribed' =>
                      /\ \A i \in 1..Len(queue'[c]) : queue'[c][i] = seq' - Len(queue'[c]) + i
                      /\ seq' - Len(queue'[c]) = IF last'[c] = 0 THEN missed'[c] ELSE last'[c]
                  /\ c \notin subscribed' => queue'[c] # <<>> /\ queue'[c][Len(queue'[c])] = Disconnect
  <2>1. queue[c] \in Seq(Nat \cup {Disconnect}) /\ queue'[c] = Stream!Delivered(c) /\ last[c] \in Nat /\ missed[c] \in Nat
    BY <1>1 DEF StreamInv, StreamTypes
  <2>2. CASE c \in Stream!Full
    <3>1. queue'[c] = Append(Tail(queue[c]), Disconnect) /\ queue[c] # <<>> /\ c \notin subscribed'
      BY <1>1, <2>1, <2>2, StreamConstants DEF Stream!Full, Stream!Delivered
    <3> DEFINE s == Tail(queue[c])
    <3>2. s \in Seq(Nat \cup {Disconnect}) /\ Disconnect \in Nat \cup {Disconnect}
      BY <2>1, <3>1
    <3> HIDE DEF s
    <3>3. /\ Append(s, Disconnect) \in Seq(Nat \cup {Disconnect})
          /\ Len(Append(s, Disconnect)) = Len(s) + 1 /\ Len(s) \in Nat
          /\ Append(s, Disconnect)[Len(s) + 1] = Disconnect
      BY <3>2
    <3>4. queue'[c] = Append(s, Disconnect)
      BY <3>1 DEF s
    <3>5. queue'[c] # <<>>
      BY <3>3, <3>4
    <3> QED
      BY <3>1, <3>3, <3>4, <3>5
  <2>3. CASE c \in subscribed \ Stream!Full
    <3>1. queue'[c] = Append(queue[c], seq + 1) /\ c \in subscribed'
      BY <1>1, <2>1, <2>3 DEF Stream!Delivered
    <3>2. /\ queue'[c] \in Seq(Nat \cup {Disconnect}) /\ Len(queue'[c]) = Len(queue[c]) + 1
          /\ \A i \in 1..Len(queue[c]) : queue'[c][i] = queue[c][i]
          /\ queue'[c][Len(queue[c]) + 1] = seq + 1 /\ Len(queue[c]) \in Nat
      BY <1>2, <2>1, <3>1
    <3>3. conn[c] = "live" =>
            /\ \A i \in 1..Len(queue[c]) : queue[c][i] = seq - Len(queue[c]) + i
            /\ seq - Len(queue[c]) = IF last[c] = 0 THEN missed[c] ELSE last[c]
      BY <2>3 DEF StreamInv, Served
    <3> QED
      <4>1. ASSUME conn[c] = "live", NEW i \in 1..Len(queue'[c])
            PROVE  queue'[c][i] = seq' - Len(queue'[c]) + i
        <5>1. CASE i \in 1..Len(queue[c])
          <6>1. queue'[c][i] = queue[c][i]
            BY <3>2, <5>1
          <6>2. queue[c][i] = seq - Len(queue[c]) + i
            BY <3>3, <4>1, <5>1
          <6>3. /\ Len(queue[c]) \in Nat /\ Len(queue'[c]) = Len(queue[c]) + 1
                /\ seq' = seq + 1 /\ seq \in Nat /\ i \in Nat
            BY <1>1, <1>2, <3>2, <5>1
          <6>4. seq - Len(queue[c]) + i = seq' - Len(queue'[c]) + i
            BY <6>3
          <6> QED
            BY <6>1, <6>2, <6>4
        <5>2. CASE i = Len(queue[c]) + 1
          <6>1. queue'[c][i] = seq' /\ i = Len(queue'[c]) /\ i \in Nat /\ seq' \in Nat
            BY <1>1, <1>2, <3>2, <5>2
          <6> QED
            BY <6>1
        <5> QED
          BY <3>2, <5>1, <5>2
      <4>2. conn[c] = "live" => seq' - Len(queue'[c]) = IF last'[c] = 0 THEN missed'[c] ELSE last'[c]
        <5>1. (seq + 1) - (Len(queue[c]) + 1) = seq - Len(queue[c])
          BY <1>2, <3>2
        <5> QED
          BY <1>1, <3>2, <3>3, <5>1
      <4> QED
        BY <1>1, <3>1, <3>2, <4>1, <4>2
  <2>4. CASE c \notin subscribed
    <3>1. queue'[c] = queue[c] /\ c \notin subscribed'
      BY <1>1, <2>1, <2>4 DEF Stream!Delivered, Stream!Full
    <3> QED
      BY <1>1, <2>1, <2>4, <3>1 DEF StreamInv, Served
  <2> QED
    BY <2>2, <2>3, <2>4 DEF Stream!Full
<1>5. StreamTypes'
  BY <1>1, <1>2, <1>3, <1>4 DEF StreamInv, StreamTypes
<1>6. Unserved'
  BY <1>1 DEF StreamInv, Unserved
<1> QED
  BY <1>3, <1>4, <1>5, <1>6 DEF StreamInv, RingIsNewest, Served

LEMMA SubscribeKeeps ==
  ASSUME StreamInv, NEW c \in Conn, Stream!Subscribe(c)
  PROVE  StreamInv'
<1>1. /\ conn[c] = "requested" /\ conn' = [conn EXCEPT ![c] = "live"]
      /\ queue' = [queue EXCEPT ![c] = ring] /\ subscribed' = subscribed \cup {c}
      /\ missed' = [missed EXCEPT ![c] = seq - Len(ring)]
      /\ UNCHANGED <<seq, ring, last>>
  BY DEF Stream!Subscribe
<1>2. ring \in Seq(Nat \cup {Disconnect}) /\ seq - Len(ring) \in Nat /\ last[c] = 0
  <2>1. ring \in Seq(Nat) /\ Len(ring) \in Nat /\ Len(ring) <= seq /\ seq \in Nat
    BY DEF StreamInv, StreamTypes
  <2>2. ring \in Seq(Nat \cup {Disconnect})
    BY <2>1
  <2> QED
    BY <1>1, <2>1, <2>2 DEF StreamInv, Unserved
<1>3. StreamTypes'
  BY <1>1, <1>2 DEF StreamInv, StreamTypes
<1>4. RingIsNewest' /\ Unserved'
  BY <1>1 DEF StreamInv, StreamTypes, RingIsNewest, Unserved
<1>5. Served'
  <2> SUFFICES ASSUME NEW d \in Conn, conn'[d] = "live"
               PROVE  /\ d \in subscribed' =>
                        /\ \A i \in 1..Len(queue'[d]) : queue'[d][i] = seq - Len(queue'[d]) + i
                        /\ seq - Len(queue'[d]) = IF last[d] = 0 THEN missed'[d] ELSE last[d]
                      /\ d \notin subscribed' => queue'[d] # <<>> /\ queue'[d][Len(queue'[d])] = Disconnect
    BY <1>1 DEF Served
  <2>1. CASE d = c
    <3>1. queue'[d] = ring /\ missed'[d] = seq - Len(ring) /\ d \in subscribed'
      BY <1>1, <2>1 DEF StreamInv, StreamTypes
    <3> QED
      BY <1>2, <2>1, <3>1 DEF StreamInv, RingIsNewest
  <2>2. CASE d # c
    <3>1. queue'[d] = queue[d] /\ missed'[d] = missed[d] /\ (d \in subscribed' <=> d \in subscribed) /\ conn[d] = "live"
      BY <1>1, <2>2 DEF StreamInv, StreamTypes
    <3> QED
      BY <3>1 DEF StreamInv, Served
  <2> QED
    BY <2>1, <2>2
<1> QED
  BY <1>3, <1>4, <1>5 DEF StreamInv

LEMMA SendKeeps ==
  ASSUME StreamInv, NEW c \in Conn, Stream!Send(c)
  PROVE  StreamInv'
<1>1. /\ conn[c] = "live" /\ queue[c] # <<>> /\ Head(queue[c]) # Disconnect
      /\ queue' = [queue EXCEPT ![c] = Tail(queue[c])] /\ last' = [last EXCEPT ![c] = Head(queue[c])]
      /\ UNCHANGED <<seq, ring, subscribed, conn, missed>>
  BY DEF Stream!Send
<1>2. queue[c] \in Seq(Nat \cup {Disconnect})
  BY DEF StreamInv, StreamTypes
<1>3. /\ Head(queue[c]) = queue[c][1] /\ Head(queue[c]) \in Nat
      /\ Tail(queue[c]) \in Seq(Nat \cup {Disconnect}) /\ Len(queue[c]) \in Nat \ {0}
      /\ Len(Tail(queue[c])) = Len(queue[c]) - 1
      /\ \A i \in 1..(Len(queue[c]) - 1) : Tail(queue[c])[i] = queue[c][i + 1]
  BY <1>1, <1>2
<1>4. StreamTypes'
  BY <1>1, <1>3 DEF StreamInv, StreamTypes
<1>5. RingIsNewest' /\ Unserved'
  BY <1>1 DEF StreamInv, StreamTypes, RingIsNewest, Unserved
<1>6. Served'
  <2> SUFFICES ASSUME NEW d \in Conn, conn[d] = "live"
               PROVE  /\ d \in subscribed =>
                        /\ \A i \in 1..Len(queue'[d]) : queue'[d][i] = seq - Len(queue'[d]) + i
                        /\ seq - Len(queue'[d]) = IF last'[d] = 0 THEN missed[d] ELSE last'[d]
                      /\ d \notin subscribed => queue'[d] # <<>> /\ queue'[d][Len(queue'[d])] = Disconnect
    BY <1>1 DEF Served
  <2>1. CASE d = c /\ d \in subscribed
    <3>1. queue'[d] = Tail(queue[c]) /\ last'[d] = Head(queue[c])
      BY <1>1, <2>1 DEF StreamInv, StreamTypes
    <3>2. /\ \A i \in 1..Len(queue[c]) : queue[c][i] = seq - Len(queue[c]) + i
          /\ seq - Len(queue[c]) \in Nat /\ seq \in Nat
      BY <2>1, ZenonT(30) DEF StreamInv, StreamTypes, Served
    <3>3. Head(queue[c]) = seq - Len(queue[c]) + 1 /\ Head(queue[c]) # 0
      <4> DEFINE n == Len(queue[c])
      <4>1. n \in Nat \ {0} /\ seq - n \in Nat /\ seq \in Nat
        BY <1>3, <3>2
      <4>2. \A i \in 1..n : queue[c][i] = seq - n + i
        BY <3>2
      <4>3. Head(queue[c]) = queue[c][1]
        BY <1>3
      <4> HIDE DEF n
      <4>4. 1 \in 1..n /\ seq - n + 1 # 0
        BY <4>1
      <4>5. queue[c][1] = seq - n + 1
        BY <4>2, <4>4
      <4> QED
        BY <4>3, <4>4, <4>5 DEF n
    <3> QED
      <4>1. Len(queue'[d]) = Len(queue[c]) - 1 /\ last'[d] = seq - Len(queue'[d]) /\ last'[d] # 0
        <5>1. Len(queue'[d]) = Len(queue[c]) - 1
          BY <1>3, <3>1
        <5>2. last'[d] = seq - Len(queue[c]) + 1 /\ last'[d] # 0
          BY <3>1, <3>3
        <5>3. seq - Len(queue[c]) + 1 = seq - (Len(queue[c]) - 1)
          BY <1>3, <3>2
        <5> QED
          BY <5>1, <5>2, <5>3
      <4>2. ASSUME NEW i \in 1..Len(queue'[d])
            PROVE  queue'[d][i] = seq - Len(queue'[d]) + i
        <5>1. i \in 1..(Len(queue[c]) - 1) /\ i + 1 \in 1..Len(queue[c])
          BY <1>3, <4>1
        <5>2. queue'[d][i] = seq - Len(queue[c]) + (i + 1)
          BY <1>3, <3>1, <3>2, <5>1
        <5> QED
          BY <1>3, <3>2, <4>1, <5>1, <5>2
      <4> QED
        BY <2>1, <4>1, <4>2
  <2>2. CASE d = c /\ d \notin subscribed
    <3>1. queue'[d] = Tail(queue[c]) /\ queue[c][Len(queue[c])] = Disconnect
      BY <1>1, <2>2 DEF StreamInv, StreamTypes, Served
    <3>2. Len(queue[c]) # 1
      BY <1>1, <1>3, <3>1
    <3> QED
      <4>1. /\ Len(queue'[d]) = Len(queue[c]) - 1 /\ Len(queue'[d]) \in 1..(Len(queue[c]) - 1)
            /\ Len(queue'[d]) + 1 = Len(queue[c])
        <5>1. Len(queue'[d]) = Len(queue[c]) - 1
          BY <1>3, <2>2, <3>1
        <5>2. Len(queue[c]) \in Nat /\ Len(queue[c]) # 0 /\ Len(queue[c]) # 1
          BY <1>3, <3>2
        <5>3. \A n \in Nat : n # 0 /\ n # 1 => n - 1 \in 1..(n - 1) /\ (n - 1) + 1 = n
          OBVIOUS
        <5> QED
          BY <5>1, <5>2, <5>3
      <4>2. queue'[d][Len(queue'[d])] = Disconnect
        BY <1>3, <3>1, <4>1
      <4>3. queue'[d] # <<>>
        BY <4>1
      <4> QED
        BY <2>2, <4>2, <4>3
  <2>3. CASE d # c
    <3>1. queue'[d] = queue[d] /\ last'[d] = last[d]
      BY <1>1, <2>3 DEF StreamInv, StreamTypes
    <3> QED
      BY <3>1 DEF StreamInv, Served
  <2> QED
    BY <2>1, <2>2, <2>3
<1> QED
  BY <1>4, <1>5, <1>6 DEF StreamInv

LEMMA DiscardKeeps ==
  ASSUME StreamInv, NEW c \in Conn, Stream!Discard(c)
  PROVE  StreamInv'
<1>1. /\ conn[c] = "left" /\ conn' = [conn EXCEPT ![c] = "free"]
      /\ queue' = [queue EXCEPT ![c] = <<>>] /\ subscribed' = subscribed \ {c}
      /\ last' = [last EXCEPT ![c] = 0] /\ missed' = [missed EXCEPT ![c] = 0]
      /\ UNCHANGED <<seq, ring>>
  BY DEF Stream!Discard
<1>2. StreamTypes'
  BY <1>1 DEF StreamInv, StreamTypes
<1>3. RingIsNewest' /\ Unserved'
  BY <1>1 DEF StreamInv, StreamTypes, RingIsNewest, Unserved
<1>4. ASSUME NEW d \in Conn, conn'[d] = "live"
      PROVE  /\ d # c /\ conn[d] = "live" /\ queue'[d] = queue[d] /\ last'[d] = last[d] /\ missed'[d] = missed[d]
             /\ d \in subscribed' <=> d \in subscribed
  BY <1>1, <1>4 DEF StreamInv, StreamTypes
<1>5. Served'
  BY <1>1, <1>4 DEF StreamInv, Served
<1> QED
  BY <1>2, <1>3, <1>5 DEF StreamInv

LEMMA StreamNext == StreamInv /\ [Stream!Next]_Stream!vars => StreamInv'
<1> SUFFICES ASSUME StreamInv, [Stream!Next]_Stream!vars PROVE StreamInv'
  OBVIOUS
<1>1. CASE UNCHANGED Stream!vars
  BY <1>1 DEF Stream!vars, Stream!broker, StreamInv, StreamTypes, RingIsNewest, Unserved, Served
<1>2. CASE Stream!Publish
  BY <1>2, PublishKeeps
<1>3. CASE Stream!Opened \/ Stream!Breaks
  BY <1>3, TabKeeps DEF Stream!Opened, Stream!Breaks, Stream!broker, StreamInv, StreamTypes
<1>4. ASSUME NEW c \in Conn, Stream!KickedOut(c) \/ Stream!Mount(c) \/ Stream!Retry(c) \/ Stream!Reconnect(c)
      PROVE  StreamInv'
  <2>1. CASE Stream!KickedOut(c)
    BY <2>1, TabKeeps DEF Stream!KickedOut, Stream!broker, StreamInv, StreamTypes
  <2>2. CASE Stream!Mount(c) \/ Stream!Retry(c) \/ Stream!Reconnect(c)
    BY <2>2, TabKeeps DEF Stream!Mount, Stream!Retry, Stream!Reconnect, Stream!Opens, Stream!broker,
                          StreamInv, StreamTypes
  <2> QED
    BY <1>4, <2>1, <2>2
<1>5. ASSUME NEW c \in Conn, Stream!Subscribe(c) \/ Stream!Send(c) \/ Stream!Discard(c)
      PROVE  StreamInv'
  BY <1>5, SubscribeKeeps, SendKeeps, DiscardKeeps
<1> QED
  BY <1>1, <1>2, <1>3, <1>4, <1>5 DEF Stream!Next

\* On a connection of the event stream no event is skipped without a word, whatever the
\* sizes of the queues and the ring and however tabs come and go (publish, subscribe).
THEOREM StreamsAreConsecutive == MCSpec => [](Stream!EventsAreConsecutive)
<1>1. MCInit => StreamInv
  BY StreamInit DEF MCInit
<1>2. StreamInv /\ [MCNext]_allVars => StreamInv'
  <2> SUFFICES ASSUME StreamInv, [MCNext]_allVars PROVE [Stream!Next]_Stream!vars
    BY StreamNext
  <2> QED
    BY DEF MCNext, allVars, eventVars, Stream!vars, Stream!broker, Stream!tab
<1>3. StreamInv => Stream!EventsAreConsecutive
  <2> SUFFICES ASSUME StreamInv, NEW c \in Conn, conn[c] = "live"
               PROVE  IF c \in subscribed
                      THEN /\ \A i \in DOMAIN queue[c] : queue[c][i] = seq - Len(queue[c]) + i
                           /\ seq - Len(queue[c]) = IF last[c] = 0 THEN missed[c] ELSE last[c]
                      ELSE queue[c] # <<>> /\ queue[c][Len(queue[c])] = Disconnect
    BY DEF Stream!EventsAreConsecutive
  <2>1. DOMAIN queue[c] = 1..Len(queue[c])
    BY DEF StreamInv, StreamTypes
  <2> QED
    BY <2>1 DEF StreamInv, Served
<1> QED
  BY <1>1, <1>2, <1>3, PTL DEF MCSpec

----------------------------------------------------------------------------
(* Subprocess plugins (PluginRuns).                                        *)

ProcFields == {"alive", "code", "held", "wrote"}

ReaderFields == {"at", "read", "metrics", "result"}

PluginTypes ==
    /\ DOMAIN run = {"id", "at", "began"}
    /\ run.at # "idle" => run.id \in Proc
    /\ proc = [i \in Proc |-> proc[i]] /\ reader = [i \in Proc |-> reader[i]]
    /\ DOMAIN reported = Proc
    /\ \A i \in Proc : /\ DOMAIN proc[i] = ProcFields /\ proc[i].wrote \in Seq(Plugins!Line)
                       /\ DOMAIN reader[i] = ReaderFields
                       /\ reader[i].read \in Nat /\ reader[i].read <= Len(proc[i].wrote)

\* What a reader has recorded is what its process wrote up to the result.
Recorded(i) ==
    LET w == proc[i].wrote
        Before(n) == /\ \A k \in 1..n : w[k] \notin Plugins!Results
                     /\ reader[i].metrics = Plugins!MetricsOf(i, n) IN
    \/ reader[i].result = "none" /\ Before(reader[i].read)
    \/ /\ reader[i].result \in Plugins!Results
       /\ \E n \in 1..reader[i].read : w[n] = reader[i].result /\ Before(n - 1)

\* A run that is past its process, or was ok.
Earned ==
    /\ run.at # "idle" => reported[run.id] = "none"
    /\ run.at \in {"drain", "stderr"} => ~proc[run.id].alive
    /\ \A i \in Proc : reported[i] = "ok" =>
        /\ ~proc[i].alive /\ proc[i].code = 0
        /\ reader[i].at = "end" /\ reader[i].result = "ok"

PluginInv == PluginTypes /\ Earned /\ \A i \in Proc : Recorded(i)

LEMMA PluginsCardinality == \A S : Plugins!Cardinality(S) = Cardinality(S)
  BY Zenon DEF Plugins!Cardinality, Cardinality

LEMMA PluginInit == Plugins!Init => PluginInv
<1> SUFFICES ASSUME Plugins!Init PROVE PluginInv
  OBVIOUS
<1>1. ASSUME NEW i \in Proc PROVE Recorded(i)
  <2>1. {k \in 1..0 : proc[i].wrote[k] = "metric"} = {} /\ Plugins!Cardinality({}) = 0
    BY FS_EmptySet, PluginsCardinality
  <2>2. reader[i].result = "none" /\ reader[i].read = 0 /\ reader[i].metrics = 0
    BY DEF Plugins!Init, Plugins!NoReader
  <2>3. Plugins!MetricsOf(i, 0) = 0
    BY <2>1 DEF Plugins!MetricsOf
  <2> QED
    BY <2>2, <2>3 DEF Recorded
<1>2. PluginTypes
  <2>1. proc = [i \in Proc |-> Plugins!NoProc] /\ reader = [i \in Proc |-> Plugins!NoReader]
    BY DEF Plugins!Init
  <2>2. proc = [i \in Proc |-> proc[i]] /\ reader = [i \in Proc |-> reader[i]]
    BY <2>1, Zenon
  <2>3. <<>> \in Seq(Plugins!Line) /\ 0 \in Nat /\ 0 <= Len(<<>>)
    OBVIOUS
  <2>4. DOMAIN run = {"id", "at", "began"} /\ run.at = "idle" /\ DOMAIN reported = Proc
    BY DEF Plugins!Init, Plugins!NoRun
  <2>5. ASSUME NEW i \in Proc
        PROVE  /\ DOMAIN proc[i] = ProcFields /\ proc[i].wrote = <<>>
               /\ DOMAIN reader[i] = ReaderFields /\ reader[i].read = 0
    BY <2>1 DEF Plugins!NoReader, Plugins!NoProc, ProcFields, ReaderFields
  <2>6. ASSUME NEW i \in Proc
        PROVE  /\ proc[i].wrote \in Seq(Plugins!Line)
               /\ reader[i].read \in Nat /\ reader[i].read <= Len(proc[i].wrote)
    BY <2>3, <2>5, Zenon
  <2> QED
    BY <2>2, <2>4, <2>5, <2>6 DEF PluginTypes
<1>3. Earned
  BY DEF Plugins!Init, Plugins!NoRun, Earned
<1> QED
  BY <1>1, <1>2, <1>3 DEF PluginInv

\* What the reader has read stays, and so does what it has recorded.
LEMMA RecordedStays ==
  ASSUME PluginTypes, NEW i \in Proc, Recorded(i),
         reader'[i].read \in Nat, reader'[i].read >= reader[i].read,
         reader'[i].read = reader[i].read \/ reader[i].result # "none",
         reader'[i].metrics = reader[i].metrics, reader'[i].result = reader[i].result,
         \A k \in 1..reader[i].read : proc'[i].wrote[k] = proc[i].wrote[k]
  PROVE  Recorded(i)'
<1>1. reader[i].read \in Nat
  BY DEF PluginTypes
<1>2. ASSUME NEW n \in Int, n <= reader[i].read
      PROVE  Plugins!MetricsOf(i, n)' = Plugins!MetricsOf(i, n)
  <2>1. {k \in 1..n : proc'[i].wrote[k] = "metric"} = {k \in 1..n : proc[i].wrote[k] = "metric"}
    BY <1>1, <1>2
  <2> QED
    BY <2>1 DEF Plugins!MetricsOf
<1>3. CASE reader[i].result = "none" /\ reader[i].metrics = Plugins!MetricsOf(i, reader[i].read)
           /\ \A k \in 1..reader[i].read : proc[i].wrote[k] \notin Plugins!Results
  <2>1. reader'[i].read = reader[i].read
    BY <1>3 DEF Plugins!Results
  <2> QED
    BY <1>1, <1>2, <1>3, <2>1 DEF Recorded
<1>4. ASSUME NEW n \in 1..reader[i].read, reader[i].result \in Plugins!Results,
             proc[i].wrote[n] = reader[i].result, reader[i].metrics = Plugins!MetricsOf(i, n - 1),
             \A k \in 1..(n - 1) : proc[i].wrote[k] \notin Plugins!Results
      PROVE  Recorded(i)'
  <2>1. n \in 1..reader'[i].read /\ proc'[i].wrote[n] = reader'[i].result
        /\ \A k \in 1..(n - 1) : proc'[i].wrote[k] \notin Plugins!Results
    BY <1>1, <1>4
  <2>2. reader'[i].metrics = Plugins!MetricsOf(i, n - 1)' /\ reader'[i].result \in Plugins!Results
    BY <1>1, <1>2, <1>4
  <2> QED
    BY <2>1, <2>2 DEF Recorded
<1> QED
  BY <1>3, <1>4 DEF Recorded

\* A line is read.
LEMMA ReadLineRecords ==
  ASSUME PluginInv, NEW i \in Proc, Plugins!ReadLine(i)
  PROVE  /\ reader'[i].read = reader[i].read + 1 /\ reader'[i].read <= Len(proc[i].wrote)
         /\ DOMAIN reader'[i] = ReaderFields
         /\ reader' = [reader EXCEPT ![i] = reader'[i]]
         /\ reader[i].at = "on"
         /\ Recorded(i)'
<1> DEFINE w == proc[i].wrote
<1>0. PICK n \in Nat : n = reader[i].read + 1 /\ n >= 1 /\ n - 1 = reader[i].read
  <2>1. reader[i].read \in Nat
    BY DEF PluginInv, PluginTypes
  <2>2. reader[i].read + 1 \in Nat
    BY <2>1
  <2> QED
    BY <2>1, <2>2
<1>1. /\ reader[i].read \in Nat /\ n <= Len(w) /\ w \in Seq(Plugins!Line) /\ proc' = proc
      /\ reader[i].at = "on" /\ DOMAIN reader[i] = ReaderFields
  BY <1>0 DEF PluginInv, PluginTypes, Plugins!ReadLine
<1>2. PICK breaks \in BOOLEAN : reader' = [reader EXCEPT
             ![i].read = @ + 1,
             ![i].at = IF breaks THEN "crashed" ELSE @,
             ![i].metrics = IF w[n] = "metric" /\ reader[i].result = "none" THEN @ + 1 ELSE @,
             ![i].result = IF w[n] \in Plugins!Results /\ reader[i].result = "none" THEN w[n] ELSE @]
  BY <1>0 DEF Plugins!ReadLine
<1> DEFINE y == [reader[i] EXCEPT
             !.read = @ + 1,
             !.at = IF breaks THEN "crashed" ELSE @,
             !.metrics = IF w[n] = "metric" /\ reader[i].result = "none" THEN @ + 1 ELSE @,
             !.result = IF w[n] \in Plugins!Results /\ reader[i].result = "none" THEN w[n] ELSE @]
<1>3. reader' = [reader EXCEPT ![i] = y]
  BY <1>2
<1>4. reader'[i] = y
  BY <1>3 DEF PluginInv, PluginTypes
<1>5. /\ DOMAIN y = ReaderFields /\ y.read = n
      /\ y.metrics = IF w[n] = "metric" /\ reader[i].result = "none" THEN reader[i].metrics + 1 ELSE reader[i].metrics
      /\ y.result = IF w[n] \in Plugins!Results /\ reader[i].result = "none" THEN w[n] ELSE reader[i].result
  BY <1>0, <1>1 DEF ReaderFields
<1> HIDE DEF y
<1>6. \A m \in Int : Plugins!MetricsOf(i, m)' = Plugins!MetricsOf(i, m)
  BY <1>1 DEF Plugins!MetricsOf
<1>7. ASSUME reader[i].result # "none" PROVE Recorded(i)'
  <2>1. /\ reader'[i].read = n /\ reader'[i].metrics = reader[i].metrics /\ reader'[i].result = reader[i].result
        /\ proc'[i] = proc[i] /\ PluginTypes /\ Recorded(i)
    BY <1>1, <1>4, <1>5, <1>7 DEF PluginInv
  <2>2. /\ reader'[i].read \in Nat /\ reader'[i].read >= reader[i].read
        /\ \A k \in 1..reader[i].read : proc'[i].wrote[k] = proc[i].wrote[k]
    BY <2>1, <1>0, <1>1
  <2> QED
    BY <2>1, <2>2, <1>7, RecordedStays
<1>8. ASSUME reader[i].result = "none" PROVE Recorded(i)'
  <2>1. /\ \A k \in 1..(n - 1) : w[k] \notin Plugins!Results
        /\ reader[i].metrics = Plugins!MetricsOf(i, n - 1)
    BY <1>0, <1>1, <1>8 DEF Recorded, PluginInv, Plugins!Results
  <2>2. CASE w[n] \in Plugins!Results
    <3>1. /\ reader'[i].result = w[n] /\ reader'[i].metrics = Plugins!MetricsOf(i, n - 1)'
          /\ n \in 1..reader'[i].read /\ proc' = proc /\ reader'[i].result \in Plugins!Results
      <4>1. w[n] # "metric"
        BY <2>2 DEF Plugins!Results
      <4> QED
        BY <1>0, <1>1, <1>4, <1>5, <1>6, <1>8, <2>1, <2>2, <4>1
    <3>2. proc'[i].wrote[n] = reader'[i].result /\ \A k \in 1..(n - 1) : proc'[i].wrote[k] \notin Plugins!Results
      BY <2>1, <3>1
    <3> QED
      BY <3>1, <3>2 DEF Recorded
  <2>3. CASE w[n] \notin Plugins!Results
    <3>1. \A k \in 1..n : w[k] \notin Plugins!Results
      BY <1>0, <1>1, <2>1, <2>3
    <3>2. y.metrics = Plugins!MetricsOf(i, n)
      <4> DEFINE M(m) == {k \in 1..m : w[k] = "metric"}
      <4>1. IsFiniteSet(M(n - 1)) /\ n \notin M(n - 1)
        <5>1. IsFiniteSet(1..(n - 1))
          BY <1>1, FS_Interval
        <5>2. M(n - 1) \subseteq 1..(n - 1)
          OBVIOUS
        <5> QED
          BY <5>1, <5>2, <1>0, <1>1, FS_Subset
      <4>2. Plugins!MetricsOf(i, n) = Cardinality(M(n)) /\ Plugins!MetricsOf(i, n - 1) = Cardinality(M(n - 1))
        BY PluginsCardinality DEF Plugins!MetricsOf
      <4>3. CASE w[n] = "metric"
        <5>1. M(n) = M(n - 1) \cup {n}
          BY <1>0, <1>1, <4>3
        <5>2. Cardinality(M(n)) = Cardinality(M(n - 1)) + 1
          BY <5>1, <4>1, FS_AddElement
        <5> QED
          BY <5>2, <4>2, <4>3, <1>5, <1>8, <2>1
      <4>4. CASE w[n] # "metric"
        <5>1. M(n) = M(n - 1)
          BY <1>0, <1>1, <4>4
        <5> QED
          BY <5>1, <4>2, <4>4, <1>5, <2>1
      <4> QED
        BY <4>3, <4>4
    <3>3. /\ reader'[i].result = "none" /\ reader'[i].metrics = Plugins!MetricsOf(i, n)'
          /\ reader'[i].read = n /\ proc' = proc
      BY <1>0, <1>1, <1>4, <1>5, <1>6, <1>8, <2>3, <3>2
    <3>4. \A k \in 1..reader'[i].read : proc'[i].wrote[k] \notin Plugins!Results
      BY <3>1, <3>3
    <3>5. reader'[i].metrics = Plugins!MetricsOf(i, reader[i].read)'
      BY <3>3
    <3> QED
      BY <3>3, <3>4, <3>5 DEF Recorded
  <2> QED
    BY <2>2, <2>3
<1> QED
  BY <1>0, <1>1, <1>3, <1>4, <1>5, <1>7, <1>8


\* A step that reads and writes no line.
LEMMA LinesStay ==
  ASSUME PluginInv, proc' = [i \in Proc |-> proc'[i]], reader' = [i \in Proc |-> reader'[i]],
         DOMAIN reported' = Proc,
         \A i \in Proc : /\ DOMAIN proc'[i] = ProcFields /\ DOMAIN reader'[i] = ReaderFields
                        /\ proc'[i].wrote = proc[i].wrote /\ reader'[i].read = reader[i].read
                        /\ reader'[i].metrics = reader[i].metrics /\ reader'[i].result = reader[i].result,
         DOMAIN run' = {"id", "at", "began"}, run'.at # "idle" => run'.id \in Proc,
         Earned'
  PROVE  PluginInv'
<1>1. ASSUME NEW i \in Proc PROVE Recorded(i)'
  <2>1. PluginTypes /\ Recorded(i) /\ reader[i].read \in Nat
    BY DEF PluginInv, PluginTypes
  <2> QED
    BY <2>1, RecordedStays
<1>2. PluginTypes'
  BY DEF PluginInv, PluginTypes
<1> QED
  BY <1>1, <1>2 DEF PluginInv

LEMMA PluginNext == PluginInv /\ [Plugins!Next]_(Plugins!vars) => PluginInv'
<1> SUFFICES ASSUME PluginInv, [Plugins!Next]_(Plugins!vars) PROVE PluginInv'
  OBVIOUS
<1>0. /\ proc = [i \in Proc |-> proc[i]] /\ reader = [i \in Proc |-> reader[i]] /\ DOMAIN reported = Proc
      /\ \A i \in Proc : DOMAIN proc[i] = ProcFields /\ DOMAIN reader[i] = ReaderFields
      /\ DOMAIN run = {"id", "at", "began"} /\ (run.at # "idle" => run.id \in Proc)
      /\ Earned
  BY DEF PluginInv, PluginTypes
<1>1. CASE Plugins!Start
  <2>1. PICK i \in Plugins!Unused, spawn \in 0..1 :
          \/ /\ run' = [id |-> i, at |-> "wait", began |-> spawn]
             /\ proc' = [proc EXCEPT ![i].alive = TRUE]
             /\ reader' = [reader EXCEPT ![i].at = "on"]
             /\ UNCHANGED reported
          \/ /\ reported' = [reported EXCEPT ![i] = "failed"]
             /\ UNCHANGED <<run, proc, reader>>
    BY <1>1 DEF Plugins!Start
  <2>2. i \in Proc /\ reported[i] = "none" /\ run.at = "idle"
    BY <1>1 DEF Plugins!Unused, Plugins!Start
  <2>3. CASE run' # run
    <3>1. /\ run' = [id |-> i, at |-> "wait", began |-> spawn] /\ UNCHANGED reported
          /\ proc' = [proc EXCEPT ![i].alive = TRUE] /\ reader' = [reader EXCEPT ![i].at = "on"]
      BY <2>1, <2>3
    <3>2. Earned'
      BY <1>0, <2>2, <3>1 DEF Earned
    <3> QED
      BY <1>0, <2>2, <3>1, <3>2, LinesStay DEF ProcFields, ReaderFields
  <2>4. CASE run' = run
    <3>1. /\ reported' = [reported EXCEPT ![i] = "failed"] /\ UNCHANGED <<proc, reader>>
      BY <2>1, <2>2, <2>4
    <3>2. Earned'
      BY <1>0, <2>2, <2>4, <3>1 DEF Earned
    <3> QED
      BY <1>0, <2>2, <2>4, <3>1, <3>2, LinesStay
  <2> QED
    BY <2>3, <2>4
<1>2. ASSUME NEW outcome \in {"timeout", "stopped"}, Plugins!Cut(outcome) PROVE PluginInv'
  BY <1>0, <1>2, LinesStay DEF Plugins!Cut, Plugins!Ends, Plugins!NoRun, Earned, ReaderFields
<1>3. CASE Plugins!OwnDeadline \/ Plugins!Reaped \/ Plugins!Drained \/ Plugins!Wait \/ UNCHANGED Plugins!vars
  <2>1. /\ UNCHANGED <<proc, reader, reported>> /\ DOMAIN run' = {"id", "at", "began"} /\ run'.id = run.id
        /\ run'.at # "idle" => run.at # "idle"
        /\ run'.at \in {"drain", "stderr"} => run.at \in {"drain", "stderr"} \/ ~proc[run.id].alive
    <3>1. CASE Plugins!OwnDeadline \/ Plugins!Drained
      BY <1>0, <3>1 DEF Plugins!OwnDeadline, Plugins!Drained
    <3>2. CASE Plugins!Reaped
      BY <1>0, <3>2 DEF Plugins!Reaped
    <3>3. CASE Plugins!Wait \/ UNCHANGED Plugins!vars
      BY <1>0, <3>3 DEF Plugins!Wait, Plugins!vars
    <3> QED
      BY <1>3, <3>1, <3>2, <3>3
  <2>2. Earned'
    BY <1>0, <2>1 DEF Earned
  <2> QED
    BY <1>0, <2>1, <2>2, LinesStay
<1>4. CASE Plugins!Kill
  BY <1>0, <1>4, LinesStay, ZenonT(30) DEF Plugins!Kill, Earned, ProcFields
<1>5. CASE Plugins!DrainTimeout
  BY <1>0, <1>5, LinesStay, ZenonT(30) DEF Plugins!DrainTimeout, Earned, ReaderFields
<1>6. CASE Plugins!Return
  BY <1>0, <1>6, LinesStay DEF Plugins!Return, Plugins!Ends, Plugins!NoRun, Plugins!Outcome, Earned
<1>7. CASE Plugins!Restart
  BY <1>0, <1>7, LinesStay DEF Plugins!Restart, Earned, ReaderFields
<1>8. ASSUME NEW i \in Proc, Plugins!ReadLine(i) PROVE PluginInv'
  <2>1. /\ UNCHANGED <<run, proc, reported>> /\ reader[i].at = "on"
        /\ reader' = [reader EXCEPT ![i] = reader'[i]] /\ DOMAIN reader'[i] = ReaderFields
        /\ reader'[i].read = reader[i].read + 1 /\ reader'[i].read <= Len(proc[i].wrote)
        /\ Recorded(i)'
    BY <1>8, ReadLineRecords DEF Plugins!ReadLine
  <2>2. reader' = [j \in Proc |-> reader'[j]] /\ \A j \in Proc : j # i => reader'[j] = reader[j]
    BY <1>0, <2>1
  <2>4. reader'[i].read \in Nat
    BY <2>1 DEF PluginInv, PluginTypes
  <2>5. PluginTypes'
    BY <2>1, <2>2, <2>4 DEF PluginInv, PluginTypes
  <2>6. Earned'
    BY <1>0, <2>1, <2>2 DEF Earned
  <2>3. ASSUME NEW j \in Proc, j # i PROVE Recorded(j)'
    <3>1. reader'[j] = reader[j] /\ proc'[j] = proc[j] /\ reader[j].read \in Nat /\ PluginTypes /\ Recorded(j)
      BY <1>0, <2>1, <2>2, <2>3 DEF PluginInv, PluginTypes
    <3> QED
      BY <3>1, RecordedStays
  <2> QED
    BY <2>1, <2>3, <2>5, <2>6 DEF PluginInv
<1>9. ASSUME NEW i \in Proc, Plugins!ProcessWrites(i) PROVE PluginInv'
  <2>1. PICK line \in Plugins!Line : proc' = [proc EXCEPT ![i].wrote = Append(@, line)]
    BY <1>9 DEF Plugins!ProcessWrites
  <2>2. /\ UNCHANGED <<run, reader, reported>> /\ line \in Plugins!Line
        /\ \A j \in Proc : /\ DOMAIN proc'[j] = ProcFields
                           /\ proc'[j].alive = proc[j].alive /\ proc'[j].code = proc[j].code
                           /\ proc'[j].wrote = IF j = i THEN Append(proc[j].wrote, line) ELSE proc[j].wrote
    BY <1>0, <1>9, <2>1 DEF Plugins!ProcessWrites, ProcFields
  <2>3. ASSUME NEW j \in Proc
        PROVE  /\ Len(proc'[j].wrote) >= Len(proc[j].wrote) /\ proc'[j].wrote \in Seq(Plugins!Line)
               /\ \A k \in 1..Len(proc[j].wrote) : proc'[j].wrote[k] = proc[j].wrote[k]
               /\ reader[j].read \in Nat /\ reader[j].read <= Len(proc[j].wrote) /\ Len(proc[j].wrote) \in Nat
    <3>1. proc[j].wrote \in Seq(Plugins!Line) /\ reader[j].read \in Nat /\ reader[j].read <= Len(proc[j].wrote)
      BY DEF PluginInv, PluginTypes
    <3>2. CASE j = i
      <4>1. \A w \in Seq(Plugins!Line) :
              /\ Append(w, line) \in Seq(Plugins!Line) /\ Len(w) \in Nat /\ Len(Append(w, line)) = Len(w) + 1
              /\ \A k \in 1..Len(w) : Append(w, line)[k] = w[k]
        BY <2>2
      <4>2. proc'[j].wrote = Append(proc[j].wrote, line)
        BY <2>2, <3>2
      <4> QED
        BY <3>1, <4>1, <4>2
    <3>3. CASE j # i
      BY <2>2, <3>1, <3>3
    <3> QED
      BY <3>2, <3>3
  <2>4. ASSUME NEW j \in Proc PROVE Recorded(j)'
    <3>1. PluginTypes /\ Recorded(j) /\ reader' = reader
          /\ \A k \in 1..reader[j].read : proc'[j].wrote[k] = proc[j].wrote[k]
      BY <2>2, <2>3 DEF PluginInv
    <3> QED
      BY <2>3, <3>1, RecordedStays
  <2>5. PluginTypes'
    <3>1. proc' = [j \in Proc |-> proc'[j]]
      BY <1>0, <2>1
    <3> QED
      BY <1>0, <2>2, <2>3, <3>1 DEF PluginInv, PluginTypes
  <2>6. Earned'
    BY <1>0, <2>2 DEF Earned
  <2> QED
    BY <2>4, <2>5, <2>6 DEF PluginInv
<1>10. ASSUME NEW i \in Proc, Plugins!EndOfOutput(i) PROVE PluginInv'
  BY <1>0, <1>10, LinesStay DEF Plugins!EndOfOutput, Earned, ReaderFields
<1>11. ASSUME NEW i \in Proc, Plugins!ProcessExits(i) \/ Plugins!DescendantExits(i) PROVE PluginInv'
  <2>1. /\ UNCHANGED <<run, reader, reported>> /\ proc' = [j \in Proc |-> proc'[j]]
        /\ \A j \in Proc : /\ DOMAIN proc'[j] = ProcFields /\ proc'[j].wrote = proc[j].wrote
                           /\ ~proc[j].alive => ~proc'[j].alive /\ proc'[j].code = proc[j].code
    <3>1. CASE Plugins!ProcessExits(i)
      <4>1. PICK code \in 0..1, held \in BOOLEAN :
              proc' = [proc EXCEPT ![i] = [@ EXCEPT !.alive = FALSE, !.code = code, !.held = held]]
        BY <3>1 DEF Plugins!ProcessExits
      <4>2. UNCHANGED <<run, reader, reported>> /\ proc[i].alive
        BY <3>1 DEF Plugins!ProcessExits
      <4> QED
        BY <1>0, <4>1, <4>2 DEF ProcFields
    <3>2. CASE Plugins!DescendantExits(i)
      BY <1>0, <3>2 DEF Plugins!DescendantExits, ProcFields
    <3> QED
      BY <1>11, <3>1, <3>2
  <2>2. Earned'
    BY <1>0, <2>1 DEF Earned
  <2> QED
    BY <1>0, <2>1, <2>2, LinesStay
<1> QED
  BY <1>1, <1>2, <1>3, <1>4, <1>5, <1>6, <1>7, <1>8, <1>9, <1>10, <1>11
  DEF Plugins!Next, Plugins!SchedulerDeadline, Plugins!Stop

\* A plugin's run is reported ok only if its process said so and exited with 0, and
\* every metric before that is recorded (run_subprocess, _drain_stdout).
THEOREM SuccessesAreEarned == MCSpec => []SuccessIsEarned
<1>1. MCInit => PluginInv
  BY PluginInit DEF MCInit
<1>2. PluginInv /\ [MCNext]_allVars => PluginInv'
  <2> SUFFICES ASSUME PluginInv, [MCNext]_allVars PROVE [Plugins!Next]_(Plugins!vars)
    BY PluginNext
  <2> QED
    BY DEF MCNext, allVars, pluginVars, Plugins!vars
<1>3. PluginInv => SuccessIsEarned
  <2> SUFFICES ASSUME PluginInv, NEW i \in Proc, reported[i] = "ok"
               PROVE  /\ ~proc[i].alive /\ proc[i].code = 0
                      /\ \E n \in DOMAIN proc[i].wrote :
                           /\ proc[i].wrote[n] = "ok"
                           /\ \A k \in 1..(n - 1) : proc[i].wrote[k] \notin Plugins!Results
                           /\ reader[i].metrics = Plugins!MetricsOf(i, n - 1)
    BY DEF SuccessIsEarned, Plugins!SuccessIsEarned
  <2>1. /\ ~proc[i].alive /\ proc[i].code = 0 /\ reader[i].result = "ok"
        /\ proc[i].wrote \in Seq(Plugins!Line) /\ reader[i].read \in Nat /\ reader[i].read <= Len(proc[i].wrote)
        /\ Recorded(i)
    BY DEF PluginInv, PluginTypes, Earned
  <2>2. PICK n \in 1..reader[i].read : /\ proc[i].wrote[n] = "ok"
                                       /\ \A k \in 1..(n - 1) : proc[i].wrote[k] \notin Plugins!Results
                                       /\ reader[i].metrics = Plugins!MetricsOf(i, n - 1)
    BY <2>1 DEF Recorded
  <2>3. n \in DOMAIN proc[i].wrote
    BY <2>1, <2>2
  <2> QED
    BY <2>1, <2>2, <2>3
<1> QED
  BY <1>1, <1>2, <1>3, PTL DEF MCSpec

----------------------------------------------------------------------------
(* Pages of log lines (LogPages).  What was shown is exactly what the       *)
(* cursor says: the lines from its instant on, n of them at it; at first    *)
(* nothing is.                                                              *)

PageTypes ==
    /\ at \in [LogLine -> Nat] /\ \A l \in LogLine : at[l] <= MaxInstant
    /\ pageSize \in Nat \ {0}
    /\ cursor.t \in Nat /\ cursor.n \in Nat /\ DOMAIN cursor = {"t", "n", "more"}

AtInstant(i) == {l \in LogLine : at[l] = i}

Unread == cursor.t = MaxInstant /\ cursor.n = 0 /\ shown = [l \in LogLine |-> 0]

Read ==
    /\ cursor.n = Cardinality(AtInstant(cursor.t))
    /\ shown = [l \in LogLine |-> IF at[l] >= cursor.t THEN 1 ELSE 0]

PagesInv == /\ PageTypes /\ (Unread \/ Read)
            /\ ~cursor.more => \A l \in LogLine : shown[l] = 1

LEMMA PagesConstants ==
  /\ IsFiniteSet(LogLine) /\ MaxInstant \in Nat /\ MaxPageSize \in Nat
  /\ \A S : Pages!Cardinality(S) = Cardinality(S)
<1>1. \A S : Pages!Cardinality(S) = Cardinality(S)
  BY Zenon DEF Pages!Cardinality, Cardinality
<1> QED
  BY <1>1, PagesBounds DEF Pages!PagesAssumption, Pages!IsFiniteSet, IsFiniteSet

LEMMA PagesFinite ==
  ASSUME NEW S, S \subseteq LogLine
  PROVE  IsFiniteSet(S) /\ Cardinality(S) \in Nat
BY PagesConstants, FS_Subset, FS_CardinalityType

LEMMA PageInit == Pages!Init => PagesInv
<1> SUFFICES ASSUME Pages!Init PROVE PagesInv
  OBVIOUS
<1>1. PageTypes
  BY PagesConstants DEF Pages!Init, PageTypes
<1>2. Unread /\ cursor.more
  BY DEF Pages!Init, Unread
<1> QED
  BY <1>1, <1>2 DEF PagesInv

LEMMA LeastExists ==
  ASSUME NEW S \in SUBSET Nat, S # {}
  PROVE  \E x \in S : \A y \in S : x <= y
<1> DEFINE R == OpToRel(<, Nat)
<1>1. \A x, y \in Nat : <<y, x>> \in R <=> y < x
  BY DEF OpToRel
<1>2. IsWellFoundedOn(R, Nat)
  BY NatLessThanWellFounded
<1> HIDE DEF R
<1>3. \E x \in S : \A y \in S : ~(<<y, x>> \in R)
  BY <1>2, WFMin
<1>4. PICK x \in S : \A y \in S : ~(<<y, x>> \in R)
  BY <1>3
<1>5. ASSUME NEW y \in S PROVE x <= y
  <2>1. x \in Nat /\ y \in Nat
    OBVIOUS
  <2>2. ~(y < x)
    BY <1>1, <1>4, <2>1, Zenon
  <2> QED
    BY <2>1, <2>2
<1> QED
  BY <1>5

\* The newest lines of S include those of E that are newer than the others of S.
LEMMA NewestHas ==
  ASSUME at \in [LogLine -> Nat], NEW S, S \subseteq LogLine, NEW E, E \subseteq S,
         \A l \in E, k \in S \ E : at[l] > at[k],
         NEW limit \in Nat, Cardinality(E) <= limit, NEW f \in Pages!Newest(S, limit)
  PROVE  E \subseteq f /\ (Cardinality(E) = limit => f = E)
<1>1. /\ f \subseteq S /\ Cardinality(f) <= limit /\ (f = S \/ Cardinality(f) = limit)
      /\ \A l \in f, k \in S \ f : at[l] >= at[k]
  BY PagesConstants DEF Pages!Newest
<1>2. /\ IsFiniteSet(f) /\ Cardinality(f) \in Nat /\ IsFiniteSet(E) /\ Cardinality(E) \in Nat
  BY <1>1, PagesFinite
<1>3. E \subseteq f
  <2> SUFFICES ASSUME NEW e \in E, e \notin f PROVE FALSE
    OBVIOUS
  <2>1. ASSUME NEW l \in f PROVE l \in E
    <3> SUFFICES ASSUME l \notin E PROVE FALSE
      OBVIOUS
    <3>1. at[e] > at[l] /\ at[l] >= at[e]
      BY <1>1
    <3>2. at[e] \in Nat /\ at[l] \in Nat
      BY <1>1
    <3> QED
      BY <3>1, <3>2
  <2>2. Cardinality(f) = limit /\ f \in SUBSET E
    BY <1>1, <2>1
  <2>3. Cardinality(f) <= Cardinality(E) /\ (Cardinality(E) = Cardinality(f) => E = f)
    BY <1>2, <2>2, FS_Subset
  <2> QED
    BY <1>2, <2>2, <2>3
<1>4. ASSUME Cardinality(E) = limit PROVE f = E
  <2>1. Cardinality(E) <= Cardinality(f) /\ (Cardinality(f) = Cardinality(E) => f = E)
    BY <1>2, <1>3, FS_Subset
  <2> QED
    BY <1>1, <1>2, <1>4, <2>1
<1> QED
  BY <1>3, <1>4

\* What the cursor says was shown, and the rest of its window.
LEMMA ReadFacts ==
  ASSUME PagesInv
  PROVE  LET W == {l \in LogLine : at[l] <= cursor.t}
             E == {l \in W : shown[l] = 1} IN
         /\ Cardinality(E) = cursor.n
         /\ \A l \in E, k \in W \ E : at[l] > at[k]
         /\ \A l \in LogLine : shown[l] = 1 <=> l \notin W \ E
         /\ \A l \in LogLine : shown[l] \in {0, 1}
         /\ DOMAIN shown = LogLine
         /\ \A i \in Nat : Cardinality({l \in W \ E : at[l] = i}) + (IF i = cursor.t THEN cursor.n ELSE 0)
                           = Cardinality(AtInstant(i)) \/ ~ \E l \in W \ E : at[l] = i
<1> DEFINE W == {l \in LogLine : at[l] <= cursor.t}
           E == {l \in W : shown[l] = 1}
<1>1. at \in [LogLine -> Nat] /\ cursor.t \in Nat /\ MaxInstant \in Nat /\ \A l \in LogLine : at[l] <= MaxInstant
  BY PagesConstants DEF PagesInv, PageTypes
<1>2. CASE Unread
  <2>1. W = LogLine /\ E = {} /\ cursor.n = 0
    BY <1>1, <1>2 DEF Unread
  <2>2. ASSUME NEW i \in Nat
        PROVE  Cardinality({l \in W \ E : at[l] = i}) + (IF i = cursor.t THEN cursor.n ELSE 0) = Cardinality(AtInstant(i))
    <3>1. {l \in W \ E : at[l] = i} = AtInstant(i)
      BY <2>1 DEF AtInstant
    <3>2. Cardinality(AtInstant(i)) \in Nat
      BY PagesFinite DEF AtInstant
    <3> QED
      BY <2>1, <3>1, <3>2
  <2>3. Cardinality(E) = 0
    BY <2>1, FS_EmptySet
  <2> QED
    BY <1>2, <2>1, <2>2, <2>3 DEF Unread
<1>3. CASE Read
  <2>1. /\ E = AtInstant(cursor.t) /\ cursor.n = Cardinality(E)
        /\ \A l \in LogLine : at[l] \in Nat /\ (l \in W \ E <=> at[l] < cursor.t)
    BY <1>1, <1>3 DEF Read, AtInstant
  <2>2. ASSUME NEW i \in Nat, NEW k \in W \ E, at[k] = i
        PROVE  Cardinality({l \in W \ E : at[l] = i}) + (IF i = cursor.t THEN cursor.n ELSE 0) = Cardinality(AtInstant(i))
    <3>1. i < cursor.t
      BY <2>1, <2>2
    <3>2. {l \in W \ E : at[l] = i} = AtInstant(i)
      BY <1>1, <2>1, <3>1 DEF AtInstant
    <3>3. Cardinality(AtInstant(i)) \in Nat
      BY PagesFinite DEF AtInstant
    <3> QED
      BY <1>1, <3>1, <3>2, <3>3
  <2>3. \A l \in E, k \in W \ E : at[l] > at[k]
    BY <1>1, <2>1 DEF AtInstant
  <2>4. /\ \A l \in LogLine : shown[l] = 1 <=> l \notin W \ E
        /\ \A l \in LogLine : shown[l] \in {0, 1}
        /\ DOMAIN shown = LogLine
    BY <1>1, <1>3, <2>1 DEF Read
  <2> QED
    BY <2>1, <2>2, <2>3, <2>4
<1> QED
  BY <1>2, <1>3 DEF PagesInv

LEMMA PageNext == ASSUME PagesInv, [Pages!Next]_pageVars PROVE PagesInv'
<1> SUFFICES ASSUME Pages!LoadOlder PROVE PagesInv'
  BY DEF Pages!Next, pageVars, PagesInv, PageTypes, Unread, Read, AtInstant
<1> DEFINE W == {l \in LogLine : at[l] <= cursor.t}
           E == {l \in W : shown[l] = 1}
           limit == pageSize + cursor.n
<1>1. PICK hits \in Pages!Newest(W, limit) : \E seen \in Pages!Newest(hits, cursor.n) :
         LET rest == hits \ seen
             oldest == Pages!Min({at[l] : l \in rest})
             page == IF Pages!Cardinality(hits) >= limit THEN Pages!Completed(rest, oldest) ELSE rest IN
         IF rest = {}
         THEN cursor' = Pages!NoOlder /\ UNCHANGED shown
         ELSE /\ shown' = [l \in LogLine |-> IF l \in page /\ shown[l] < 2 THEN shown[l] + 1 ELSE shown[l]]
              /\ cursor' = [t |-> oldest, n |-> Pages!NewCount(page, oldest), more |-> Pages!Cardinality(W) > limit]
  BY DEF Pages!LoadOlder
<1>2. PICK seen \in Pages!Newest(hits, cursor.n) :
         LET rest == hits \ seen
             oldest == Pages!Min({at[l] : l \in rest})
             page == IF Pages!Cardinality(hits) >= limit THEN Pages!Completed(rest, oldest) ELSE rest IN
         IF rest = {}
         THEN cursor' = Pages!NoOlder /\ UNCHANGED shown
         ELSE /\ shown' = [l \in LogLine |-> IF l \in page /\ shown[l] < 2 THEN shown[l] + 1 ELSE shown[l]]
              /\ cursor' = [t |-> oldest, n |-> Pages!NewCount(page, oldest), more |-> Pages!Cardinality(W) > limit]
  BY <1>1
<1>3. /\ at \in [LogLine -> Nat] /\ cursor.t \in Nat /\ cursor.n \in Nat /\ pageSize \in Nat \ {0} /\ limit \in Nat
      /\ limit > cursor.n
      /\ \A l \in LogLine : at[l] <= MaxInstant /\ at[l] \in Nat
      /\ W \subseteq LogLine /\ E \subseteq W
      /\ DOMAIN cursor = {"t", "n", "more"}
  BY DEF PagesInv, PageTypes
<1>4. UNCHANGED <<at, pageSize>>
  BY DEF Pages!LoadOlder
<1>5. /\ Cardinality(E) = cursor.n
      /\ \A l \in E, k \in W \ E : at[l] > at[k]
      /\ \A l \in LogLine : shown[l] = 1 <=> l \notin W \ E
      /\ \A l \in LogLine : shown[l] \in {0, 1}
      /\ DOMAIN shown = LogLine
      /\ \A i \in Nat : Cardinality({l \in W \ E : at[l] = i}) + (IF i = cursor.t THEN cursor.n ELSE 0)
                        = Cardinality(AtInstant(i)) \/ ~ \E l \in W \ E : at[l] = i
  BY ReadFacts
<1> HIDE DEF limit, E
<1>6. /\ hits \subseteq W /\ Cardinality(hits) <= limit /\ (hits = W \/ Cardinality(hits) = limit)
      /\ \A l \in hits, k \in W \ hits : at[l] >= at[k]
  BY PagesConstants DEF Pages!Newest
<1>7. E \subseteq hits
  <2>1. Cardinality(E) <= limit
    BY <1>3, <1>5
  <2> QED
    BY <1>3, <1>5, <2>1, NewestHas
<1>8. seen = E
  <2>1. /\ hits \subseteq LogLine
        /\ \A l \in E, k \in hits \ E : at[l] > at[k]
        /\ Cardinality(E) <= cursor.n
    BY <1>3, <1>5, <1>6
  <2>2. at \in [LogLine -> Nat] /\ cursor.n \in Nat /\ Cardinality(E) = cursor.n
    BY <1>3, <1>5
  <2> QED
    BY <1>7, <2>1, <2>2, NewestHas
<1>9. CASE hits \ E = {}
  <2>1. hits = E /\ cursor' = Pages!NoOlder /\ shown' = shown
    BY <1>2, <1>7, <1>8, <1>9
  <2>2. hits = W
    BY <1>3, <1>5, <1>6, <2>1
  <2>3. \A l \in LogLine : shown[l] = 1
    BY <1>5, <2>1, <2>2
  <2>4. cursor'.t = cursor.t /\ cursor'.n = cursor.n /\ DOMAIN cursor' = {"t", "n", "more"}
    BY <1>3, <2>1 DEF Pages!NoOlder
  <2>5. PageTypes'
    BY <1>4, <2>4 DEF PagesInv, PageTypes
  <2>6. (Unread \/ Read)'
    <3>1. UNCHANGED <<at, shown>> /\ cursor'.t = cursor.t /\ cursor'.n = cursor.n
      BY <1>4, <2>1, <2>4
    <3>2. Unread => Unread'
      BY <3>1 DEF Unread
    <3>3. Read => Read'
      BY <3>1 DEF Read, AtInstant
    <3> QED
      BY <3>2, <3>3 DEF PagesInv
  <2> QED
    BY <2>1, <2>3, <2>5, <2>6 DEF PagesInv
<1>10. CASE hits \ E # {}
  <2> DEFINE rest == hits \ E
             oldest == Pages!Min({at[l] : l \in rest})
             page == IF Pages!Cardinality(hits) >= limit THEN Pages!Completed(rest, oldest) ELSE rest
             New == {l \in W \ E : at[l] >= oldest}
  <2>1. oldest \in {at[l] : l \in rest} /\ \A l \in rest : at[l] >= oldest
    <3> DEFINE S == {at[l] : l \in rest}
    <3>1. S \in SUBSET Nat /\ S # {}
      BY <1>3, <1>6, <1>10
    <3>2. \E x \in S : \A y \in S : x <= y
      BY <3>1, LeastExists
    <3>3. oldest = CHOOSE x \in S : \A y \in S : x <= y
      BY DEF Pages!Min
    <3> HIDE DEF oldest
    <3>4. oldest \in S /\ \A y \in S : oldest <= y
      BY <3>2, <3>3, Zenon
    <3>5. ASSUME NEW l \in rest PROVE at[l] >= oldest
      <4>1. at[l] \in S /\ at[l] \in Nat /\ oldest \in Nat
        BY <1>3, <1>6, <3>1, <3>4
      <4> QED
        BY <3>4, <4>1
    <3> QED
      BY <3>4, <3>5
  <2>2. /\ shown' = [l \in LogLine |-> IF l \in page /\ shown[l] < 2 THEN shown[l] + 1 ELSE shown[l]]
        /\ cursor' = [t |-> oldest, n |-> Pages!NewCount(page, oldest), more |-> Pages!Cardinality(W) > limit]
    BY <1>2, <1>8, <1>10
  <2> HIDE DEF oldest
  <2>3. PICK k \in rest : at[k] = oldest
    BY <2>1
  <2>4. k \in W \ E /\ oldest \in Nat /\ oldest <= cursor.t
    BY <1>3, <1>6, <2>3
  <2>5. \A l \in W \ hits : at[l] <= oldest
    BY <1>3, <1>6, <2>3
  <2>6. page = New
    <3>1. CASE Cardinality(hits) >= limit
      <4>1. page = {l \in rest : at[l] > oldest} \cup {l \in LogLine : at[l] = oldest}
        BY <3>1, PagesConstants DEF Pages!Completed
      <4>2. ASSUME NEW l \in LogLine, at[l] = oldest PROVE l \in W \ E
        <5>1. l \in W
          BY <1>3, <2>4, <4>2
        <5> QED
          BY <1>3, <1>5, <2>3, <2>4, <4>2, <5>1
      <4>3. ASSUME NEW l \in W \ E, at[l] > oldest PROVE l \in rest
        BY <1>3, <2>4, <2>5, <4>3
      <4>4. ASSUME NEW l \in page PROVE l \in New
        <5>1. CASE l \in rest /\ at[l] > oldest
          <6>1. l \in W \ E /\ at[l] \in Nat
            BY <1>3, <1>6, <5>1
          <6> QED
            BY <2>4, <5>1, <6>1
        <5>2. CASE l \in LogLine /\ at[l] = oldest
          BY <2>4, <4>2, <5>2
        <5> QED
          BY <4>1, <4>4, <5>1, <5>2
      <4>5. ASSUME NEW l \in New PROVE l \in page
        BY <1>3, <2>4, <4>1, <4>3, <4>5
      <4> QED
        BY <4>4, <4>5
    <3>2. CASE ~(Cardinality(hits) >= limit)
      <4>1. page = rest
        BY <3>2, PagesConstants
      <4>2. hits = W
        <5>1. Cardinality(hits) \in Nat
          BY <1>3, <1>6, PagesFinite
        <5> QED
          BY <1>3, <1>6, <3>2, <5>1
      <4> QED
        BY <2>1, <4>1, <4>2
    <3> QED
      BY <3>1, <3>2
  <2> HIDE DEF page
  <2>7. cursor'.t = oldest /\ cursor'.n = Cardinality(AtInstant(oldest)) /\ DOMAIN cursor' = {"t", "n", "more"}
        /\ cursor'.more = (Cardinality(W) > limit)
    <3>1. {l \in page : at[l] = oldest} = {l \in W \ E : at[l] = oldest}
      BY <1>3, <2>4, <2>6
    <3>2. Pages!NewCount(page, oldest)
            = Cardinality({l \in page : at[l] = oldest}) + (IF oldest = cursor.t THEN cursor.n ELSE 0)
      BY PagesConstants DEF Pages!NewCount
    <3>3. Pages!NewCount(page, oldest) = Cardinality(AtInstant(oldest))
      BY <1>5, <2>3, <2>4, <3>1, <3>2
    <3> QED
      BY <2>2, <3>3, PagesConstants
  <2>8. \A l \in LogLine : shown'[l] = IF at[l] >= oldest THEN 1 ELSE 0
    <3> SUFFICES ASSUME NEW l \in LogLine PROVE shown'[l] = IF at[l] >= oldest THEN 1 ELSE 0
      OBVIOUS
    <3>1. CASE l \in W \ E
      <4>1. shown[l] = 0
        BY <1>5, <3>1
      <4> QED
        BY <2>2, <2>6, <3>1, <4>1
    <3>2. CASE l \notin W \ E
      <4>1. shown[l] = 1
        BY <1>5, <3>2
      <4>2. at[l] >= oldest
        <5>1. CASE l \in E
          BY <1>3, <1>5, <2>3, <2>4, <5>1
        <5>2. CASE l \notin W
          BY <1>3, <2>4, <5>2
        <5> QED
          BY <3>2, <5>1, <5>2
      <4> QED
        BY <2>2, <2>6, <3>2, <4>1, <4>2
    <3> QED
      BY <3>1, <3>2
  <2>9. PageTypes'
    <3>1. Cardinality(AtInstant(oldest)) \in Nat
      BY PagesFinite DEF AtInstant
    <3> QED
      BY <1>4, <2>4, <2>7, <3>1 DEF PagesInv, PageTypes
  <2>10. Read'
    <3>1. shown' = [l \in LogLine |-> shown'[l]]
      BY <2>2
    <3>2. shown' = [l \in LogLine |-> IF at[l] >= oldest THEN 1 ELSE 0]
      BY <2>8, <3>1
    <3> QED
      BY <1>4, <2>7, <3>2 DEF Read, AtInstant
  <2>11. ASSUME ~cursor'.more, NEW l \in LogLine PROVE shown'[l] = 1
    <3>1. Cardinality(W) \in Nat /\ IsFiniteSet(W) /\ Cardinality(hits) \in Nat
      BY <1>3, <1>6, PagesFinite
    <3>2. Cardinality(W) <= limit
      <4>1. ~(Cardinality(W) > limit)
        BY <2>7, <2>11, Zenon
      <4> QED
        BY <1>3, <3>1, <4>1
    <3>3. hits = W
      <4>1. Cardinality(hits) <= Cardinality(W) /\ (Cardinality(W) = Cardinality(hits) => W = hits)
        BY <1>6, <3>1, FS_Subset
      <4> QED
        BY <1>3, <1>6, <3>1, <3>2, <4>1
    <3>4. CASE l \in W \ E
      BY <2>1, <2>8, <3>3, <3>4
    <3>5. CASE l \notin W \ E
      <4>1. shown[l] = 1
        BY <1>5, <3>5
      <4> QED
        BY <2>2, <2>6, <3>5, <4>1
    <3> QED
      BY <3>4, <3>5
  <2> QED
    BY <2>9, <2>10, <2>11 DEF PagesInv
<1> QED
  BY <1>9, <1>10

LEMMA PagesSound == ASSUME PagesInv PROVE Pages!PagesAreExact
<1>1. \A l \in LogLine : shown[l] <= 1
  BY DEF PagesInv, Unread, Read
<1> QED
  BY <1>1 DEF PagesInv, Pages!PagesAreExact

----------------------------------------------------------------------------
(* The live tail (LiveTail).  The cursor is an instant and a number of its   *)
(* lines.  While no answer was cut, the lines before the cursor are the ones *)
(* that a poll has seen; at an instant of which none left a line out, the    *)
(* lines shown are among the first that the cursor counts.                   *)

SessionFields == {"started", "last", "n", "shown", "dropped", "seen", "cut", "errors", "window", "emitted"}

\* The lines of an instant in the log lg, and how many of them are before line k.
OfInstant(lg, t) == {j \in 1..Len(lg) : lg[j] = t}
Rank(lg, k) == Cardinality({j \in 1..Len(lg) : lg[j] = lg[k] /\ j < k})

\* The lines of a session: those that a poll has seen, since its start; and those before
\* its cursor.
Since(lg, s) == {k \in 1..s.seen : lg[k] >= s.started}
BeforeCursor(lg, s) ==
    {k \in 1..Len(lg) : lg[k] >= s.started /\ (lg[k] < s.last \/ (lg[k] = s.last /\ Rank(lg, k) < s.n))}

SessionRow(s) ==
    /\ DOMAIN s = SessionFields
    /\ s.started \in Nat /\ s.last \in Nat /\ s.n \in Nat /\ s.dropped \in Nat /\ s.seen \in Nat
    /\ s.emitted \in Nat /\ s.shown \in Seq(Nat)

CursorOK(lg, t, s) ==
    /\ s.started <= s.last /\ s.last <= t /\ s.seen <= Len(lg)
    /\ s.n <= Cardinality(OfInstant(lg, s.last))

ShownOK(lg, s) ==
    /\ \A k \in DOMAIN s.shown : s.shown[k] \in Since(lg, s) /\ lg[s.shown[k]] <= s.last
    /\ \A j, k \in DOMAIN s.shown : j < k =>
         /\ lg[s.shown[j]] <= lg[s.shown[k]]
         /\ lg[s.shown[j]] \notin s.cut => s.shown[j] < s.shown[k]
    /\ s.last \notin s.cut =>
         \A k \in DOMAIN s.shown : lg[s.shown[k]] = s.last => Rank(lg, s.shown[k]) < s.n

CountedOK(lg, s) ==
    s.cut = {} => /\ BeforeCursor(lg, s) = Since(lg, s)
                  /\ Len(s.shown) + s.dropped = Cardinality(Since(lg, s))

SessionOK(lg, t, s) == SessionRow(s) /\ CursorOK(lg, t, s) /\ ShownOK(lg, s) /\ CountedOK(lg, s)

LogOK ==
    /\ tailNow \in Nat /\ log \in Seq(Nat)
    /\ \A k \in 1..Len(log) : log[k] <= tailNow
    /\ \A j, k \in 1..Len(log) : j < k => log[j] <= log[k]

ReqsOK ==
    /\ DOMAIN req = Req /\ DOMAIN session = Req
    /\ \A i \in Req : DOMAIN req[i] = {"kind", "at", "gone"}

Followed(i) == req[i].at = "streaming" => SessionOK(log, tailNow, session[i])

TailInv == LogOK /\ ReqsOK /\ \A i \in Req : Followed(i)

LEMMA FollowingCardinality == \A S : Following!Cardinality(S) = Cardinality(S)
BY Zenon DEF Following!Cardinality, Cardinality

LEMMA PartOfLog ==
  ASSUME NEW n \in Nat, NEW S, S \subseteq 1..n
  PROVE  IsFiniteSet(S) /\ Cardinality(S) \in Nat
<1>1. IsFiniteSet(1..n)
  BY FS_Interval
<1> QED
  BY <1>1, FS_Subset, FS_CardinalityType

LEMMA JoinFacts ==
  ASSUME NEW u \in Seq(Nat), NEW v \in Seq(Nat)
  PROVE  /\ Len(u) \in Nat /\ Len(v) \in Nat /\ DOMAIN u = 1..Len(u)
         /\ DOMAIN (u \o v) = 1..(Len(u) + Len(v)) /\ Len(u \o v) = Len(u) + Len(v) /\ u \o v \in Seq(Nat)
         /\ \A k \in 1..(Len(u) + Len(v)) : (u \o v)[k] = IF k <= Len(u) THEN u[k] ELSE v[k - Len(u)]
OBVIOUS

\* A later line of an instant has a greater rank, and every line of an instant a smaller
\* one than there are lines of it.
LEMMA RankFacts ==
  ASSUME NEW lg, Len(lg) \in Nat
  PROVE  /\ \A k : Rank(lg, k) \in Nat
         /\ \A t : Cardinality(OfInstant(lg, t)) \in Nat
         /\ \A k \in 1..Len(lg) : Rank(lg, k) < Cardinality(OfInstant(lg, lg[k]))
         /\ \A j, k \in 1..Len(lg) : lg[j] = lg[k] /\ j <= k => Rank(lg, j) <= Rank(lg, k)
<1> DEFINE N == Len(lg)
           B(k) == {j \in 1..N : lg[j] = lg[k] /\ j < k}
<1>1. ASSUME NEW k PROVE IsFiniteSet(B(k)) /\ Cardinality(B(k)) \in Nat /\ Rank(lg, k) = Cardinality(B(k))
  <2>1. B(k) \subseteq 1..N
    OBVIOUS
  <2> QED
    BY <2>1, PartOfLog DEF Rank
<1>2. ASSUME NEW t PROVE IsFiniteSet(OfInstant(lg, t)) /\ Cardinality(OfInstant(lg, t)) \in Nat
  <2>1. OfInstant(lg, t) \subseteq 1..N
    BY DEF OfInstant
  <2> QED
    BY <2>1, PartOfLog
<1>3. ASSUME NEW k \in 1..N PROVE Rank(lg, k) < Cardinality(OfInstant(lg, lg[k]))
  <2> DEFINE A == OfInstant(lg, lg[k])
  <2>1. B(k) \in SUBSET A /\ k \in A /\ k \notin B(k)
    BY DEF OfInstant
  <2>2. IsFiniteSet(A) /\ Cardinality(A) \in Nat
    BY <1>2
  <2>3. Cardinality(B(k)) <= Cardinality(A) /\ (Cardinality(A) = Cardinality(B(k)) => A = B(k))
    BY <2>1, <2>2, FS_Subset
  <2>4. Cardinality(A) # Cardinality(B(k))
    BY <2>1, <2>3
  <2> HIDE DEF A, B
  <2> QED
    BY <1>1, <2>2, <2>3, <2>4 DEF A
<1>4. ASSUME NEW j \in 1..N, NEW k \in 1..N, lg[j] = lg[k], j <= k PROVE Rank(lg, j) <= Rank(lg, k)
  <2>1. B(j) \in SUBSET B(k)
    BY <1>4
  <2>2. Cardinality(B(j)) <= Cardinality(B(k))
    BY <1>1, <2>1, FS_Subset
  <2>3. Rank(lg, j) = Cardinality(B(j)) /\ Rank(lg, k) = Cardinality(B(k))
    BY <1>1
  <2> HIDE DEF B
  <2> QED
    BY <2>2, <2>3
<1> QED
  BY <1>1, <1>2, <1>3, <1>4

LEMMA InBeforeCursor ==
  ASSUME NEW lg, NEW s, NEW k \in 1..Len(lg), lg[k] >= s.started
  PROVE  k \in BeforeCursor(lg, s) <=> lg[k] < s.last \/ (lg[k] = s.last /\ Rank(lg, k) < s.n)
BY DEF BeforeCursor

LEMMA LastLine ==
  ASSUME NEW n \in Nat, NEW S, S \subseteq 1..n, S # {}
  PROVE  \E top \in S : \A k \in S : k <= top
<1> DEFINE C == {n - k : k \in S}
<1>1. C \in SUBSET Nat /\ C # {}
  <2>1. ASSUME NEW k \in S PROVE n - k \in Nat
    <3>1. k \in 1..n
      OBVIOUS
    <3> QED
      BY <3>1
  <2> QED
    BY <2>1, Zenon
<1>2. PICK c \in C : \A y \in C : c <= y
  BY <1>1, LeastExists
<1>3. PICK top \in S : c = n - top
  BY <1>2
<1>4. ASSUME NEW k \in S PROVE k <= top
  <2>1. n - k \in C /\ c <= n - k
    BY <1>2
  <2> QED
    BY <1>3, <2>1
<1> QED
  BY <1>3, <1>4

\* What a poll makes of a session s: y.  Of the lines f that it fetched, the last of which
\* is m, it emits E, those that the cursor does not pass; and it shows K of them, as v, and
\* counts the others.
Polled(s, f, m, E, K, v, y) ==
    /\ f \subseteq {k \in 1..Len(log) : log[k] >= s.last}
    /\ E = {k \in f : log[k] = s.last => Cardinality({j \in f : log[j] = s.last /\ j < k}) >= s.n}
    /\ E # {} => m \in f /\ \A k \in f : k <= m
    /\ K \subseteq E /\ v \in [1..Cardinality(K) -> K]
    /\ \A j, k \in 1..Cardinality(K) : j < k => v[j] < v[k]
    /\ DOMAIN y = SessionFields /\ y.started = s.started /\ y.seen = Len(log) /\ y.emitted \in Nat
    /\ E = {} => y.last = s.last /\ y.n = s.n
    /\ E # {} => y.last = log[m] /\ y.n = Cardinality({j \in f : log[j] = log[m]})
    /\ y.cut = s.cut \cup {log[k] : k \in {j \in 1..Len(log) : log[j] >= s.last} \ f}
    /\ y.dropped = s.dropped + Cardinality(E \ K) /\ y.shown = s.shown \o v

LEMMA PolledSession ==
  ASSUME LogOK, NEW s, SessionOK(log, tailNow, s),
         NEW f, NEW m, NEW E, NEW K, NEW v, NEW y, Polled(s, f, m, E, K, v, y)
  PROVE  SessionOK(log, tailNow, y)
<1> DEFINE N == Len(log)
           S0 == Since(log, s)
           S1 == Since(log, y)
<1>1. /\ N \in Nat /\ DOMAIN log = 1..N /\ tailNow \in Nat
      /\ \A k \in 1..N : log[k] \in Nat /\ log[k] <= tailNow
      /\ \A j, k \in 1..N : j < k => log[j] <= log[k]
  BY DEF LogOK
<1>2. SessionRow(s) /\ CursorOK(log, tailNow, s) /\ ShownOK(log, s) /\ CountedOK(log, s)
  BY DEF SessionOK
<1>3. /\ s.started \in Nat /\ s.last \in Nat /\ s.n \in Nat /\ s.dropped \in Nat /\ s.seen \in Nat
      /\ s.shown \in Seq(Nat) /\ s.started <= s.last /\ s.last <= tailNow /\ s.seen <= N
  BY <1>2 DEF SessionRow, CursorOK
<1> HIDE DEF N, S0, S1
<1>4. f \subseteq 1..N /\ \A k \in f : log[k] >= s.last
  BY Zenon DEF Polled, N
<1>5. E \subseteq f /\ K \subseteq E
  BY Zenon DEF Polled
<1>a. E = {k \in f : log[k] = s.last => Cardinality({j \in f : log[j] = s.last /\ j < k}) >= s.n}
  BY Zenon DEF Polled
<1>b. v \in [1..Cardinality(K) -> K] /\ \A j, k \in 1..Cardinality(K) : j < k => v[j] < v[k]
  BY Zenon DEF Polled
<1>c. /\ DOMAIN y = SessionFields /\ y.started = s.started /\ y.seen = N /\ y.emitted \in Nat
      /\ y.dropped = s.dropped + Cardinality(E \ K) /\ y.shown = s.shown \o v
  BY Zenon DEF Polled, N
<1>d. y.cut = s.cut \cup {log[k] : k \in {j \in 1..N : log[j] >= s.last} \ f}
  BY Zenon DEF Polled, N
<1>e. E = {} => y.last = s.last /\ y.n = s.n
  BY Zenon DEF Polled
<1>f. E # {} => /\ m \in f /\ (\A k \in f : k <= m)
                /\ y.last = log[m] /\ y.n = Cardinality({j \in f : log[j] = log[m]})
  BY Zenon DEF Polled
<1>6. /\ IsFiniteSet(f) /\ IsFiniteSet(E) /\ IsFiniteSet(K) /\ IsFiniteSet(E \ K)
      /\ Cardinality(E) \in Nat /\ Cardinality(K) \in Nat /\ Cardinality(E \ K) \in Nat
  <2>1. E \subseteq 1..N /\ K \subseteq 1..N /\ E \ K \subseteq 1..N
    BY <1>4, <1>5, Zenon
  <2> QED
    BY <1>1, <1>4, <2>1, PartOfLog
<1>7. y.last \in Nat /\ s.last <= y.last /\ y.last <= tailNow /\ \A k \in E : log[k] <= y.last
  <2>1. CASE E = {}
    BY <1>3, <1>e, <2>1
  <2>2. CASE E # {}
    <3>1. m \in 1..N /\ log[m] >= s.last /\ y.last = log[m]
      BY <1>4, <1>f, <2>2
    <3>2. ASSUME NEW k \in E PROVE log[k] <= log[m]
      <4>1. k \in 1..N /\ k <= m
        BY <1>4, <1>5, <1>f, <2>2
      <4> QED
        BY <1>1, <3>1, <4>1
    <3> QED
      BY <1>1, <1>3, <3>1, <3>2
  <2> QED
    BY <2>1, <2>2
<1>8. y.n \in Nat /\ y.n <= Cardinality(OfInstant(log, y.last))
  <2>1. CASE E = {}
    BY <1>2, <1>3, <1>e, <2>1 DEF CursorOK
  <2>2. CASE E # {}
    <3> DEFINE A == OfInstant(log, log[m])
               F == {j \in f : log[j] = log[m]}
    <3>1. F \in SUBSET A /\ A \subseteq 1..N
      BY <1>4 DEF OfInstant, N
    <3>2. IsFiniteSet(A) /\ IsFiniteSet(F) /\ Cardinality(F) \in Nat
      BY <1>1, <3>1, PartOfLog
    <3>3. Cardinality(F) <= Cardinality(A)
      BY <3>1, <3>2, FS_Subset
    <3>4. y.n = Cardinality(F) /\ Cardinality(OfInstant(log, y.last)) = Cardinality(A)
      BY <1>f, <2>2
    <3> HIDE DEF A, F
    <3> QED
      BY <3>2, <3>3, <3>4
  <2> QED
    BY <2>1, <2>2
<1>9. CursorOK(log, tailNow, y)
  BY <1>1, <1>3, <1>7, <1>8, <1>c DEF CursorOK, N
\* At an instant that is not cut, all the lines were fetched.
<1>10. ASSUME NEW t \in Nat, t >= s.last, t \notin y.cut
       PROVE  {j \in f : log[j] = t} = OfInstant(log, t)
  <2>1. ASSUME NEW k \in OfInstant(log, t) PROVE k \in f
    <3>1. k \in 1..Len(log) /\ log[k] = t
      BY DEF OfInstant
    <3>2. k \notin {j \in 1..N : log[j] >= s.last} \ f
      BY <1>10, <1>d, <3>1
    <3> QED
      BY <1>10, <3>1, <3>2 DEF N
  <2> QED
    BY <1>4, <2>1 DEF OfInstant, N
<1>11. ASSUME s.last \notin y.cut, NEW k \in E, log[k] = s.last PROVE Rank(log, k) >= s.n
  <2>1. {j \in f : log[j] = s.last} = OfInstant(log, s.last)
    BY <1>3, <1>10, <1>11
  <2>2. {j \in f : log[j] = s.last /\ j < k} = {j \in 1..Len(log) : log[j] = log[k] /\ j < k}
    BY <1>11, <2>1 DEF OfInstant
  <2>3. Cardinality({j \in f : log[j] = s.last /\ j < k}) >= s.n
    BY <1>11, <1>a
  <2> QED
    BY <2>2, <2>3 DEF Rank
<1>g. PICK c \in Nat : c = Cardinality(K)
  BY <1>6
<1>h. v \in [1..c -> K] /\ \A j, k \in 1..c : j < k => v[j] < v[k]
  BY <1>b, <1>g
<1>12. PICK L \in Nat : /\ L = Len(s.shown) /\ DOMAIN s.shown = 1..L /\ DOMAIN y.shown = 1..(L + c)
                        /\ Len(y.shown) = L + c /\ y.shown \in Seq(Nat)
                        /\ \A k \in 1..(L + c) : y.shown[k] = IF k <= L THEN s.shown[k] ELSE v[k - L]
  <2>1. PICK u \in Seq(Nat) : u = s.shown
    BY <1>3, Zenon
  <2>2. K \subseteq Nat
    BY <1>1, <1>4, <1>5
  <2>3. v \in [1..c -> Nat]
    BY <1>h, <2>2
  <2>4. v \in Seq(Nat) /\ Len(v) = c
    BY <2>3
  <2>5. /\ Len(u) \in Nat /\ DOMAIN u = 1..Len(u)
        /\ DOMAIN (u \o v) = 1..(Len(u) + c) /\ Len(u \o v) = Len(u) + c /\ u \o v \in Seq(Nat)
        /\ \A k \in 1..(Len(u) + c) : (u \o v)[k] = IF k <= Len(u) THEN u[k] ELSE v[k - Len(u)]
    BY <2>4, JoinFacts
  <2> QED
    BY <1>c, <2>1, <2>5, Zenon
\* A line shown is an old one, or one of K.
<1>13. ASSUME NEW k \in 1..L
       PROVE  /\ k \in DOMAIN s.shown /\ y.shown[k] = s.shown[k]
              /\ y.shown[k] \in S0 /\ log[y.shown[k]] <= s.last
  <2>1. k \in DOMAIN s.shown /\ k \in 1..(L + c) /\ k <= L
    BY <1>12
  <2>2. y.shown[k] = s.shown[k]
    BY <1>12, <2>1
  <2>3. s.shown[k] \in S0 /\ log[s.shown[k]] <= s.last
    BY <1>2, <2>1 DEF ShownOK, S0
  <2> QED
    BY <2>1, <2>2, <2>3
<1>i. ASSUME NEW k \in DOMAIN y.shown, k \notin 1..L
      PROVE  k - L \in 1..c /\ y.shown[k] = v[k - L] /\ y.shown[k] \in K /\ k > L
  <2>1. k \in 1..(L + c) /\ k > L /\ ~ (k <= L)
    BY <1>12, <1>i
  <2>2. k - L \in 1..c
    BY <2>1
  <2>3. y.shown[k] = v[k - L]
    <3>1. y.shown[k] = IF k <= L THEN s.shown[k] ELSE v[k - L]
      BY <1>12, <2>1, Zenon
    <3> QED
      BY <2>1, <3>1, Zenon
  <2>4. v[k - L] \in K
    BY <1>h, <2>2, Zenon
  <2> QED
    BY <2>1, <2>2, <2>3, <2>4
<1>14. /\ S0 \subseteq S1 /\ E \subseteq S1 /\ S1 \subseteq 1..N
       /\ S1 = {k \in 1..N : log[k] >= s.started}
  <2>1. S1 = {k \in 1..N : log[k] >= s.started}
    BY <1>c DEF Since, S1
  <2>2. ASSUME NEW k \in S0 PROVE k \in 1..N /\ log[k] >= s.started
    BY <1>1, <1>3 DEF Since, S0
  <2>3. ASSUME NEW k \in E PROVE k \in 1..N /\ log[k] >= s.started
    <3>1. k \in 1..N /\ log[k] >= s.last
      BY <1>4, <1>5
    <3> QED
      BY <1>1, <1>3, <3>1
  <2> QED
    BY <2>1, <2>2, <2>3
<1>15. ASSUME NEW k \in DOMAIN y.shown
       PROVE  y.shown[k] \in S1 /\ y.shown[k] \in 1..N /\ log[y.shown[k]] <= y.last
  <2>1. y.shown[k] \in S1 /\ y.shown[k] \in 1..N
    <3>1. y.shown[k] \in S0 \/ y.shown[k] \in E
      BY <1>5, <1>13, <1>i
    <3> QED
      BY <1>14, <3>1
  <2>2. log[y.shown[k]] <= s.last \/ y.shown[k] \in E
    BY <1>5, <1>13, <1>i
  <2> QED
    BY <1>1, <1>3, <1>7, <2>1, <2>2
<1>16. ASSUME NEW j \in DOMAIN y.shown, NEW k \in DOMAIN y.shown, j < k
       PROVE  /\ log[y.shown[j]] <= log[y.shown[k]]
              /\ log[y.shown[j]] \notin y.cut => y.shown[j] < y.shown[k]
  <2>1. j \in Nat /\ k \in Nat /\ j > 0 /\ k > 0
    BY <1>12
  <2>2. CASE k \in 1..L
    <3>0. j \in 1..L
      BY <1>16, <2>1, <2>2
    <3>1. /\ j \in DOMAIN s.shown /\ k \in DOMAIN s.shown
          /\ y.shown[j] = s.shown[j] /\ y.shown[k] = s.shown[k]
      BY <1>13, <2>2, <3>0
    <3>2. s.cut \subseteq y.cut
      BY <1>d
    <3>3. /\ log[s.shown[j]] <= log[s.shown[k]]
          /\ log[s.shown[j]] \notin s.cut => s.shown[j] < s.shown[k]
      BY <1>2, <1>16, <3>1 DEF ShownOK
    <3> QED
      BY <3>1, <3>2, <3>3
  <2>3. CASE j \in 1..L /\ k \notin 1..L
    <3>1. PICK a \in 1..N, b \in 1..N : a = y.shown[j] /\ b = y.shown[k]
      BY <1>15
    <3>2. b \in E
      BY <1>5, <1>i, <2>3, <3>1
    <3>3. j \in DOMAIN s.shown /\ s.shown[j] = a /\ log[a] <= s.last
      BY <1>13, <2>3, <3>1
    <3>4. log[b] >= s.last
      BY <1>4, <1>5, <3>2
    <3>5. log[a] <= log[b]
      BY <1>1, <1>3, <3>3, <3>4
    <3>6. ASSUME log[a] \notin y.cut, b <= a PROVE FALSE
      <4>1. log[a] = s.last /\ log[b] = s.last
        <5>1. b = a \/ b < a
          BY <3>6
        <5>2. log[b] <= log[a]
          BY <1>1, <5>1
        <5> QED
          BY <1>1, <1>3, <3>3, <3>4, <5>2
      <4>2. Rank(log, b) >= s.n
        BY <1>11, <3>2, <3>6, <4>1
      <4>3. s.last \notin s.cut
        BY <1>d, <3>6, <4>1
      <4>4. Rank(log, a) < s.n
        <5>1. \A q \in DOMAIN s.shown : log[s.shown[q]] = s.last => Rank(log, s.shown[q]) < s.n
          BY <1>2, <4>3 DEF ShownOK
        <5> QED
          BY <3>3, <4>1, <5>1, Zenon
      <4>5. Rank(log, b) <= Rank(log, a) /\ Rank(log, a) \in Nat /\ Rank(log, b) \in Nat
        BY <1>1, <3>6, <4>1, RankFacts DEF N
      <4> QED
        BY <1>3, <4>2, <4>4, <4>5
    <3> QED
      BY <1>1, <3>1, <3>5, <3>6
  <2>4. CASE j \notin 1..L /\ k \notin 1..L
    <3>1. /\ j - L \in 1..c /\ k - L \in 1..c
          /\ y.shown[j] = v[j - L] /\ y.shown[k] = v[k - L]
      BY <1>i, <2>4
    <3>2. j - L < k - L
      BY <1>12, <1>16, <2>1
    <3>3. PICK p \in 1..c, q \in 1..c : p = j - L /\ q = k - L
      BY <3>1
    <3>4. v[p] < v[q]
      BY <1>h, <3>2, <3>3
    <3>5. PICK a \in 1..N, b \in 1..N : a = y.shown[j] /\ b = y.shown[k]
      BY <1>15
    <3>6. a < b
      BY <3>1, <3>3, <3>4, <3>5
    <3> QED
      BY <1>1, <3>5, <3>6
  <2>5. k \in 1..L \/ (j \in 1..L /\ k \notin 1..L) \/ (j \notin 1..L /\ k \notin 1..L)
    BY Zenon
  <2> QED
    BY <2>2, <2>3, <2>4, <2>5
<1>17. ASSUME y.last \notin y.cut, NEW k \in DOMAIN y.shown, log[y.shown[k]] = y.last
       PROVE  Rank(log, y.shown[k]) < y.n
  <2>1. CASE E = {}
    <3>1. k \in DOMAIN s.shown /\ y.shown[k] = s.shown[k]
      BY <1>5, <1>13, <1>i, <2>1
    <3>2. s.last \notin s.cut /\ y.last = s.last /\ y.n = s.n
      BY <1>17, <1>d, <1>e, <2>1
    <3> QED
      BY <1>2, <1>17, <3>1, <3>2 DEF ShownOK
  <2>2. CASE E # {}
    <3>1. y.n = Cardinality(OfInstant(log, y.last))
      BY <1>7, <1>10, <1>17, <1>f, <2>2
    <3>2. PICK a \in 1..N : a = y.shown[k]
      BY <1>15
    <3>3. Rank(log, a) < Cardinality(OfInstant(log, log[a]))
      BY <1>1, RankFacts DEF N
    <3> QED
      BY <1>17, <3>1, <3>2, <3>3
  <2> QED
    BY <2>1, <2>2
<1>18. ShownOK(log, y)
  <2>1. \A k \in DOMAIN y.shown : y.shown[k] \in Since(log, y) /\ log[y.shown[k]] <= y.last
    BY <1>15 DEF S1
  <2>2. \A j, k \in DOMAIN y.shown : j < k =>
          /\ log[y.shown[j]] <= log[y.shown[k]]
          /\ log[y.shown[j]] \notin y.cut => y.shown[j] < y.shown[k]
    BY <1>16, Zenon
  <2>3. y.last \notin y.cut =>
          \A k \in DOMAIN y.shown : log[y.shown[k]] = y.last => Rank(log, y.shown[k]) < y.n
    BY <1>17, Zenon
  <2> QED
    BY <2>1, <2>2, <2>3, Zenon DEF ShownOK
<1>19. ASSUME y.cut = {}
       PROVE  BeforeCursor(log, y) = S1 /\ Len(y.shown) + y.dropped = Cardinality(S1)
  <2>0. s.cut = {}
    BY <1>19, <1>d
  <2>1. \A k \in 1..N : log[k] >= s.last => k \in f
    <3>1. ASSUME NEW k \in 1..N, log[k] >= s.last, k \notin f PROVE FALSE
      <4>1. log[k] \in y.cut
        BY <1>d, <3>1
      <4> QED
        BY <1>19, <4>1
    <3> QED
      BY <1>19, <3>1
  <2>2. BeforeCursor(log, s) = S0 /\ L + s.dropped = Cardinality(S0)
    BY <1>2, <1>12, <2>0 DEF CountedOK, S0
  <2>3. \A k \in 1..N : Rank(log, k) \in Nat
    BY <1>1, RankFacts DEF N
  <2>4. ASSUME NEW k \in E PROVE k \notin S0
    <3>1. k \in 1..N /\ log[k] >= s.last /\ (log[k] = s.last => Rank(log, k) >= s.n)
      BY <1>4, <1>5, <1>11, <1>19
    <3>2. ~ (log[k] < s.last \/ (log[k] = s.last /\ Rank(log, k) < s.n))
      BY <1>1, <1>3, <2>3, <3>1
    <3> QED
      BY <2>2, <3>2 DEF BeforeCursor
  <2>5. ASSUME NEW k \in S1, k \notin S0 PROVE k \in E
    <3>1. k \in 1..N /\ log[k] >= s.started
      BY <1>14
    <3>2. ~ (log[k] < s.last) /\ (log[k] = s.last => ~ (Rank(log, k) < s.n))
      <4>1. k \notin BeforeCursor(log, s)
        BY <2>2, <2>5
      <4>2. k \in 1..Len(log)
        BY <3>1 DEF N
      <4> QED
        BY <3>1, <4>1, <4>2, InBeforeCursor, Zenon
    <3>3. k \in f
      BY <1>1, <1>3, <2>1, <3>1, <3>2
    <3>4. ASSUME log[k] = s.last PROVE Cardinality({j \in f : log[j] = s.last /\ j < k}) >= s.n
      <4>1. {j \in f : log[j] = s.last} = OfInstant(log, s.last)
        BY <1>3, <1>10, <1>19
      <4>2. {j \in f : log[j] = s.last /\ j < k} = {j \in 1..Len(log) : log[j] = log[k] /\ j < k}
        BY <3>4, <4>1 DEF OfInstant
      <4>3. Rank(log, k) >= s.n
        BY <1>3, <2>3, <3>1, <3>2, <3>4
      <4> QED
        BY <4>2, <4>3 DEF Rank
    <3> QED
      BY <1>a, <3>3, <3>4
  <2>6. S1 = S0 \cup E /\ S0 \cap E = {}
    BY <1>14, <2>4, <2>5
  <2>7. Cardinality(S1) = Cardinality(S0) + Cardinality(E) /\ Cardinality(S0) \in Nat
    <3>1. IsFiniteSet(S0) /\ Cardinality(S0) \in Nat
      BY <1>1, <1>14, PartOfLog
    <3>2. Cardinality(S0 \cup E) = Cardinality(S0) + Cardinality(E) - Cardinality(S0 \cap E)
      BY <1>6, <3>1, FS_Union
    <3>3. Cardinality(S0 \cap E) = 0
      BY <2>6, FS_EmptySet
    <3>4. Cardinality(S1) = Cardinality(S0 \cup E)
      BY <2>6, Zenon
    <3> QED
      BY <1>6, <3>1, <3>2, <3>3, <3>4
  <2>8. Cardinality(E) = Cardinality(K) + Cardinality(E \ K)
    <3>1. K \cup (E \ K) = E /\ K \cap (E \ K) = {}
      BY <1>5
    <3>2. Cardinality(K \cup (E \ K)) = Cardinality(K) + Cardinality(E \ K) - Cardinality(K \cap (E \ K))
      BY <1>6, FS_Union
    <3>3. Cardinality(K \cap (E \ K)) = 0
      BY <3>1, FS_EmptySet
    <3>4. Cardinality(E) = Cardinality(K \cup (E \ K))
      BY <3>1, Zenon
    <3> QED
      BY <1>6, <3>2, <3>3, <3>4
  <2>9. Len(y.shown) + y.dropped = Cardinality(S1)
    <3>1. Len(y.shown) = L + c
      BY <1>12
    <3>2. y.dropped = s.dropped + Cardinality(E \ K)
      BY <1>c
    <3>3. Cardinality(E) = c + Cardinality(E \ K)
      BY <1>g, <2>8
    <3>4. Cardinality(S1) = L + s.dropped + c + Cardinality(E \ K)
      BY <1>3, <1>6, <2>2, <2>7, <3>3
    <3> QED
      BY <1>3, <1>6, <3>1, <3>2, <3>4
  <2>10. CASE E = {}
    <3>1. BeforeCursor(log, y) = BeforeCursor(log, s)
      BY <1>c, <1>e, <2>10 DEF BeforeCursor
    <3>2. S1 = S0
      BY <2>6, <2>10
    <3> QED
      BY <2>2, <2>9, <3>1, <3>2
  <2>11. CASE E # {}
    <3>1. y.n = Cardinality(OfInstant(log, y.last))
      BY <1>7, <1>10, <1>19, <1>f, <2>11
    <3>2. ASSUME NEW k \in S1 PROVE k \in BeforeCursor(log, y)
      <4>1. k \in 1..N /\ log[k] >= s.started
        BY <1>14
      <4>2. log[k] <= y.last
        <5>1. CASE log[k] >= s.last
          <6>1. k <= m /\ m \in 1..N /\ y.last = log[m]
            BY <1>4, <1>f, <2>1, <2>11, <4>1, <5>1
          <6>2. k < m \/ k = m
            BY <4>1, <6>1
          <6> QED
            BY <1>1, <4>1, <6>1, <6>2
        <5>2. CASE ~ (log[k] >= s.last)
          BY <1>1, <1>3, <1>7, <4>1, <5>2
        <5> QED
          BY <5>1, <5>2
      <4>3. log[k] = y.last => Rank(log, k) < y.n
        <5>1. Rank(log, k) < Cardinality(OfInstant(log, log[k]))
          BY <1>1, <4>1, RankFacts DEF N
        <5> QED
          BY <3>1, <5>1
      <4>4. log[k] < y.last \/ log[k] = y.last
        BY <1>1, <1>7, <4>1, <4>2
      <4>5. k \in 1..Len(log) /\ log[k] >= y.started
        BY <1>c, <4>1 DEF N
      <4> QED
        BY <4>3, <4>4, <4>5, InBeforeCursor, Zenon
    <3>3. BeforeCursor(log, y) \subseteq S1
      BY <1>14, <1>c DEF BeforeCursor, N
    <3> QED
      BY <2>9, <3>2, <3>3
  <2> QED
    BY <2>10, <2>11
<1>20. CountedOK(log, y)
  BY <1>19, Zenon DEF CountedOK, S1
<1>21. SessionRow(y)
  <2>1. y.dropped \in Nat /\ y.seen \in Nat /\ y.started \in Nat
    BY <1>1, <1>3, <1>6, <1>c
  <2> QED
    BY <1>7, <1>8, <1>12, <1>c, <2>1, Zenon DEF SessionRow
<1> QED
  BY <1>9, <1>18, <1>20, <1>21, Zenon DEF SessionOK

LEMMA PollKeeps ==
  ASSUME LogOK, ReqsOK, NEW i \in Req, Followed(i), Following!Poll(i)
  PROVE  SessionOK(log, tailNow, session'[i])
<1> DEFINE s == session[i]
           E(f) == Following!Emitted(s, f)
           b(f) == Following!Budgeted(IF E(f) = {} THEN s ELSE Following!Advanced(s, f))
           room(f) == IF b(f).emitted >= MaxPerSecond THEN 0 ELSE MaxPerSecond - b(f).emitted
           K(f) == Following!Kept(E(f), room(f))
           polled(f, v) ==
             [b(f) EXCEPT !.errors = 0, !.seen = Len(log),
                          !.cut = @ \cup {log[k] : k \in Following!Window(s) \ f},
                          !.dropped = @ + Following!Cardinality(E(f) \ K(f)), !.shown = @ \o v,
                          !.emitted = @ + Following!Cardinality(K(f))]
<1>1. SessionOK(log, tailNow, s)
  BY DEF Followed, Following!Poll, Following!Polling
<1>a. PICK f \in SUBSET Following!Window(s) :
        \E v \in [1..Following!Cardinality(K(f)) -> K(f)] :
          Following!InOrder(v) /\ session' = [session EXCEPT ![i] = polled(f, v)]
  BY Zenon DEF Following!Poll
<1>2. PICK v \in [1..Following!Cardinality(K(f)) -> K(f)] :
        Following!InOrder(v) /\ session' = [session EXCEPT ![i] = polled(f, v)]
  BY <1>a
<1> DEFINE EE == E(f)
           KK == K(f)
           y == polled(f, v)
<1>3. session'[i] = y
  BY <1>2 DEF ReqsOK
<1>4. Following!Window(s) = {k \in 1..Len(log) : log[k] >= s.last}
  BY DEF Following!Window, LogOK
<1>5. EE = {k \in f : log[k] = s.last => Cardinality({j \in f : log[j] = s.last /\ j < k}) >= s.n}
  <2>1. \A k : {j \in Following!LinesAt(f, s.last) : j < k} = {j \in f : log[j] = s.last /\ j < k}
    BY DEF Following!LinesAt
  <2> QED
    BY <2>1, FollowingCardinality DEF Following!Emitted
<1>6. KK \in SUBSET EE
  BY DEF Following!Kept
<1>7. v \in [1..Cardinality(KK) -> KK] /\ \A j, k \in 1..Cardinality(KK) : j < k => v[j] < v[k]
  BY <1>2, FollowingCardinality DEF Following!InOrder
<1> DEFINE c == IF EE = {} THEN s ELSE Following!Advanced(s, f)
           m == Following!Max(f)
<1>8. EE # {} => m \in f /\ \A k \in f : k <= m
  <2> SUFFICES ASSUME EE # {} PROVE m \in f /\ \A k \in f : k <= m
    OBVIOUS
  <2>1. f \subseteq 1..Len(log) /\ f # {}
    BY <1>4, <1>5, Zenon
  <2>5. Len(log) \in Nat
    BY DEF LogOK
  <2>2. PICK top \in f : \A k \in f : k <= top
    BY <2>1, <2>5, LastLine
  <2>3. \E x \in f : \A k \in f : x >= k
    BY <2>1, <2>2
  <2>4. m \in f /\ \A k \in f : m >= k
    BY <2>3, Zenon DEF Following!Max
  <2>6. f \subseteq Nat
    BY <2>1, <2>5
  <2> QED
    BY <2>4, <2>6
<1>9. SessionRow(s)
  BY <1>1 DEF SessionOK
<1> HIDE DEF s, EE, KK
<1>10. /\ DOMAIN c = SessionFields /\ c.started = s.started /\ c.dropped = s.dropped /\ c.shown = s.shown
       /\ c.emitted = s.emitted /\ c.cut = s.cut
       /\ EE = {} => c.last = s.last /\ c.n = s.n
       /\ EE # {} => c.last = log[m] /\ c.n = Cardinality({j \in f : log[j] = log[m]})
  <2>1. CASE EE = {}
    BY <1>9, <2>1 DEF SessionRow
  <2>2. CASE EE # {}
    <3>1. c = [s EXCEPT !.last = log[m], !.n = Cardinality({j \in f : log[j] = log[m]})]
      BY <2>2, FollowingCardinality DEF Following!Advanced, Following!LinesAt
    <3>2. DOMAIN s = SessionFields
      BY <1>9 DEF SessionRow
    <3> HIDE DEF c, m
    <3> QED
      BY <2>2, <3>1, <3>2 DEF SessionFields
  <2> QED
    BY <2>1, <2>2
<1> DEFINE d == Following!Budgeted(c)
<1>11. y = [d EXCEPT !.errors = 0, !.seen = Len(log),
                     !.cut = @ \cup {log[k] : k \in Following!Window(s) \ f},
                     !.dropped = @ + Cardinality(EE \ KK), !.shown = @ \o v,
                     !.emitted = @ + Cardinality(KK)]
  BY FollowingCardinality DEF s, EE, KK
<1>12. d = c \/ d = [c EXCEPT !.window = tailNow, !.emitted = 0]
  BY DEF Following!Budgeted
<1> HIDE DEF c, d, m, y
<1>13. /\ DOMAIN d = SessionFields /\ d.started = s.started /\ d.dropped = s.dropped /\ d.shown = s.shown
       /\ d.emitted \in Nat /\ d.cut = s.cut /\ d.last = c.last /\ d.n = c.n
  <2>1. CASE d = c
    BY <1>9, <1>10, <2>1 DEF SessionRow
  <2>2. CASE d = [c EXCEPT !.window = tailNow, !.emitted = 0]
    BY <1>10, <2>2 DEF SessionFields
  <2> QED
    BY <1>12, <2>1, <2>2
<1>14. Cardinality(KK) \in Nat
  <2>1. KK \subseteq 1..Len(log)
    BY <1>4, <1>5, <1>6, Zenon
  <2>2. Len(log) \in Nat
    BY DEF LogOK
  <2> QED
    BY <2>1, <2>2, PartOfLog
<1>15. /\ DOMAIN y = SessionFields /\ y.started = s.started /\ y.last = c.last /\ y.n = c.n
       /\ y.seen = Len(log) /\ y.dropped = s.dropped + Cardinality(EE \ KK) /\ y.shown = s.shown \o v
       /\ y.cut = s.cut \cup {log[k] : k \in Following!Window(s) \ f} /\ y.emitted \in Nat
  BY <1>11, <1>13, <1>14 DEF SessionFields
<1>16. y.cut = s.cut \cup {log[k] : k \in {j \in 1..Len(log) : log[j] >= s.last} \ f}
  BY <1>4, <1>15 DEF s
<1>17. f \subseteq {k \in 1..Len(log) : log[k] >= s.last}
  BY <1>4 DEF s
<1>18. EE = {k \in f : log[k] = s.last => Cardinality({j \in f : log[j] = s.last /\ j < k}) >= s.n}
  BY <1>5 DEF s
<1>19. Polled(s, f, m, EE, KK, v, y)
  BY <1>6, <1>7, <1>8, <1>10, <1>15, <1>16, <1>17, <1>18, Zenon DEF Polled
<1>20. SessionOK(log, tailNow, y)
  BY <1>1, <1>19, PolledSession DEF s
<1> QED
  BY <1>3, <1>20 DEF y

LEMMA QuietTail ==
  ASSUME TailInv, UNCHANGED <<tailNow, log>>, DOMAIN req' = Req, DOMAIN session' = Req,
         \A j \in Req : DOMAIN req'[j] = {"kind", "at", "gone"},
         \A j \in Req : req'[j].at = "streaming" =>
           \/ req[j].at = "streaming" /\ session'[j] = session[j]
           \/ SessionOK(log, tailNow, session'[j])
  PROVE  TailInv'
<1>1. LogOK' /\ ReqsOK'
  BY DEF TailInv, LogOK, ReqsOK
<1>2. ASSUME NEW j \in Req, req'[j].at = "streaming" PROVE SessionOK(log', tailNow', session'[j])
  <2>1. SessionOK(log, tailNow, session'[j])
    BY <1>2 DEF TailInv, Followed
  <2> QED
    BY <2>1
<1> QED
  BY <1>1, <1>2 DEF TailInv, Followed

\* A request that is over streams no more.
LEMMA OverKeeps ==
  ASSUME TailInv, NEW i \in Req, UNCHANGED <<tailNow, log>>,
         NEW answer \in {"failed", "invalid", "ended"}, Following!Over(i, answer)
  PROVE  TailInv'
<1> DEFINE r == IF req[i].gone THEN Following!Free ELSE [req[i] EXCEPT !.at = answer]
<1>1. /\ DOMAIN req = Req /\ DOMAIN session = Req /\ \A j \in Req : DOMAIN req[j] = {"kind", "at", "gone"}
  BY DEF TailInv, ReqsOK
<1>2. req' = [req EXCEPT ![i] = r] /\ session' = [session EXCEPT ![i] = Following!NewSession(0)]
  BY DEF Following!Over
<1>3. DOMAIN r = {"kind", "at", "gone"} /\ r.at # "streaming"
  BY <1>1 DEF Following!Free
<1> HIDE DEF r
<1>4. DOMAIN req' = Req /\ DOMAIN session' = Req /\ \A j \in Req : DOMAIN req'[j] = {"kind", "at", "gone"}
  BY <1>1, <1>2, <1>3
<1>5. \A j \in Req : req'[j].at = "streaming" => req[j].at = "streaming" /\ session'[j] = session[j]
  BY <1>1, <1>2, <1>3
<1> QED
  BY <1>4, <1>5, QuietTail

\* The tab drops requests and sends others; none of them streams yet.
Sent(old, new) ==
    /\ DOMAIN new = Req
    /\ \A j \in Req : /\ DOMAIN new[j] = {"kind", "at", "gone"}
                      /\ new[j].at = "streaming" => old[j].at = "streaming"

LEMMA LeavesSent ==
  ASSUME ReqsOK, NEW R
  PROVE  /\ Sent(req, Following!Leaves(R))
         /\ \A i \in Req : \A kind : Sent(req, Following!Sends(Following!Leaves(R), i, kind))
<1> DEFINE x(j) == IF j \notin R THEN req[j]
                   ELSE IF req[j].at \in {"sent", "probing", "answered", "streaming"}
                        THEN [req[j] EXCEPT !.gone = TRUE] ELSE Following!Free
           v == Following!Leaves(R)
<1>1. v = [j \in Req |-> x(j)]
  BY DEF Following!Leaves
<1>2. ASSUME NEW j \in Req
      PROVE  DOMAIN x(j) = {"kind", "at", "gone"} /\ (x(j).at = "streaming" => req[j].at = "streaming")
  <2>1. DOMAIN req[j] = {"kind", "at", "gone"}
    BY DEF ReqsOK
  <2> QED
    BY <2>1 DEF Following!Free
<1> HIDE DEF x, v
<1>3. DOMAIN v = Req /\ \A j \in Req : v[j] = x(j)
  BY <1>1
<1>4. Sent(req, v)
  BY <1>2, <1>3 DEF Sent
<1>5. ASSUME NEW i \in Req, NEW kind PROVE Sent(req, Following!Sends(v, i, kind))
  <2>1. Following!Sends(v, i, kind) = [v EXCEPT ![i] = [kind |-> kind, at |-> "sent", gone |-> FALSE]]
    BY DEF Following!Sends
  <2> QED
    BY <1>2, <1>3, <2>1 DEF Sent
<1> QED
  BY <1>4, <1>5 DEF v

LEMMA SentKeeps ==
  ASSUME TailInv, Sent(req, req'), UNCHANGED <<tailNow, log, session>>
  PROVE  TailInv'
<1>1. DOMAIN session' = Req
  BY DEF TailInv, ReqsOK
<1> QED
  BY <1>1, QuietTail DEF Sent

LEMMA TabRequestsKeep ==
  ASSUME TailInv,
         \/ Following!Follow \/ Following!Retry \/ Following!Disable
         \/ Following!Opened \/ Following!SourceFails \/ Following!CheckAnswered
  PROVE  TailInv'
<1>1. ReqsOK /\ UNCHANGED <<tailNow, log, session>>
  BY DEF TailInv, Following!Follow, Following!Retry, Following!Disable, Following!Opened, Following!SourceFails,
    Following!CheckAnswered, Following!Open, Following!server
<1>2. Sent(req, req')
  <2>1. CASE Following!Follow \/ Following!Retry
    BY <1>1, <2>1, LeavesSent DEF Following!Follow, Following!Retry, Following!Open
  <2>2. CASE Following!Disable \/ Following!CheckAnswered
    BY <1>1, <2>2, LeavesSent DEF Following!Disable, Following!CheckAnswered
  <2>3. CASE Following!Opened
    BY <1>1, <2>3 DEF Following!Opened, Following!server, Sent, ReqsOK
  <2>4. CASE Following!SourceFails
    BY <1>1, <2>4, LeavesSent DEF Following!SourceFails
  <2> QED
    BY <2>1, <2>2, <2>3, <2>4
<1> QED
  BY <1>1, <1>2, SentKeeps

\* The steps of a request at the server that neither start a stream nor poll.
LEMMA ServerRequestsKeep ==
  ASSUME TailInv, NEW i \in Req,
         Following!Acquire(i) \/ Following!ProbeSucceeds(i) \/ Following!StreamNeverStarts(i)
  PROVE  TailInv'
<1>1. /\ DOMAIN req = Req /\ \A j \in Req : DOMAIN req[j] = {"kind", "at", "gone"}
      /\ UNCHANGED <<tailNow, log, session>>
  BY DEF TailInv, ReqsOK, Following!Acquire, Following!ProbeSucceeds, Following!StreamNeverStarts
<1>2. PICK r : /\ req' = [req EXCEPT ![i] = r]
               /\ r \in {Following!Free} \cup {[req[i] EXCEPT !.at = a] : a \in {"refused", "probing", "answered"}}
  BY DEF Following!Acquire, Following!ProbeSucceeds, Following!StreamNeverStarts
<1>3. DOMAIN r = {"kind", "at", "gone"} /\ r.at # "streaming"
  BY <1>1, <1>2 DEF Following!Free
<1>4. Sent(req, req')
  BY <1>1, <1>2, <1>3 DEF Sent
<1> QED
  BY <1>1, <1>4, SentKeeps

LEMMA StreamStartKeeps == ASSUME TailInv, NEW i \in Req, Following!StreamStarts(i) PROVE TailInv'
<1>1. /\ DOMAIN req = Req /\ DOMAIN session = Req /\ \A j \in Req : DOMAIN req[j] = {"kind", "at", "gone"}
      /\ UNCHANGED <<tailNow, log>> /\ tailNow \in Nat /\ log \in Seq(Nat)
  BY DEF TailInv, LogOK, ReqsOK, Following!StreamStarts
<1> DEFINE y == Following!NewSession(tailNow)
<1>2. req' = [req EXCEPT ![i].at = "streaming"] /\ session' = [session EXCEPT ![i] = y]
  BY DEF Following!StreamStarts
<1>3. /\ DOMAIN y = SessionFields /\ y.started = tailNow /\ y.last = tailNow /\ y.n = 0 /\ y.dropped = 0
      /\ y.seen = 0 /\ y.emitted = 0 /\ y.shown = <<>> /\ y.cut = {}
  BY DEF Following!NewSession, SessionFields
<1> HIDE DEF y
<1>4. Len(log) \in Nat /\ <<>> \in Seq(Nat) /\ Len(<<>>) = 0 /\ DOMAIN <<>> = {}
  BY <1>1
<1>5. /\ \A k : Rank(log, k) \in Nat
      /\ Cardinality(OfInstant(log, tailNow)) \in Nat
  BY <1>4, RankFacts
<1>6. SessionRow(y) /\ CursorOK(log, tailNow, y)
  BY <1>1, <1>3, <1>4, <1>5 DEF SessionRow, CursorOK
<1>7. ShownOK(log, y)
  BY <1>3, <1>4 DEF ShownOK
<1>8. CountedOK(log, y)
  <2>1. Since(log, y) = {}
    BY <1>3 DEF Since
  <2>2. BeforeCursor(log, y) = {}
    <3>1. ASSUME NEW k \in 1..Len(log) PROVE k \notin BeforeCursor(log, y)
      <4>1. log[k] \in Nat /\ Rank(log, k) \in Nat
        BY <1>1, <1>5
      <4> QED
        BY <1>1, <1>3, <4>1 DEF BeforeCursor
    <3> QED
      BY <3>1 DEF BeforeCursor
  <2>3. Cardinality({}) = 0
    BY FS_EmptySet
  <2>4. Len(y.shown) + y.dropped = 0
    BY <1>3, <1>4
  <2> QED
    BY <2>1, <2>2, <2>3, <2>4 DEF CountedOK
<1>9. SessionOK(log, tailNow, y)
  BY <1>6, <1>7, <1>8 DEF SessionOK
<1>10. DOMAIN req' = Req /\ DOMAIN session' = Req /\ \A j \in Req : DOMAIN req'[j] = {"kind", "at", "gone"}
  BY <1>1, <1>2
<1>11. y = session'[i] /\ \A j \in Req : j # i => req'[j] = req[j] /\ session'[j] = session[j]
  BY <1>1, <1>2
<1> QED
  BY <1>1, <1>9, <1>10, <1>11, QuietTail

LEMMA PollFailsKeeps == ASSUME TailInv, NEW i \in Req, Following!PollFails(i) PROVE TailInv'
<1>1. /\ DOMAIN req = Req /\ DOMAIN session = Req /\ \A j \in Req : DOMAIN req[j] = {"kind", "at", "gone"}
      /\ UNCHANGED <<tailNow, log>> /\ req[i].at = "streaming"
  BY DEF TailInv, ReqsOK, Following!PollFails, Following!Polling
<1>2. CASE Following!Over(i, "ended")
  BY <1>1, <1>2, OverKeeps
<1>3. CASE session' = [session EXCEPT ![i].errors = @ + 1] /\ req' = req
  <2> DEFINE s == session[i]
             y == [s EXCEPT !.errors = @ + 1]
  <2>1. SessionOK(log, tailNow, s)
    BY <1>1 DEF TailInv, Followed
  <2>2. /\ DOMAIN y = SessionFields /\ y.started = s.started /\ y.last = s.last /\ y.n = s.n
        /\ y.dropped = s.dropped /\ y.seen = s.seen /\ y.emitted = s.emitted /\ y.shown = s.shown
        /\ y.cut = s.cut
    BY <2>1 DEF SessionOK, SessionRow, SessionFields
  <2>3. y = session'[i] /\ \A j \in Req : j # i => session'[j] = session[j]
    BY <1>1, <1>3
  <2> HIDE DEF y, s
  <2>4. SessionRow(y) /\ CursorOK(log, tailNow, y)
    BY <2>1, <2>2 DEF SessionOK, SessionRow, CursorOK
  <2>5. Since(log, y) = Since(log, s) /\ BeforeCursor(log, y) = BeforeCursor(log, s)
    BY <2>2 DEF Since, BeforeCursor
  <2>6. ShownOK(log, y) /\ CountedOK(log, y)
    BY <2>1, <2>2, <2>5 DEF SessionOK, ShownOK, CountedOK
  <2>7. SessionOK(log, tailNow, y)
    BY <2>4, <2>6 DEF SessionOK
  <2>8. DOMAIN session' = Req
    BY <1>1, <1>3
  <2> QED
    BY <1>1, <1>3, <2>3, <2>7, <2>8, QuietTail
<1> QED
  BY <1>2, <1>3 DEF Following!PollFails

LEMMA PollStepKeeps == ASSUME TailInv, NEW i \in Req, Following!Poll(i) PROVE TailInv'
<1>1. LogOK /\ ReqsOK /\ Followed(i)
  BY DEF TailInv
<1>2. SessionOK(log, tailNow, session'[i])
  BY <1>1, PollKeeps
<1>3. UNCHANGED <<tailNow, log, req>> /\ DOMAIN session' = Req /\ \A j \in Req : j # i => session'[j] = session[j]
  BY <1>1 DEF Following!Poll, ReqsOK
<1>4. DOMAIN req' = Req /\ \A j \in Req : DOMAIN req'[j] = {"kind", "at", "gone"} /\ req'[j] = req[j]
  BY <1>1, <1>3 DEF ReqsOK
<1> QED
  BY <1>2, <1>3, <1>4, QuietTail

LEMMA TailTickKeeps == ASSUME TailInv, Following!Tick PROVE TailInv'
<1>1. tailNow \in Nat /\ tailNow' = tailNow + 1 /\ UNCHANGED <<log, req, session>> /\ log \in Seq(Nat)
  BY DEF TailInv, LogOK, Following!Tick
<1>2. LogOK'
  BY <1>1 DEF TailInv, LogOK
<1>3. ASSUME NEW i \in Req, SessionOK(log, tailNow, session[i]) PROVE SessionOK(log, tailNow', session[i])
  BY <1>1, <1>3 DEF SessionOK, SessionRow, CursorOK
<1>4. \A i \in Req : Followed(i)'
  BY <1>1, <1>3 DEF TailInv, Followed
<1> QED
  BY <1>1, <1>2, <1>4 DEF TailInv, ReqsOK

\* A new line comes after all others; it is not before the cursor of any session.
LEMMA ArriveKeeps == ASSUME TailInv, Following!Arrive PROVE TailInv'
<1>1. /\ tailNow \in Nat /\ UNCHANGED <<tailNow, req, session>> /\ log \in Seq(Nat)
      /\ log' = Append(log, tailNow)
  BY DEF TailInv, LogOK, Following!Arrive
<1>2. PICK N \in Nat : N = Len(log)
  BY <1>1
<1>3. /\ log' \in Seq(Nat) /\ Len(log') = N + 1 /\ log'[N + 1] = tailNow
      /\ \A k \in 1..N : log'[k] = log[k] /\ log[k] \in Nat /\ log[k] <= tailNow
      /\ \A k \in 1..(N + 1) : k \in 1..N \/ k = N + 1
  BY <1>1, <1>2 DEF TailInv, LogOK
<1>4. LogOK'
  <2>1. ASSUME NEW j \in 1..(N + 1), NEW k \in 1..(N + 1), j < k PROVE log'[j] <= log'[k]
    <3>1. j \in 1..N
      BY <2>1
    <3>2. CASE k \in 1..N
      BY <1>2, <1>3, <2>1, <3>1, <3>2 DEF TailInv, LogOK
    <3> QED
      BY <1>3, <3>1, <3>2
  <2> QED
    BY <1>1, <1>3, <2>1 DEF LogOK
<1>5. ASSUME NEW k \in 1..N PROVE Rank(log', k) = Rank(log, k)
  <2>1. ASSUME NEW j \in 1..(N + 1), j < k PROVE j \in 1..N
    BY <2>1
  <2>2. {j \in 1..(N + 1) : log'[j] = log'[k] /\ j < k} = {j \in 1..N : log[j] = log[k] /\ j < k}
    BY <1>3, <2>1
  <2> QED
    BY <1>2, <1>3, <2>2 DEF Rank
<1>6. Rank(log', N + 1) = Cardinality(OfInstant(log, tailNow))
  <2>1. {j \in 1..(N + 1) : log'[j] = log'[N + 1] /\ j < N + 1} = {j \in 1..N : log[j] = tailNow}
    BY <1>3
  <2> QED
    BY <1>2, <1>3, <2>1 DEF Rank, OfInstant
<1>7. ASSUME NEW t PROVE Cardinality(OfInstant(log, t)) <= Cardinality(OfInstant(log', t))
  <2>1. OfInstant(log, t) \in SUBSET OfInstant(log', t)
    BY <1>2, <1>3 DEF OfInstant
  <2>2. OfInstant(log', t) \subseteq 1..(N + 1) /\ N + 1 \in Nat
    BY <1>3 DEF OfInstant
  <2>3. IsFiniteSet(OfInstant(log', t))
    BY <2>2, PartOfLog
  <2> QED
    BY <2>1, <2>3, FS_Subset
<1>8. ASSUME NEW s, SessionOK(log, tailNow, s) PROVE SessionOK(log', tailNow, s)
  <2>1. SessionRow(s) /\ CursorOK(log, tailNow, s) /\ ShownOK(log, s) /\ CountedOK(log, s)
    BY <1>8 DEF SessionOK
  <2>2. s.seen \in Nat /\ s.seen <= N /\ s.last \in Nat /\ s.last <= tailNow /\ s.started \in Nat /\ s.n \in Nat
        /\ s.n <= Cardinality(OfInstant(log, s.last))
    BY <1>2, <2>1 DEF SessionRow, CursorOK
  <2>3. \A t : Cardinality(OfInstant(log, t)) \in Nat /\ Cardinality(OfInstant(log', t)) \in Nat
    BY <1>2, <1>3, RankFacts
  <2>4. CursorOK(log', tailNow, s)
    <3>1. s.n <= Cardinality(OfInstant(log', s.last))
      BY <1>7, <2>2, <2>3
    <3> QED
      BY <1>3, <2>1, <2>2, <3>1 DEF CursorOK
  <2>5. Since(log', s) = Since(log, s)
    BY <1>3, <2>2 DEF Since
  <2>6. \A k \in DOMAIN s.shown : /\ s.shown[k] \in 1..N /\ log'[s.shown[k]] = log[s.shown[k]]
                                  /\ Rank(log', s.shown[k]) = Rank(log, s.shown[k])
    <3>1. ASSUME NEW k \in DOMAIN s.shown PROVE s.shown[k] \in 1..N
      BY <2>1, <2>2 DEF ShownOK, Since
    <3> QED
      BY <1>3, <1>5, <3>1
  <2>7. ShownOK(log', s)
    BY <2>1, <2>5, <2>6 DEF ShownOK
  <2>8. BeforeCursor(log', s) = BeforeCursor(log, s)
    <3>1. ASSUME NEW k \in 1..N PROVE k \in BeforeCursor(log', s) <=> k \in BeforeCursor(log, s)
      <4>1. log'[k] = log[k] /\ Rank(log', k) = Rank(log, k) /\ k \in 1..(N + 1)
        BY <1>3, <1>5
      <4> QED
        BY <1>2, <1>3, <4>1 DEF BeforeCursor
    <3>2. N + 1 \notin BeforeCursor(log', s)
      <4>1. log'[N + 1] = tailNow
        BY <1>3
      <4>2. ~ (tailNow < s.last) /\ (tailNow = s.last => ~ (Rank(log', N + 1) < s.n))
        BY <1>1, <1>6, <2>2, <2>3
      <4> QED
        BY <4>1, <4>2 DEF BeforeCursor
    <3>3. BeforeCursor(log', s) \subseteq 1..(N + 1) /\ BeforeCursor(log, s) \subseteq 1..N
      BY <1>2, <1>3 DEF BeforeCursor
    <3> QED
      BY <1>3, <3>1, <3>2, <3>3
  <2>9. CountedOK(log', s)
    BY <2>1, <2>5, <2>8 DEF CountedOK
  <2> QED
    BY <2>1, <2>4, <2>7, <2>9 DEF SessionOK
<1>9. \A i \in Req : Followed(i)'
  BY <1>1, <1>8 DEF TailInv, Followed
<1> QED
  BY <1>1, <1>4, <1>9 DEF TailInv, ReqsOK

LEMMA TailInit == Following!Init => TailInv
<1> SUFFICES ASSUME Following!Init PROVE TailInv
  OBVIOUS
<1>1. /\ tailNow = 1 /\ log = <<>> /\ Len(<<>>) = 0 /\ <<>> \in Seq(Nat) /\ 1 \in Nat
  BY DEF Following!Init
<1>2. LogOK
  BY <1>1 DEF LogOK
<1>3. ReqsOK /\ \A i \in Req : req[i].at # "streaming"
  BY DEF Following!Init, Following!Free, ReqsOK
<1> QED
  BY <1>2, <1>3 DEF TailInv, Followed

LEMMA TailNext == ASSUME TailInv, [Following!Next]_tailVars PROVE TailInv'
<1>1. CASE UNCHANGED tailVars
  BY <1>1 DEF tailVars, TailInv, LogOK, ReqsOK, Followed
<1>2. ASSUME NEW i \in Req, Following!ProbeFails(i) PROVE TailInv'
  BY <1>2, OverKeeps DEF Following!ProbeFails
<1>3. ASSUME NEW i \in Req, Following!StreamIsLeft(i) \/ Following!DurationEnds(i) PROVE TailInv'
  BY <1>3, OverKeeps DEF Following!StreamIsLeft, Following!DurationEnds
<1> QED
  BY <1>1, <1>2, <1>3, ServerRequestsKeep, StreamStartKeeps, PollFailsKeeps, PollStepKeeps, TabRequestsKeep,
    TailTickKeeps, ArriveKeeps
  DEF Following!Next

LEMMA TailSound == ASSUME TailInv PROVE Following!TailIsExact
<1> SUFFICES ASSUME NEW i \in Req, req[i].at = "streaming"
             PROVE  LET s == session[i]
                        since == {k \in 1..s.seen : log[k] >= s.started} IN
                    /\ \A k \in DOMAIN s.shown : s.shown[k] \in since
                    /\ \A j, k \in DOMAIN s.shown : j < k =>
                         /\ log[s.shown[j]] <= log[s.shown[k]]
                         /\ log[s.shown[j]] \notin s.cut => s.shown[j] < s.shown[k]
                    /\ s.cut = {} => Len(s.shown) + s.dropped = Following!Cardinality(since)
  BY DEF Following!TailIsExact
<1>1. ShownOK(log, session[i]) /\ CountedOK(log, session[i])
  BY DEF TailInv, Followed, SessionOK
<1> QED
  BY <1>1, FollowingCardinality DEF ShownOK, CountedOK, Since

----------------------------------------------------------------------------
(* The log writer (LogWriter).  Lines are in the order of their numbers:    *)
(* what is stored, then the batch, then what waits.                         *)

Increasing(s) == \A i, j \in DOMAIN s : i < j => s[i] < s[j]

Has(s, l) == \E i \in DOMAIN s : s[i] = l

WriterTypes ==
    /\ lines \in Nat /\ early \in Nat /\ early <= lines
    /\ pending \in Seq(Nat) /\ batch \in Seq(Nat) /\ stored \in Seq(Nat)
    /\ stop \in BOOLEAN
    /\ flusher # "posting" => batch = <<>>

\* One sentinel at most; the lines beside it are in order.
Waiting ==
    /\ \A i \in DOMAIN pending : pending[i] <= lines
    /\ \A i, j \in DOMAIN pending : i < j /\ pending[j] # 0 => pending[i] < pending[j]
    /\ \A i, j \in DOMAIN pending : i < j /\ pending[j] = 0 => pending[i] # 0

BatchInOrder ==
    /\ Increasing(batch)
    /\ \A i \in DOMAIN batch : 0 < batch[i] /\ batch[i] <= lines
    /\ \A i \in DOMAIN batch, j \in DOMAIN pending : pending[j] # 0 => batch[i] < pending[j]

StoredInOrder ==
    /\ Increasing(stored)
    /\ \A i \in DOMAIN stored : stored[i] <= lines
    /\ \A i \in DOMAIN stored, j \in DOMAIN batch : stored[i] < batch[j]
    /\ \A i \in DOMAIN stored, j \in DOMAIN pending : pending[j] # 0 => stored[i] < pending[j]

Counted(l) == l \in dropped \cup failed \/ Has(stored, l)

Accounted == \A l \in 1..lines : Counted(l) \/ Has(batch, l) \/ Has(pending, l)

\* The sentinel is sent once; the flusher ends after it, when nothing waits.
Stopping ==
    /\ ~stop => early = lines /\ ~Has(pending, 0)
    /\ flusher = "done" => stop /\ \A l \in 1..early : Counted(l)

WriterInv == WriterTypes /\ Waiting /\ BatchInOrder /\ StoredInOrder /\ Accounted /\ Stopping

LEMMA WriterInit == Writer!Init => WriterInv
<1> SUFFICES ASSUME Writer!Init PROVE WriterInv
  OBVIOUS
<1>1. /\ lines = 0 /\ early = 0 /\ pending = <<>> /\ batch = <<>> /\ stored = <<>> /\ stop = FALSE /\ flusher = "idle"
      /\ DOMAIN <<>> = {} /\ <<>> \in Seq(Nat) /\ 0 \in Nat /\ 0 <= 0 /\ FALSE \in BOOLEAN
  BY DEF Writer!Init
<1>2. WriterTypes
  BY <1>1, Zenon DEF WriterTypes
<1>3. Waiting /\ BatchInOrder /\ StoredInOrder
  BY <1>1 DEF Waiting, BatchInOrder, StoredInOrder, Increasing
<1>4. Accounted /\ Stopping
  BY <1>1 DEF Accounted, Stopping, Has
<1> QED
  BY <1>2, <1>3, <1>4 DEF WriterInv

\* An item joins the end of the queue.
LEMMA AppendFacts ==
  ASSUME NEW s \in Seq(Nat), NEW n \in Nat
  PROVE  /\ Len(s) \in Nat /\ DOMAIN s = 1..Len(s)
         /\ Append(s, n) \in Seq(Nat) /\ DOMAIN Append(s, n) = 1..(Len(s) + 1)
         /\ \A i \in 1..Len(s) : Append(s, n)[i] = s[i] /\ s[i] \in Nat
         /\ Append(s, n)[Len(s) + 1] = n
         /\ \A i \in 1..(Len(s) + 1) : i \in 1..Len(s) \/ i = Len(s) + 1
OBVIOUS

LEMMA IngestKeeps == ASSUME WriterInv, Writer!Ingest PROVE WriterInv'
<1>1. PICK n \in Nat : n = lines + 1
  <2>1. lines + 1 \in Nat
    BY DEF WriterInv, WriterTypes
  <2> QED
    BY <2>1
<1>2. /\ lines' = n /\ lines \in Nat /\ UNCHANGED <<flusher, batch, stored, failed, stop>>
      /\ early' = IF stop THEN early ELSE n
      /\ pending \in Seq(Nat) /\ n > lines
  BY <1>1 DEF Writer!Ingest, WriterInv, WriterTypes
<1>3. CASE pending' = pending /\ dropped' = dropped \cup {n}
  <2>1. WriterTypes'
    BY <1>2, <1>3 DEF WriterInv, WriterTypes
  <2>2. Waiting'
    BY <1>2, <1>3 DEF WriterInv, WriterTypes, Waiting
  <2>3. BatchInOrder' /\ StoredInOrder'
    BY <1>2, <1>3 DEF WriterInv, WriterTypes, BatchInOrder, StoredInOrder, Increasing
  <2>4. Accounted'
    <3>1. ASSUME NEW l \in 1..n PROVE Counted(l)' \/ Has(batch, l)' \/ Has(pending, l)'
      <4>1. CASE l = n
        BY <1>3, <4>1 DEF Counted
      <4>2. CASE l \in 1..lines
        BY <1>2, <1>3, <4>2 DEF WriterInv, Accounted, Counted, Has
      <4> QED
        BY <1>1, <1>2, <4>1, <4>2
    <3> QED
      BY <1>2, <3>1 DEF Accounted
  <2>5. Stopping'
    BY <1>2, <1>3 DEF WriterInv, WriterTypes, Stopping, Counted, Has
  <2> QED
    BY <2>1, <2>2, <2>3, <2>4, <2>5 DEF WriterInv
<1>4. CASE pending' = Append(pending, n) /\ dropped' = dropped
  <2>1. PICK k \in Nat, p \in Seq(Nat) :
          /\ p = pending' /\ DOMAIN pending = 1..k /\ DOMAIN p = 1..(k + 1) /\ p[k + 1] = n
          /\ \A i \in 1..k : p[i] = pending[i] /\ pending[i] \in Nat
          /\ \A i \in 1..(k + 1) : i \in 1..k \/ i = k + 1
    BY <1>2, <1>4, AppendFacts
  <2>2. WriterTypes'
    BY <1>1, <1>2, <2>1 DEF WriterInv, WriterTypes
  <2>3. Waiting'
    <3>1. \A i \in 1..k : pending[i] <= lines
      BY <2>1 DEF WriterInv, Waiting
    <3>2. \A i \in 1..(k + 1) : p[i] <= n
      BY <1>1, <1>2, <2>1, <3>1
    <3>3. ASSUME NEW i \in 1..(k + 1), NEW j \in 1..(k + 1), i < j
          PROVE  (p[j] # 0 => p[i] < p[j]) /\ (p[j] = 0 => p[i] # 0)
      <4>1. i \in 1..k
        BY <3>3
      <4>2. CASE j \in 1..k
        BY <2>1, <3>3, <4>1, <4>2 DEF WriterInv, Waiting
      <4>3. CASE j = k + 1
        BY <1>1, <1>2, <2>1, <3>1, <4>1, <4>3
      <4> QED
        BY <2>1, <4>2, <4>3
    <3> QED
      BY <1>2, <2>1, <3>2, <3>3 DEF Waiting
  <2>4. BatchInOrder'
    <3>1. Increasing(batch)' /\ \A i \in DOMAIN batch : 0 < batch[i] /\ batch[i] <= lines /\ batch[i] \in Nat
      BY <1>2 DEF WriterInv, WriterTypes, BatchInOrder, Increasing
    <3>2. ASSUME NEW i \in DOMAIN batch, NEW j \in 1..(k + 1), p[j] # 0 PROVE batch[i] < p[j]
      BY <1>1, <1>2, <2>1, <3>1, <3>2, SMTT(30) DEF WriterInv, BatchInOrder
    <3> QED
      BY <1>1, <1>2, <2>1, <3>1, <3>2 DEF BatchInOrder
  <2>5. StoredInOrder'
    <3>1. Increasing(stored)' /\ \A i \in DOMAIN stored : stored[i] <= lines /\ stored[i] \in Nat
      BY <1>2 DEF WriterInv, WriterTypes, StoredInOrder, Increasing
    <3>2. ASSUME NEW i \in DOMAIN stored, NEW j \in 1..(k + 1), p[j] # 0 PROVE stored[i] < p[j]
      BY <1>1, <1>2, <2>1, <3>1, <3>2 DEF WriterInv, StoredInOrder
    <3>3. \A i \in DOMAIN stored, j \in DOMAIN batch : stored[i] < batch[j]
      BY DEF WriterInv, StoredInOrder
    <3> QED
      BY <1>1, <1>2, <2>1, <3>1, <3>2, <3>3 DEF StoredInOrder
  <2>6. Accounted'
    <3>1. ASSUME NEW l \in 1..n PROVE Counted(l)' \/ Has(batch, l)' \/ Has(pending, l)'
      <4>1. CASE l = n
        BY <2>1, <4>1 DEF Has
      <4>2. CASE l \in 1..lines
        <5>1. Counted(l) \/ Has(batch, l) \/ Has(pending, l)
          BY <4>2 DEF WriterInv, Accounted
        <5> QED
          BY <1>2, <1>4, <2>1, <5>1 DEF Counted, Has
      <4> QED
        BY <1>1, <1>2, <4>1, <4>2
    <3> QED
      BY <1>2, <3>1 DEF Accounted
  <2>7. Stopping'
    <3>1. ~Has(pending, 0) => ~Has(pending, 0)'
      BY <1>1, <1>2, <2>1 DEF Has
    <3> QED
      BY <1>2, <1>4, <3>1 DEF WriterInv, Stopping, Counted, Has
  <2> QED
    BY <2>2, <2>3, <2>4, <2>5, <2>6, <2>7 DEF WriterInv
<1> QED
  BY <1>1, <1>3, <1>4 DEF Writer!Ingest

LEMMA CloseKeeps == ASSUME WriterInv, Writer!Close PROVE WriterInv'
<1>1. /\ UNCHANGED <<lines, flusher, batch, stored, dropped, failed, early>> /\ stop' /\ stop' \in BOOLEAN /\ ~stop
      /\ pending \in Seq(Nat) /\ lines \in Nat /\ 0 \in Nat
  BY DEF Writer!Close, WriterInv, WriterTypes
<1>2. Stopping'
  BY <1>1 DEF WriterInv, Stopping
<1>3. CASE pending' = pending
  BY <1>1, <1>2, <1>3 DEF WriterInv, WriterTypes, Waiting, BatchInOrder, StoredInOrder, Increasing, Accounted, Counted, Has
<1>4. CASE pending' = Append(pending, 0)
  <2>1. PICK k \in Nat, p \in Seq(Nat) :
          /\ p = pending' /\ DOMAIN pending = 1..k /\ DOMAIN p = 1..(k + 1) /\ p[k + 1] = 0
          /\ \A i \in 1..k : p[i] = pending[i] /\ pending[i] \in Nat
          /\ \A i \in 1..(k + 1) : i \in 1..k \/ i = k + 1
    BY <1>1, <1>4, AppendFacts
  <2>2. WriterTypes'
    BY <1>1, <2>1 DEF WriterInv, WriterTypes
  <2>3. Waiting'
    <3>1. \A i \in 1..(k + 1) : p[i] <= lines
      BY <1>1, <2>1 DEF WriterInv, Waiting
    <3>2. \A i \in 1..k : pending[i] # 0
      BY <1>1, <2>1 DEF WriterInv, Stopping, Has
    <3>3. ASSUME NEW i \in 1..(k + 1), NEW j \in 1..(k + 1), i < j
          PROVE  (p[j] # 0 => p[i] < p[j]) /\ (p[j] = 0 => p[i] # 0)
      <4>1. i \in 1..k
        BY <3>3
      <4>2. CASE j \in 1..k
        BY <2>1, <3>3, <4>1, <4>2 DEF WriterInv, Waiting
      <4>3. CASE j = k + 1
        BY <2>1, <3>2, <4>1, <4>3
      <4> QED
        BY <2>1, <4>2, <4>3
    <3> QED
      BY <1>1, <2>1, <3>1, <3>3 DEF Waiting
  <2>4. BatchInOrder' /\ StoredInOrder'
    <3>1. \A j \in 1..(k + 1) : p[j] # 0 => j \in DOMAIN pending /\ p[j] = pending[j]
      BY <2>1
    <3> QED
      BY <1>1, <2>1, <3>1 DEF WriterInv, BatchInOrder, StoredInOrder, Increasing
  <2>5. Accounted'
    <3>1. \A l : Has(pending, l) => Has(pending, l)'
      BY <2>1 DEF Has
    <3> QED
      BY <1>1, <3>1 DEF WriterInv, Accounted, Counted, Has
  <2> QED
    BY <1>2, <2>2, <2>3, <2>4, <2>5 DEF WriterInv
<1> QED
  BY <1>3, <1>4 DEF Writer!Close, Writer!Sentinel

LEMMA WakeKeeps == ASSUME WriterInv, Writer!Wake PROVE WriterInv'
<1>1. /\ UNCHANGED <<lines, flusher, batch, stored, dropped, failed, stop, early>>
      /\ pending \in Seq(Nat) /\ pending # <<>> /\ pending' = Tail(pending) /\ pending[1] = 0 /\ lines \in Nat
  BY DEF Writer!Wake, Writer!IsLine, Writer!Sentinel, WriterInv, WriterTypes
<1>2. PICK k \in Nat, p \in Seq(Nat) :
        /\ p = pending' /\ DOMAIN pending = 1..(k + 1) /\ DOMAIN p = 1..k
        /\ \A i \in 1..k : i + 1 \in 1..(k + 1) /\ p[i] = pending[i + 1]
        /\ \A i \in 1..(k + 1) : i = 1 \/ (i - 1 \in 1..k /\ (i - 1) + 1 = i)
  <2>1. Len(pending) \in Nat /\ Len(pending) > 0
    BY <1>1
  <2>2. Len(pending) - 1 \in Nat /\ (Len(pending) - 1) + 1 = Len(pending)
    BY <2>1
  <2>3. DOMAIN Tail(pending) = 1..(Len(pending) - 1) /\ Tail(pending) \in Seq(Nat)
        /\ \A i \in 1..(Len(pending) - 1) : Tail(pending)[i] = pending[i + 1]
    BY <1>1, <2>1
  <2> DEFINE m == Len(pending) - 1
  <2>4. m \in Nat /\ Tail(pending) \in Seq(Nat)
    BY <2>2, <2>3
  <2>5. DOMAIN pending = 1..(m + 1)
    BY <1>1, <2>2
  <2>6. /\ \A i \in 1..m : i + 1 \in 1..(m + 1)
        /\ \A i \in 1..(m + 1) : i = 1 \/ (i - 1 \in 1..m /\ (i - 1) + 1 = i)
    BY <2>4
  <2> HIDE DEF m
  <2> QED
    BY <1>1, <2>3, <2>4, <2>5, <2>6 DEF m
<1>3. WriterTypes'
  BY <1>1, <1>2 DEF WriterInv, WriterTypes
<1>4. Waiting'
  <2>1. \A i \in 1..k : p[i] <= lines
    BY <1>1, <1>2 DEF WriterInv, Waiting
  <2>2. ASSUME NEW i \in 1..k, NEW j \in 1..k, i < j
        PROVE  (p[j] # 0 => p[i] < p[j]) /\ (p[j] = 0 => p[i] # 0)
    <3>1. PICK a \in 1..(k + 1), b \in 1..(k + 1) : a < b /\ p[i] = pending[a] /\ p[j] = pending[b]
      <4>1. i + 1 < j + 1
        BY <2>2
      <4> QED
        BY <1>2, <4>1
    <3> QED
      BY <1>2, <3>1, ZenonT(30) DEF WriterInv, Waiting
  <2> QED
    BY <1>1, <1>2, <2>1, <2>2 DEF Waiting
<1>5. \A j \in 1..k : j + 1 \in DOMAIN pending /\ p[j] = pending[j + 1]
  BY <1>2
<1>9. BatchInOrder' /\ StoredInOrder'
  <2>1. ASSUME NEW j \in 1..k, p[j] # 0
        PROVE  /\ \A i \in DOMAIN batch : batch[i] < p[j]
               /\ \A i \in DOMAIN stored : stored[i] < p[j]
    BY <1>5, <2>1 DEF WriterInv, BatchInOrder, StoredInOrder
  <2>2. BatchInOrder'
    BY <1>1, <1>2, <2>1 DEF WriterInv, BatchInOrder, Increasing
  <2>3. StoredInOrder'
    BY <1>1, <1>2, <2>1 DEF WriterInv, StoredInOrder, Increasing
  <2> QED
    BY <2>2, <2>3
<1>6. \A l : Has(pending, l)' => Has(pending, l)
  BY <1>2 DEF Has
<1>7. ASSUME NEW l \in 1..lines, Has(pending, l) PROVE Has(pending, l)'
  <2>1. PICK i \in 1..(k + 1) : pending[i] = l /\ l # 0
    BY <1>1, <1>2, <1>7 DEF Has
  <2>2. i - 1 \in 1..k /\ (i - 1) + 1 = i
    BY <1>1, <1>2, <2>1
  <2>3. p[i - 1] = l
    BY <1>2, <2>1, <2>2
  <2> QED
    BY <1>2, <2>2, <2>3 DEF Has
<1>8. Accounted' /\ Stopping'
  BY <1>1, <1>6, <1>7 DEF WriterInv, Accounted, Stopping, Counted, Has
<1> QED
  BY <1>3, <1>4, <1>8, <1>9 DEF WriterInv

\* Where the items of a batch come from: the first n that wait, without the sentinel.
BatchIs(n, m, e) ==
    /\ n <= Len(pending) /\ Len(pending) - n \in Nat
    /\ pending' \in Seq(Nat) /\ DOMAIN pending' = 1..(Len(pending) - n)
    /\ \A i \in 1..(Len(pending) - n) : pending'[i] = pending[n + i]
    /\ batch' \in Seq(Nat) /\ DOMAIN batch' = 1..m
    /\ \A i \in 1..m : e[i] \in 1..n /\ batch'[i] = pending[e[i]] /\ pending[e[i]] # 0
    /\ \A i, j \in 1..m : i < j => e[i] < e[j]
    /\ \A x \in 1..n : pending[x] # 0 => \E i \in 1..m : e[i] = x

LEMMA BatchFacts ==
  ASSUME WriterInv, Writer!Collect
  PROVE  \E n \in Nat, m \in Nat : \E e \in [1..m -> Nat] : BatchIs(n, m, e)
<1> DEFINE n == Writer!Taken
           k == Writer!SentinelAt
           L == Len(pending)
<1>1. pending \in Seq(Nat) /\ L \in Nat /\ DOMAIN pending = 1..L /\ BatchSize \in Nat \ {0}
  BY WriterBounds DEF WriterInv, WriterTypes, Writer!WriterAssumption
<1>2. k \in 1..(L + 1) /\ \A i \in 1..L : i # k <=> pending[i] # 0
  <2>1. CASE \E i \in DOMAIN pending : pending[i] = 0
    <3>1. k \in DOMAIN pending /\ pending[k] = 0
      BY <2>1 DEF Writer!SentinelAt, Writer!IsLine, Writer!Sentinel
    <3>2. ASSUME NEW i \in 1..L, i # k, pending[i] = 0 PROVE FALSE
      BY <1>1, <3>1, <3>2 DEF WriterInv, Waiting
    <3> QED
      BY <1>1, <3>1, <3>2
  <2>2. CASE ~ \E i \in DOMAIN pending : pending[i] = 0
    <3>1. k = L + 1
      BY <2>2 DEF Writer!SentinelAt, Writer!IsLine, Writer!Sentinel
    <3> QED
      BY <1>1, <2>2, <3>1
  <2> QED
    BY <2>1, <2>2
<1>3. n \in Nat /\ n <= L /\ L - n \in Nat
  BY <1>1, <1>2 DEF Writer!Taken
<1>4. /\ pending' = SubSeq(pending, n + 1, L)
      /\ batch' = IF k <= n THEN SubSeq(pending, 1, k - 1) \o SubSeq(pending, k + 1, n) ELSE SubSeq(pending, 1, n)
  BY DEF Writer!Collect
<1> HIDE DEF n, k
<1>5. /\ pending' \in Seq(Nat) /\ DOMAIN pending' = 1..(L - n)
      /\ \A i \in 1..(L - n) : pending'[i] = pending[n + i]
  BY <1>1, <1>3, <1>4, SMTT(30)
<1>6. CASE k <= n
  <2> DEFINE a == SubSeq(pending, 1, k - 1)
             b == SubSeq(pending, k + 1, n)
             e == [i \in 1..(n - 1) |-> IF i < k THEN i ELSE i + 1]
  <2>1. a \in Seq(Nat) /\ Len(a) = k - 1 /\ b \in Seq(Nat) /\ Len(b) = n - k
        /\ (\A i \in 1..(k - 1) : a[i] = pending[i]) /\ (\A i \in 1..(n - k) : b[i] = pending[k + i])
    BY <1>1, <1>2, <1>3, <1>6
  <2>2. batch' = a \o b
    BY <1>4, <1>6
  <2> HIDE DEF a, b
  <2>3. batch' \in Seq(Nat) /\ DOMAIN batch' = 1..(n - 1) /\ n - 1 \in Nat
    BY <2>1, <2>2, <1>2, <1>3, <1>6
  <2>4. \A i \in 1..(n - 1) : batch'[i] = IF i < k THEN a[i] ELSE b[i - (k - 1)]
    BY <2>1, <2>2, <1>2, <1>3, <1>6
  <2>5. ASSUME NEW i \in 1..(n - 1) PROVE e[i] \in 1..n /\ e[i] # k /\ batch'[i] = pending[e[i]]
    <3>1. CASE i < k
      BY <2>1, <2>4, <3>1, <1>2, <1>3
    <3>2. CASE i >= k
      BY <2>1, <2>4, <3>2, <1>2, <1>3
    <3> QED
      BY <3>1, <3>2, <1>2, <1>3
  <2>6. \A i, j \in 1..(n - 1) : i < j => e[i] < e[j]
    BY <1>2, <1>3
  <2>7. \A x \in 1..n : pending[x] # 0 => \E i \in 1..(n - 1) : e[i] = x
    <3>1. ASSUME NEW x \in 1..n, pending[x] # 0, x < k PROVE x \in 1..(n - 1) /\ e[x] = x
      BY <3>1, <1>2, <1>3, <1>6
    <3>2. ASSUME NEW x \in 1..n, pending[x] # 0, x > k PROVE x - 1 \in 1..(n - 1) /\ e[x - 1] = x
      BY <3>2, <1>2, <1>3, <1>6
    <3>3. ASSUME NEW x \in 1..n, pending[x] # 0 PROVE x < k \/ x > k
      BY <3>3, <1>1, <1>2, <1>3, <1>6
    <3> QED
      BY <3>1, <3>2, <3>3
  <2>8. \A i \in 1..(n - 1) : pending[e[i]] # 0
    BY <2>5, <1>1, <1>2, <1>3
  <2>9. e \in [1..(n - 1) -> Nat]
    BY <1>2, <1>3
  <2> HIDE DEF e
  <2>10. BatchIs(n, n - 1, e)
    BY <1>3, <1>5, <2>3, <2>5, <2>6, <2>7, <2>8 DEF BatchIs
  <2> QED
    BY <1>3, <2>3, <2>9, <2>10
<1>7. CASE ~(k <= n)
  <2> DEFINE e == [i \in 1..n |-> i]
  <2>1. batch' = SubSeq(pending, 1, n)
    BY <1>4, <1>7
  <2>2. batch' \in Seq(Nat) /\ DOMAIN batch' = 1..n /\ \A i \in 1..n : batch'[i] = pending[i] /\ pending[i] # 0
    BY <2>1, <1>1, <1>2, <1>3, <1>7
  <2>3. e \in [1..n -> Nat] /\ \A i \in 1..n : e[i] = i
    BY <1>3
  <2> HIDE DEF e
  <2>4. BatchIs(n, n, e)
    BY <1>3, <1>5, <2>2, <2>3 DEF BatchIs
  <2> QED
    BY <1>3, <2>3, <2>4
<1> QED
  BY <1>6, <1>7

LEMMA CollectKeeps == ASSUME WriterInv, Writer!Collect PROVE WriterInv'
<1>1. PICK n \in Nat, m \in Nat : \E e \in [1..m -> Nat] : BatchIs(n, m, e)
  BY BatchFacts
<1>2. PICK e \in [1..m -> Nat] : BatchIs(n, m, e)
  BY <1>1
<1>3. PICK w \in Nat, p \in Seq(Nat), b \in Seq(Nat) :
        /\ p = pending' /\ b = batch' /\ w = Len(pending) - n
        /\ DOMAIN pending = 1..(n + w) /\ DOMAIN p = 1..w /\ DOMAIN b = 1..m
        /\ \A i \in 1..w : p[i] = pending[n + i]
        /\ \A i \in 1..m : b[i] = pending[e[i]]
  <2>1. pending \in Seq(Nat) /\ Len(pending) \in Nat
    BY DEF WriterInv, WriterTypes
  <2>2. PICK w \in Nat : w = Len(pending) - n
    BY <1>2 DEF BatchIs
  <2>3. Len(pending) = n + w /\ DOMAIN pending = 1..Len(pending)
    BY <2>1, <2>2
  <2>4. /\ pending' \in Seq(Nat) /\ batch' \in Seq(Nat) /\ DOMAIN pending' = 1..w /\ DOMAIN batch' = 1..m
        /\ \A i \in 1..w : pending'[i] = pending[n + i]
        /\ \A i \in 1..m : batch'[i] = pending[e[i]]
    BY <1>2, <2>2 DEF BatchIs
  <2> QED
    BY <2>2, <2>3, <2>4
<1>4. /\ \A i \in 1..m : e[i] \in 1..n /\ e[i] \in 1..(n + w) /\ pending[e[i]] # 0 /\ b[i] # 0
      /\ \A i, j \in 1..m : i < j => e[i] < e[j]
      /\ \A x \in 1..n : pending[x] # 0 => \E i \in 1..m : e[i] = x
  BY <1>2, <1>3 DEF BatchIs
<1>5. /\ UNCHANGED <<lines, stored, dropped, failed, stop, early>> /\ flusher' = "posting" /\ flusher = "idle"
      /\ pending \in Seq(Nat) /\ stored \in Seq(Nat) /\ lines \in Nat /\ batch = <<>>
  BY DEF Writer!Collect, WriterInv, WriterTypes
<1>6. \A j \in 1..w : n + j \in 1..(n + w) /\ p[j] = pending[n + j] /\ (\A i \in 1..m : e[i] < n + j)
  BY <1>3, <1>4
<1>7. /\ \A i \in 1..(n + w) : pending[i] <= lines /\ pending[i] \in Nat
      /\ \A i, j \in 1..(n + w) : i < j /\ pending[j] # 0 => pending[i] < pending[j]
      /\ \A i, j \in 1..(n + w) : i < j /\ pending[j] = 0 => pending[i] # 0
  <2>3. \A i \in DOMAIN pending : pending[i] <= lines
    BY Zenon DEF WriterInv, Waiting
  <2>4. \A i \in DOMAIN pending : pending[i] \in Nat
    BY <1>5
  <2>1. \A i \in 1..(n + w) : pending[i] <= lines /\ pending[i] \in Nat
    BY <1>3, <2>3, <2>4, Zenon
  <2>2. /\ \A i, j \in 1..(n + w) : i < j /\ pending[j] # 0 => pending[i] < pending[j]
        /\ \A i, j \in 1..(n + w) : i < j /\ pending[j] = 0 => pending[i] # 0
    BY <1>3, Zenon DEF WriterInv, Waiting
  <2> QED
    BY <2>1, <2>2
<1>8. WriterTypes'
  BY <1>3, <1>5 DEF WriterInv, WriterTypes
<1>9. Waiting'
  <2>1. ASSUME NEW i \in 1..w, NEW j \in 1..w, i < j
        PROVE  (p[j] # 0 => p[i] < p[j]) /\ (p[j] = 0 => p[i] # 0)
    <3>1. n + i \in 1..(n + w) /\ n + j \in 1..(n + w) /\ n + i < n + j
      BY <2>1
    <3> QED
      BY <1>6, <1>7, <3>1
  <2> QED
    BY <1>3, <1>5, <1>6, <1>7, <2>1 DEF Waiting
<1>10. BatchInOrder'
  <2>1. ASSUME NEW i \in 1..m, NEW j \in 1..m, i < j PROVE b[i] < b[j]
    <3>1. b[i] = pending[e[i]] /\ e[i] \in 1..(n + w) /\ b[j] = pending[e[j]] /\ e[j] \in 1..(n + w)
      BY <1>3, <1>4
    <3>2. e[i] < e[j] /\ pending[e[j]] # 0
      BY <1>4, <2>1
    <3> QED
      BY <1>7, <3>1, <3>2
  <2>2. ASSUME NEW i \in 1..m PROVE 0 < b[i] /\ b[i] <= lines
    <3>1. b[i] = pending[e[i]] /\ e[i] \in 1..(n + w) /\ pending[e[i]] # 0
      BY <1>3, <1>4, <2>2
    <3> QED
      BY <1>5, <1>7, <3>1
  <2>3. ASSUME NEW i \in 1..m, NEW j \in 1..w, p[j] # 0 PROVE b[i] < p[j]
    BY <1>3, <1>4, <1>6, <1>7, <2>3
  <2> QED
    BY <1>3, <1>5, <2>1, <2>2, <2>3 DEF BatchInOrder, Increasing
<1>11. StoredInOrder'
  <2>1. \A i \in DOMAIN stored, x \in 1..(n + w) : pending[x] # 0 => stored[i] < pending[x]
    BY <1>3 DEF WriterInv, StoredInOrder
  <2>2. /\ \A i \in DOMAIN stored, j \in 1..m : stored[i] < b[j]
        /\ \A i \in DOMAIN stored, j \in 1..w : p[j] # 0 => stored[i] < p[j]
    BY <1>3, <1>4, <1>6, <2>1, ZenonT(30)
  <2>3. Increasing(stored) /\ \A i \in DOMAIN stored : stored[i] <= lines
    BY DEF WriterInv, StoredInOrder
  <2> QED
    BY <1>3, <1>5, <2>2, <2>3 DEF StoredInOrder, Increasing
<1>12. Accounted'
  <2>1. ASSUME NEW l \in 1..lines, Has(pending, l) PROVE Has(b, l) \/ Has(p, l)
    <3>1. PICK x \in 1..(n + w) : pending[x] = l /\ l # 0
      BY <1>3, <2>1 DEF Has
    <3>2. CASE x <= n
      <4>1. x \in 1..n
        BY <3>1, <3>2
      <4>2. PICK i \in 1..m : e[i] = x
        BY <1>4, <3>1, <4>1
      <4> QED
        BY <1>3, <3>1, <4>2 DEF Has
    <3>3. CASE x > n
      <4>1. x - n \in 1..w /\ n + (x - n) = x
        BY <3>3
      <4> QED
        BY <1>3, <3>1, <4>1 DEF Has
    <3> QED
      BY <3>2, <3>3
  <2>2. \A l : ~Has(batch, l)
    BY <1>5 DEF Has
  <2>3. \A l \in 1..lines : Counted(l) \/ Has(b, l) \/ Has(p, l)
    BY <2>1, <2>2 DEF WriterInv, Accounted
  <2>4. /\ \A l : Counted(l) => Counted(l)'
        /\ \A l : Has(b, l) => Has(batch, l)'
        /\ \A l : Has(p, l) => Has(pending, l)'
    BY <1>3, <1>5 DEF Counted, Has
  <2>5. lines' = lines
    BY <1>5
  <2> QED
    BY <2>3, <2>4, <2>5, Zenon DEF Accounted
<1>13. Stopping'
  <2>1. ASSUME NEW j \in 1..w, p[j] = 0 PROVE Has(pending, 0)
    <3>1. n + j \in DOMAIN pending /\ pending[n + j] = 0
      BY <1>3, <1>6, <2>1
    <3> QED
      BY <3>1 DEF Has
  <2> QED
    BY <1>3, <1>5, <2>1 DEF WriterInv, Stopping, Has
<1> QED
  BY <1>8, <1>9, <1>10, <1>11, <1>12, <1>13 DEF WriterInv

\* A batch that is stored follows what is stored.
LEMMA StoreFacts ==
  ASSUME WriterInv
  PROVE  LET s == stored \o batch IN
         /\ s \in Seq(Nat) /\ Increasing(s)
         /\ \A i \in DOMAIN s : s[i] <= lines
         /\ \A i \in DOMAIN s, j \in DOMAIN pending : pending[j] # 0 => s[i] < pending[j]
         /\ \A l : Has(s, l) <=> Has(stored, l) \/ Has(batch, l)
<1> DEFINE s == stored \o batch
           k == Len(stored)
           m == Len(batch)
<1>1. /\ stored \in Seq(Nat) /\ batch \in Seq(Nat) /\ k \in Nat /\ m \in Nat
      /\ DOMAIN stored = 1..k /\ DOMAIN batch = 1..m
  BY DEF WriterInv, WriterTypes
<1>2. /\ s \in Seq(Nat) /\ DOMAIN s = 1..(k + m)
      /\ \A i \in 1..(k + m) : s[i] = IF i <= k THEN stored[i] ELSE batch[i - k]
  BY <1>1
<1> HIDE DEF s, k, m
<1>3. /\ \A i \in 1..k : i \in 1..(k + m) /\ s[i] = stored[i]
      /\ \A i \in 1..m : k + i \in 1..(k + m) /\ s[k + i] = batch[i]
  BY <1>1, <1>2
<1>4. \A i \in 1..(k + m) : i \in 1..k \/ (i > k /\ i - k \in 1..m)
  BY <1>1
<1>5. ASSUME NEW i \in 1..(k + m), NEW j \in 1..(k + m), i < j PROVE s[i] < s[j]
  <2>1. CASE j \in 1..k
    <3>1. i \in 1..k
      BY <1>1, <1>5, <2>1
    <3> QED
      BY <1>1, <1>3, <1>5, <2>1, <3>1 DEF WriterInv, StoredInOrder, Increasing
  <2>2. CASE i \in 1..k /\ j > k /\ j - k \in 1..m
    <3>1. s[i] = stored[i] /\ s[j] = batch[j - k]
      BY <1>1, <1>2, <1>3, <2>2
    <3> QED
      BY <1>1, <2>2, <3>1 DEF WriterInv, StoredInOrder
  <2>3. CASE i > k /\ i - k \in 1..m /\ j > k /\ j - k \in 1..m
    <3>1. s[i] = batch[i - k] /\ s[j] = batch[j - k] /\ i - k < j - k
      BY <1>1, <1>2, <1>5, <2>3
    <3> QED
      BY <1>1, <2>3, <3>1 DEF WriterInv, BatchInOrder, Increasing
  <2> QED
    BY <1>1, <1>4, <1>5, <2>1, <2>2, <2>3
<1>6. ASSUME NEW i \in 1..(k + m)
      PROVE  /\ s[i] <= lines
             /\ \A j \in DOMAIN pending : pending[j] # 0 => s[i] < pending[j]
  <2>1. CASE i \in 1..k
    BY <1>1, <1>3, <2>1 DEF WriterInv, StoredInOrder
  <2>2. CASE i > k /\ i - k \in 1..m
    <3>1. s[i] = batch[i - k]
      BY <1>1, <1>2, <2>2
    <3> QED
      BY <1>1, <2>2, <3>1 DEF WriterInv, BatchInOrder
  <2> QED
    BY <1>4, <2>1, <2>2
<1>7. ASSUME NEW l PROVE Has(s, l) <=> Has(stored, l) \/ Has(batch, l)
  <2>1. ASSUME NEW i \in 1..(k + m), s[i] = l PROVE Has(stored, l) \/ Has(batch, l)
    <3>1. CASE i \in 1..k
      BY <1>1, <1>3, <2>1, <3>1 DEF Has
    <3>2. CASE i > k /\ i - k \in 1..m
      <4>1. s[i] = batch[i - k]
        BY <1>1, <1>2, <3>2
      <4> QED
        BY <1>1, <2>1, <3>2, <4>1 DEF Has
    <3> QED
      BY <1>4, <3>1, <3>2
  <2> QED
    BY <1>1, <1>2, <1>3, <2>1 DEF Has
<1> QED
  BY <1>2, <1>5, <1>6, <1>7 DEF s, Increasing

LEMMA PostKeeps == ASSUME WriterInv, Writer!Posted \/ Writer!PostFails PROVE WriterInv'
<1>1. /\ UNCHANGED <<lines, pending, dropped, stop, early>> /\ flusher = "posting"
      /\ batch' = <<>> /\ flusher' = "idle" /\ <<>> \in Seq(Nat)
      /\ stored' = stored \/ stored' = stored \o batch
      /\ \A l : l \in failed => l \in failed'
      /\ stored' = stored => \A l : Has(batch, l) => l \in failed'
  BY DEF Writer!Posted, Writer!PostFails, Has
<1>2. /\ stored' \in Seq(Nat) /\ Increasing(stored')
      /\ \A i \in DOMAIN stored' : stored'[i] <= lines
      /\ \A i \in DOMAIN stored', j \in DOMAIN pending : pending[j] # 0 => stored'[i] < pending[j]
      /\ \A l : Has(stored, l) => Has(stored', l)
      /\ \A l : Has(batch, l) => Has(stored', l) \/ l \in failed'
  <2>1. CASE stored' = stored
    BY <1>1, <2>1 DEF WriterInv, WriterTypes, StoredInOrder
  <2>2. CASE stored' = stored \o batch
    BY <2>2, StoreFacts
  <2> QED
    BY <1>1, <2>1, <2>2
<1>3. WriterTypes' /\ Waiting'
  BY <1>1, <1>2 DEF WriterInv, WriterTypes, Waiting
<1>4. BatchInOrder' /\ StoredInOrder'
  BY <1>1, <1>2 DEF WriterInv, BatchInOrder, StoredInOrder, Increasing
<1>5. \A l : Counted(l) \/ Has(batch, l) => Counted(l)'
  BY <1>1, <1>2 DEF Counted, Has
<1>6. Accounted' /\ Stopping'
  BY <1>1, <1>5 DEF WriterInv, Accounted, Stopping, Has
<1> QED
  BY <1>3, <1>4, <1>6 DEF WriterInv

\* Nothing waits, so that every line of before the shutdown is accounted for.
LEMMA ExitKeeps == ASSUME WriterInv, Writer!Exit PROVE WriterInv'
<1>1. /\ UNCHANGED <<lines, pending, batch, stored, dropped, failed, stop, early>>
      /\ flusher = "idle" /\ flusher' = "done" /\ stop /\ pending = <<>> /\ batch = <<>>
  BY DEF Writer!Exit, WriterInv, WriterTypes
<1>2. \A l \in 1..early : l \in 1..lines
  BY DEF WriterInv, WriterTypes
<1>3. \A l : ~Has(pending, l) /\ ~Has(batch, l)
  BY <1>1 DEF Has
<1>4. \A l \in 1..early : Counted(l)
  BY <1>2, <1>3 DEF WriterInv, Accounted
<1>5. Stopping'
  BY <1>1, <1>4 DEF WriterInv, Stopping, Counted, Has
<1> QED
  BY <1>1, <1>5 DEF WriterInv, WriterTypes, Waiting, BatchInOrder, StoredInOrder, Increasing, Accounted, Counted, Has

LEMMA WriterNext == ASSUME WriterInv, [Writer!Next]_writerVars PROVE WriterInv'
<1>1. CASE UNCHANGED writerVars
  BY <1>1 DEF writerVars, WriterInv, WriterTypes, Waiting, BatchInOrder, StoredInOrder, Increasing, Accounted,
    Stopping, Counted, Has
<1> QED
  BY <1>1, IngestKeeps, WakeKeeps, CollectKeeps, PostKeeps, CloseKeeps, ExitKeeps DEF Writer!Next

LEMMA WriterSound == ASSUME WriterInv PROVE Writer!LinesAreAccountedFor
BY DEF WriterInv, StoredInOrder, Increasing, Stopping, Counted, Has, Writer!LinesAreAccountedFor

----------------------------------------------------------------------------
\* "Load older" shows every line once (LogPages); the live tail shows lines in order, and
\* while no answer of VictoriaLogs was cut every line that it does not count as dropped
\* (LiveTail), whatever lines the cut answers leave; the event stream skips nothing without a
\* word (EventBroker), and the log writer stores or counts every line of before the
\* shutdown (LogWriter).
THEOREM LinesStayExact == MCSpec => []LinesAreExact
<1>1. MCInit => PagesInv /\ TailInv /\ WriterInv
  BY PageInit, TailInit, WriterInit DEF MCInit
<1>2. PagesInv /\ [MCNext]_allVars => PagesInv'
  <2>1. [MCNext]_allVars => [Pages!Next]_pageVars
    BY DEF MCNext, allVars, pageVars
  <2> QED
    BY <2>1, PageNext
<1>3. TailInv /\ [MCNext]_allVars => TailInv'
  <2>1. [MCNext]_allVars => [Following!Next]_tailVars
    BY DEF MCNext, allVars, tailVars
  <2> QED
    BY <2>1, TailNext
<1>4. WriterInv /\ [MCNext]_allVars => WriterInv'
  <2>1. [MCNext]_allVars => [Writer!Next]_writerVars
    BY DEF MCNext, allVars, writerVars
  <2> QED
    BY <2>1, WriterNext
<1>5. MCSpec => [](Stream!EventsAreConsecutive)
  BY StreamsAreConsecutive
<1>6. PagesInv /\ TailInv /\ WriterInv /\ Stream!EventsAreConsecutive => LinesAreExact
  BY PagesSound, TailSound, WriterSound DEF LinesAreExact
<1> QED
  BY <1>1, <1>2, <1>3, <1>4, <1>5, <1>6, PTL DEF MCSpec

----------------------------------------------------------------------------
(* Startup and shutdown (Process).  The invariant says of the boot what it   *)
(* has come past, and of the shutdown what it has not come to.               *)

LEMMA BootSteps ==
  /\ Len(Process!Boot) = 26
  /\ Process!Boot[1] = "engine" /\ Process!Boot[2] = "migrations" /\ Process!Boot[3] = "secrets_refresh"
  /\ Process!Boot[4] = "register" /\ Process!Boot[5] = "persist" /\ Process!Boot[6] = "http"
  /\ Process!Boot[7] = "unifi_http" /\ Process!Boot[8] = "synology_http" /\ Process!Boot[9] = "ha_websocket"
  /\ Process!Boot[10] = "ha_registry" /\ Process!Boot[11] = "log_flusher" /\ Process!Boot[12] = "clear_quarantine"
  /\ Process!Boot[13] = "build_sources" /\ Process!Boot[14] = "docker_of_actions" /\ Process!Boot[15] = "wire"
  /\ Process!Boot[16] = "scheduler" /\ Process!Boot[17] = "docker_events" /\ Process!Boot[18] = "probe_loops"
  /\ Process!Boot[19] = "image_events" /\ Process!Boot[20] = "override_loader" /\ Process!Boot[21] = "drain"
  /\ Process!Boot[22] = "first_runs" /\ Process!Boot[23] = "transcript_rotation"
  /\ Process!Boot[24] = "alertmanager" /\ Process!Boot[25] = "vector" /\ Process!Boot[26] = "user_rules"
BY DEF Process!Boot, Process!Core, Process!Loading, Process!Clients, Process!Writers, Process!DockerActions,
   Process!Loops, Process!FirstRuns, Process!Rendering

LEMMA ShutdownSteps ==
  /\ Len(Process!Shutdown) = 22
  /\ Process!Shutdown[1] = "drain" /\ Process!Shutdown[2] = "override_loader" /\ Process!Shutdown[3] = "build_sources"
  /\ Process!Shutdown[4] = "compose" /\ Process!Shutdown[5] = "probe_loops" /\ Process!Shutdown[6] = "docker_events"
  /\ Process!Shutdown[7] = "image_events" /\ Process!Shutdown[8] = "auto_fix"
  /\ Process!Shutdown[9] = "transcript_rotation" /\ Process!Shutdown[10] = "ha_registry"
  /\ Process!Shutdown[11] = "ha_websocket" /\ Process!Shutdown[12] = "scheduler"
  /\ Process!Shutdown[13] = "secrets_refresh" /\ Process!Shutdown[14] = "log_flusher"
  /\ Process!Shutdown[15] = "pihole_logout" /\ Process!Shutdown[16] = "pihole_rw_logout"
  /\ Process!Shutdown[17] = "synology_logout" /\ Process!Shutdown[18] = "http" /\ Process!Shutdown[19] = "unifi_http"
  /\ Process!Shutdown[20] = "synology_http" /\ Process!Shutdown[21] = "docker" /\ Process!Shutdown[22] = "engine"
BY DEF Process!Shutdown, Process!StopTasks, Process!Logouts, Process!CloseClients

\* The index of a step that is looked up.
LEMMA BootIndex ==
  /\ \A i \in 1..26 : /\ Process!Boot[i] = "engine" <=> i = 1
                      /\ Process!Boot[i] = "register" <=> i = 4
                      /\ Process!Boot[i] = "http" <=> i = 6
                      /\ Process!Boot[i] = "unifi_http" <=> i = 7
                      /\ Process!Boot[i] = "synology_http" <=> i = 8
                      /\ Process!Boot[i] = "docker_of_actions" <=> i = 14
                      /\ Process!Boot[i] = "wire" <=> i = 15
                      /\ Process!Boot[i] = "scheduler" <=> i = 16
BY BootSteps

LEMMA BootKinds ==
  /\ \A i \in 1..26 : /\ Process!Boot[i] \in {"engine", "migrations", "persist"} => i <= 5
                      /\ Process!Boot[i] \in {"secrets_refresh"} => i >= 3
                      /\ Process!Boot[i] \in {"log_flusher"} => i >= 11
                      /\ Process!Boot[i] \in {"docker_events", "image_events", "override_loader", "drain",
                                              "probe_loops", "transcript_rotation"} => i > 16
                      /\ Process!Boot[i] \notin Process!OfRequests
                      /\ Process!Boot[i] \notin {"docker", "docker_of_collectors"}
BY BootSteps DEF Process!OfRequests

LEMMA ShutdownIndex ==
  /\ \A i \in 1..22 : /\ Process!Shutdown[i] = "scheduler" <=> i = 12
                      /\ Process!Shutdown[i] = "http" <=> i = 18
                      /\ Process!Shutdown[i] = "unifi_http" <=> i = 19
                      /\ Process!Shutdown[i] = "synology_http" <=> i = 20
                      /\ Process!Shutdown[i] = "docker" <=> i = 21
                      /\ Process!Shutdown[i] = "engine" <=> i = 22
                      /\ Process!Shutdown[i] \notin {"docker_of_actions", "docker_of_collectors"}
BY ShutdownSteps

\* What has been done of a boot, and of a shutdown.
Booted(s) == \E i \in 1..step : Process!Boot[i] = s
Stopped(s) == \E i \in 1..step : Process!Shutdown[i] = s

OfDockerClient == {"override_loader", "docker_events", "auto_fix", "transcript_rotation", "image_events"}

LifeTypes ==
    /\ phase \in {"boot", "up", "stopping", "down", "aborted"}
    /\ step \in Nat
    /\ phase = "boot" => step < 26
    /\ phase = "stopping" => step < 22
    /\ DOMAIN given = Process!Docked
    /\ \A c \in Process!Docked : given[c] \in {None, "docker_of_actions", "docker_of_collectors"}
    /\ alive \subseteq Process!BackgroundTask \cup Process!OfRequests
    /\ open \subseteq Process!Client
    /\ dockerClient \in {None, "docker_of_actions", "docker_of_collectors"}
    /\ registered \cap {"docker_socket", "docker_discoverer"} # {} => "docker" \in config

\* A boot has opened what it came past, and what is alive comes before where it is.
BootOK ==
    phase = "boot" =>
      /\ \A x \in Process!ContextClients : Booted(x) => x \in open
      /\ \A t \in alive \ {"probe_loops"} : Booted(t)
      /\ ticking # {} \/ "probe_loops" \in alive => Booted("scheduler")
      /\ Booted("docker_of_actions") /\ "docker" \in config => dockerClient # None
      /\ "docker_of_actions" \in open => Booted("docker_of_actions")
      /\ "docker_of_collectors" \in open => Booted("wire")

\* A shutdown leaves alone what it has not come to.
StopOK ==
    /\ phase \in {"up", "stopping"} =>
        \A x \in Process!ContextClients : x \in open \/ (phase = "stopping" /\ Stopped(x))
    /\ phase = "stopping" =>
        /\ \A t \in alive \ {"probe_loops"} : ~Stopped(t)
        /\ \A x \in open : ~Stopped(x)
        /\ Stopped("docker") => dockerClient \notin open
        /\ ticking # {} => ~Stopped("scheduler")
    /\ phase = "down" =>
        /\ alive \subseteq {"probe_loops"} /\ ticking = {}
        /\ open \subseteq Process!Client \ Process!ContextClients /\ dockerClient \notin open
    /\ phase = "aborted" => alive = {} /\ ticking = {}

Closed == phase \in {"down", "aborted"} \/ (phase = "stopping" /\ Stopped("docker"))

\* The clients of docker, which are two if docker_socket has one of its own.
DockerOK ==
    /\ ~Closed => /\ dockerClient # None => dockerClient \in open
                  /\ \A c \in Process!Docked : given[c] # None => given[c] \in open
    /\ "docker_of_collectors" \in open => dockerClient = "docker_of_collectors"
    /\ "docker_of_actions" \in open => dockerClient = "docker_of_actions" \/ "docker_socket" \in registered
    /\ alive \cap OfDockerClient # {} => dockerClient # None
    /\ "compose" \in alive => "docker_of_actions" \in open

LifespanInv == LifeTypes /\ BootOK /\ StopOK /\ DockerOK

LEMMA NoneIsNoClient == None \notin Process!Client
BY LifespanBounds DEF Process!LifespanAssumption

LEMMA LifespanInit == Process!Init => LifespanInv
<1> SUFFICES ASSUME Process!Init PROVE LifespanInv
  OBVIOUS
<1>1. LifeTypes
  BY DEF Process!Init, LifeTypes
<1>2. BootOK /\ StopOK
  BY DEF Process!Init, BootOK, StopOK, Booted
<1>3. DockerOK
  BY DEF Process!Init, DockerOK
<1> QED
  BY <1>1, <1>2, <1>3 DEF LifespanInv

\* A step of the boot, whatever it does to the clients of docker.
LEMMA BootEffect ==
  ASSUME LifespanInv, Process!BootStep
  PROVE  LET s == Process!Boot[step + 1] IN
         /\ step + 1 \in 1..26 /\ phase = "boot" /\ UNCHANGED <<config, ticking>>
         /\ IF step + 1 = 26 THEN step' = 0 /\ phase' = "up" ELSE step' = step + 1 /\ phase' = "boot"
         /\ open \subseteq open' /\ open' \subseteq open \cup {s, dockerClient', "docker_of_collectors"}
         /\ open' \subseteq Process!Client
         /\ s \in Process!ContextClients => s \in open'
         /\ alive \subseteq alive' /\ alive' \subseteq alive \cup {s}
         /\ alive' \subseteq Process!BackgroundTask \cup Process!OfRequests
         /\ s # "wire" => UNCHANGED given
         /\ s # "register" => UNCHANGED registered
<1> DEFINE s == Process!Boot[step + 1]
<1>1. step \in Nat /\ step < 26 /\ phase = "boot"
  BY DEF LifespanInv, LifeTypes, Process!BootStep
<1>2. step + 1 \in 1..26 /\ UNCHANGED <<config, ticking>>
  BY <1>1 DEF Process!BootStep
<1>3. IF step + 1 = 26 THEN step' = 0 /\ phase' = "up" ELSE step' = step + 1 /\ phase' = "boot"
  BY <1>1, BootSteps DEF Process!BootStep, Process!Advance
<1>4. LifeTypes /\ s \notin {"docker", "docker_of_collectors"}
  BY <1>2, BootKinds DEF LifespanInv
<1>5. CASE Process!Enabled(s) /\ s \in Process!Client /\ Process!Opens(s)
  BY <1>2, <1>3, <1>4, <1>1, <1>5 DEF LifeTypes, Process!Opens, Process!Client, Process!ContextClients
<1>6. CASE s = "register" /\ Process!Register
  BY <1>2, <1>3, <1>4, <1>1, <1>6 DEF LifeTypes, Process!Register, Process!Client, Process!ContextClients
<1>7. CASE s = "wire" /\ Process!Wire
  <2>1. UNCHANGED <<registered, alive>> /\ open' = open \cup ({dockerClient'} \ {None})
        /\ dockerClient' \in {dockerClient, "docker_of_collectors"}
    BY <1>7 DEF Process!Wire, Process!WireDocker
  <2>2. open' \subseteq Process!Client
    BY <1>4, <2>1 DEF LifeTypes, Process!Client
  <2>3. s \notin Process!ContextClients
    BY <1>7 DEF Process!ContextClients
  <2> QED
    BY <1>2, <1>3, <1>4, <1>1, <1>7, <2>1, <2>2, <2>3 DEF LifeTypes
<1>8. CASE Process!Enabled(s) /\ s \in Process!BackgroundTask /\ Process!Begins(s)
  <2>1. alive' \in {alive, alive \cup {s}} /\ UNCHANGED <<registered, dockerClient, given, open>>
    BY <1>8 DEF Process!Begins
  <2>2. s \notin Process!ContextClients
    BY <1>8 DEF Process!ContextClients, Process!BackgroundTask
  <2> QED
    BY <1>2, <1>3, <1>4, <1>1, <1>8, <2>1, <2>2 DEF LifeTypes
<1>9. CASE /\ ~Process!Enabled(s) \/ s \notin Process!Client \cup {"register", "wire"} \cup Process!BackgroundTask
           /\ UNCHANGED <<registered, dockerClient, given, open, alive>>
  <2>1. s \notin Process!ContextClients
    BY <1>9 DEF Process!ContextClients, Process!Client, Process!Enabled
  <2> QED
    BY <1>2, <1>3, <1>4, <1>1, <1>9, <2>1 DEF LifeTypes
<1> QED
  BY <1>5, <1>6, <1>7, <1>8, <1>9 DEF Process!BootStep

\* What it does to the clients of docker, and to what works with them.
LEMMA BootOfDocker ==
  ASSUME LifespanInv, Process!BootStep
  PROVE  LET s == Process!Boot[step + 1] IN
         /\ dockerClient' \in {None, "docker_of_actions", "docker_of_collectors"}
         /\ dockerClient # None => dockerClient' # None
         /\ s = "docker_of_actions" /\ "docker" \in config => dockerClient' # None
         /\ s \in alive' /\ s \in OfDockerClient /\ s \notin alive => dockerClient # None
         /\ registered' \cap {"docker_socket", "docker_discoverer"} # {} => "docker" \in config
         /\ DockerOK'
         /\ "docker_of_actions" \in open' => "docker_of_actions" \in open \/ s = "docker_of_actions"
         /\ "docker_of_collectors" \in open' => "docker_of_collectors" \in open \/ s = "wire"
         /\ DOMAIN given' = Process!Docked
         /\ \A c \in Process!Docked : given'[c] \in {None, "docker_of_actions", "docker_of_collectors"}
<1> DEFINE s == Process!Boot[step + 1]
<1>1. /\ LifeTypes /\ BootOK /\ DockerOK /\ step + 1 \in 1..26 /\ phase = "boot" /\ ~Closed /\ config' = config
      /\ phase' \in {"boot", "up"} /\ ~Closed' /\ step \in Nat
  <2>1. step + 1 \in 1..26 /\ phase = "boot" /\ config' = config /\ phase' \in {"boot", "up"}
    BY BootEffect, Zenon
  <2>2. LifeTypes /\ step \in Nat
    BY DEF LifespanInv, LifeTypes
  <2> QED
    BY <2>1, <2>2 DEF LifespanInv, Closed
<1>2. s \notin {"docker", "docker_of_collectors"} /\ s \notin Process!OfRequests
  BY <1>1, BootKinds
<1>3. \A x : Booted(x) => \E i \in 1..26 : i <= step /\ Process!Boot[i] = x
  BY <1>1 DEF Booted
<1>4. "compose" \notin alive /\ "auto_fix" \notin alive
  BY <1>1, <1>3, BootKinds DEF BootOK, Process!OfRequests
<1>5. CASE Process!Enabled(s) /\ s \in Process!Client /\ Process!Opens(s)
  <2>1. UNCHANGED <<registered, given, alive>> /\ open' = open \cup {s}
        /\ dockerClient' = IF s = "docker_of_actions" THEN s ELSE dockerClient
    BY <1>5 DEF Process!Opens
  <2>2. CASE s = "docker_of_actions"
    <3>1. step + 1 = 14
      BY <1>1, <2>2, BootIndex
    <3>2. "docker_of_collectors" \notin open
      BY <1>1, <1>3, <3>1, BootIndex DEF BootOK
    <3> QED
      <4>1. dockerClient' = "docker_of_actions" /\ None # "docker_of_actions" /\ open' = open \cup {"docker_of_actions"}
        BY <2>1, <2>2, NoneIsNoClient DEF Process!Client
      <4>2. \A c \in Process!Docked : given'[c] # None => given'[c] \in open'
        BY <1>1, <2>1, <4>1 DEF DockerOK
      <4>3. DockerOK'
        BY <1>1, <1>4, <2>1, <3>2, <4>1, <4>2 DEF DockerOK
      <4> QED
        BY <1>1, <2>1, <2>2, <4>1, <4>3 DEF LifeTypes, OfDockerClient
  <2>3. CASE s # "docker_of_actions"
    <3>1. dockerClient' = dockerClient
      BY <2>1, <2>3
    <3> QED
      BY <1>1, <1>2, <1>4, <1>5, <2>1, <2>3, <3>1 DEF LifeTypes, DockerOK, OfDockerClient
  <2> QED
    BY <2>2, <2>3
<1>6. CASE s = "register" /\ Process!Register
  <2>1. registered' = Process!LoadAll(config, degraded) /\ UNCHANGED <<dockerClient, given, open, alive>>
    BY <1>6 DEF Process!Register
  <2>2. registered' \cap {"docker_socket", "docker_discoverer"} # {} => "docker" \in config
    BY <2>1 DEF Process!LoadAll, Process!Builtins, Process!HostAndLogs, Process!Reconcilers,
       Process!DockerAndUpdates, Process!Integrations
  <2>3. step + 1 = 4
    BY <1>1, <1>6, BootIndex
  <2>4. "docker_of_actions" \notin open
    BY <1>1, <1>3, <2>3, BootIndex DEF BootOK
  <2> QED
    <3>1. DockerOK'
      BY <1>1, <2>1, <2>4 DEF DockerOK
    <3> QED
      BY <1>1, <1>6, <2>1, <2>2, <3>1 DEF LifeTypes, OfDockerClient
<1>7. CASE s = "wire" /\ Process!Wire
  <2>1. /\ dockerClient' = IF "docker_socket" \in registered THEN "docker_of_collectors" ELSE dockerClient
        /\ open' = open \cup ({dockerClient'} \ {None}) /\ UNCHANGED <<registered, alive>>
        /\ given' = [c \in Process!Docked |-> IF c \in registered THEN dockerClient' ELSE None]
    BY <1>7 DEF Process!Wire, Process!WireDocker
  <2>2. dockerClient' \in {None, "docker_of_actions", "docker_of_collectors"} /\ (dockerClient # None => dockerClient' # None)
    BY <1>1, <2>1, NoneIsNoClient DEF LifeTypes, Process!Client
  <2>3. dockerClient' # None => dockerClient' \in open'
    BY <2>1
  <2>4. \A c \in Process!Docked : given'[c] # None => given'[c] \in open'
    BY <2>1, <2>3
  <2>5. "docker_of_actions" \in open' => "docker_of_actions" \in open
    BY <1>1, <2>1, NoneIsNoClient DEF DockerOK, LifeTypes, Process!Client
  <2>6. /\ "docker_of_collectors" \in open' => dockerClient' = "docker_of_collectors"
        /\ "docker_of_actions" \in open' => dockerClient' = "docker_of_actions" \/ "docker_socket" \in registered'
    BY <1>1, <2>1, <2>5 DEF DockerOK, LifeTypes
  <2>7. DockerOK'
    BY <1>1, <1>4, <2>1, <2>2, <2>3, <2>4, <2>6 DEF DockerOK, OfDockerClient
  <2> QED
    BY <1>1, <1>7, <2>1, <2>2, <2>5, <2>7 DEF LifeTypes, OfDockerClient
<1>8. CASE Process!Enabled(s) /\ s \in Process!BackgroundTask /\ Process!Begins(s)
  <2>1. alive' \in {alive, alive \cup {s}} /\ UNCHANGED <<registered, dockerClient, given, open>>
    BY <1>8 DEF Process!Begins
  <2>2. s \in OfDockerClient => dockerClient # None
    <3>1. CASE s = "docker_events" \/ s = "override_loader"
      <4>1. "docker" \in config
        BY <1>1, <1>8, <3>1 DEF Process!Enabled, LifeTypes
      <4>2. step + 1 > 16
        BY <1>1, <3>1, BootKinds
      <4>3. Booted("docker_of_actions")
        <5>1. 14 \in 1..step /\ Process!Boot[14] = "docker_of_actions"
          BY <1>1, <4>2, BootSteps
        <5> QED
          BY <5>1 DEF Booted
      <4> QED
        BY <1>1, <4>1, <4>3 DEF BootOK
    <3>2. CASE s = "image_events" \/ s = "transcript_rotation"
      BY <1>8, <3>2 DEF Process!Enabled
    <3> QED
      BY <1>2, <3>1, <3>2 DEF OfDockerClient, Process!OfRequests
  <2>3. DockerOK'
    BY <1>1, <1>2, <1>4, <2>1, <2>2 DEF DockerOK, OfDockerClient, Process!OfRequests
  <2>4. s # "docker_of_actions"
    BY <1>8 DEF Process!BackgroundTask
  <2> QED
    BY <1>1, <2>1, <2>2, <2>3, <2>4 DEF LifeTypes
<1>9. CASE /\ ~Process!Enabled(s) \/ s \notin Process!Client \cup {"register", "wire"} \cup Process!BackgroundTask
           /\ UNCHANGED <<registered, dockerClient, given, open, alive>>
  <2>1. s = "docker_of_actions" => "docker" \notin config
    BY <1>9 DEF Process!Client, Process!Enabled
  <2>2. DockerOK'
    BY <1>1, <1>9 DEF DockerOK
  <2> QED
    BY <1>1, <1>9, <2>1, <2>2 DEF LifeTypes
<1> QED
  BY <1>5, <1>6, <1>7, <1>8, <1>9 DEF Process!BootStep

LEMMA BootKeeps == ASSUME LifespanInv, Process!BootStep PROVE LifespanInv'
<1>1. PICK s : s = Process!Boot[step + 1]
  OBVIOUS
<1>2. /\ step + 1 \in 1..26 /\ phase = "boot" /\ UNCHANGED <<config, ticking>>
      /\ IF step + 1 = 26 THEN step' = 0 /\ phase' = "up" ELSE step' = step + 1 /\ phase' = "boot"
      /\ open \subseteq open' /\ open' \subseteq Process!Client
      /\ s \in Process!ContextClients => s \in open'
      /\ alive \subseteq alive' /\ alive' \subseteq alive \cup {s}
      /\ alive' \subseteq Process!BackgroundTask \cup Process!OfRequests
  BY <1>1, BootEffect
<1>3. /\ dockerClient' \in {None, "docker_of_actions", "docker_of_collectors"}
      /\ dockerClient # None => dockerClient' # None
      /\ s = "docker_of_actions" /\ "docker" \in config => dockerClient' # None
      /\ registered' \cap {"docker_socket", "docker_discoverer"} # {} => "docker" \in config
      /\ DockerOK'
      /\ "docker_of_actions" \in open' => "docker_of_actions" \in open \/ s = "docker_of_actions"
      /\ "docker_of_collectors" \in open' => "docker_of_collectors" \in open \/ s = "wire"
      /\ DOMAIN given' = Process!Docked
      /\ \A c \in Process!Docked : given'[c] \in {None, "docker_of_actions", "docker_of_collectors"}
  BY <1>1, BootOfDocker
<1>4. LifeTypes /\ BootOK /\ step \in Nat
  BY DEF LifespanInv, LifeTypes
<1>5. LifeTypes'
  BY <1>2, <1>3, <1>4 DEF LifeTypes
<1>6. CASE step + 1 < 26
  <2>1. \A x : Booted(x)' <=> Booted(x) \/ x = s
    BY <1>1, <1>2, <1>4, <1>6 DEF Booted
  <2>2. s = "probe_loops" => Booted("scheduler")
    <3>1. ASSUME s = "probe_loops" PROVE 16 \in 1..step /\ Process!Boot[16] = "scheduler"
      <4>1. step + 1 > 16
        BY <1>1, <1>2, <3>1, BootKinds
      <4> QED
        BY <1>4, <4>1, BootSteps
    <3> QED
      BY <3>1 DEF Booted
  <2>3. BootOK'
    BY <1>2, <1>3, <1>4, <2>1, <2>2 DEF BootOK
  <2>4. phase' = "boot"
    BY <1>2, <1>6
  <2>5. StopOK'
    BY <2>4 DEF StopOK
  <2> QED
    BY <1>3, <1>5, <2>3, <2>5 DEF LifespanInv
<1>7. CASE step + 1 = 26
  <2>1. phase' = "up"
    BY <1>2, <1>7
  <2>2. \A x \in Process!ContextClients : x \in open'
    <3>1. 1 \in 1..step /\ 6 \in 1..step /\ 7 \in 1..step /\ 8 \in 1..step
      BY <1>4, <1>7
    <3>2. \A x \in Process!ContextClients : Booted(x)
      BY <3>1, BootSteps DEF Process!ContextClients, Booted
    <3> QED
      BY <1>2, <1>4, <3>2 DEF BootOK
  <2>3. BootOK' /\ StopOK'
    BY <2>1, <2>2 DEF BootOK, StopOK
  <2> QED
    BY <1>3, <1>5, <2>3 DEF LifespanInv
<1> QED
  BY <1>2, <1>6, <1>7

LEMMA AbortKeeps == ASSUME LifespanInv, Process!CriticalAbort PROVE LifespanInv'
<1>1. /\ phase = "boot" /\ phase' = "aborted" /\ step' = 0 /\ open' = {} /\ alive' = {}
      /\ Process!Boot[step + 1] \in {"engine", "migrations", "persist"}
      /\ UNCHANGED <<config, degraded, registered, dockerClient, given, ticking>>
  BY DEF Process!CriticalAbort
<1>2. LifeTypes /\ BootOK /\ DockerOK /\ step + 1 \in 1..26 /\ step \in Nat
  BY <1>1 DEF LifespanInv, LifeTypes
<1>3. step + 1 <= 5
  BY <1>1, <1>2, BootKinds
<1>4. ~Booted("scheduler")
  BY <1>2, <1>3, BootIndex DEF Booted
<1>5. ticking' = {}
  BY <1>1, <1>2, <1>4 DEF BootOK
<1>6. LifeTypes'
  BY <1>1, <1>2 DEF LifeTypes
<1>7. BootOK' /\ StopOK'
  BY <1>1, <1>5 DEF BootOK, StopOK
<1>8. DockerOK'
  BY <1>1 DEF DockerOK, Closed
<1> QED
  BY <1>6, <1>7, <1>8 DEF LifespanInv

\* The scheduler's runs, and requests, at any time.
LEMMA MeanwhileKeeps ==
  ASSUME LifespanInv,
         \/ \E c \in registered : Process!TickStarts(c) \/ Process!TickEnds(c)
         \/ \E t \in Process!OfRequests : Process!RequestStarts(t) \/ Process!RequestEnds(t)
         \/ Process!Ended \/ UNCHANGED Process!vars
  PROVE  LifespanInv'
<1>1. UNCHANGED <<config, step, phase, registered, dockerClient, given, open>>
  BY DEF Process!TickStarts, Process!TickEnds, Process!RequestStarts, Process!RequestEnds, Process!Ended, Process!vars
<1>2. alive' \subseteq alive
      \/ (alive' \subseteq alive \cup {"probe_loops"} /\ ticking # {})
      \/ /\ phase = "up" /\ alive' \subseteq alive \cup Process!OfRequests
         /\ "compose" \in alive' => "compose" \in alive \/ "docker_of_actions" \in open
         /\ "auto_fix" \in alive' => "auto_fix" \in alive \/ dockerClient # None
  <2>1. ASSUME NEW c \in registered, Process!TickEnds(c)
        PROVE  alive' \subseteq alive \/ (alive' \subseteq alive \cup {"probe_loops"} /\ ticking # {})
    <3>1. c \in ticking /\ alive' \in {alive, alive \cup {"probe_loops"}}
      BY <2>1 DEF Process!TickEnds
    <3> QED
      BY <3>1
  <2>2. ASSUME NEW t \in Process!OfRequests, Process!RequestStarts(t)
        PROVE  /\ phase = "up" /\ alive' \subseteq alive \cup Process!OfRequests
               /\ "compose" \in alive' => "compose" \in alive \/ "docker_of_actions" \in open
               /\ "auto_fix" \in alive' => "auto_fix" \in alive \/ dockerClient # None
    BY <2>2 DEF Process!RequestStarts
  <2>3. ASSUME \/ \E c \in registered : Process!TickStarts(c)
               \/ \E t \in Process!OfRequests : Process!RequestEnds(t)
               \/ Process!Ended \/ UNCHANGED Process!vars
        PROVE  alive' \subseteq alive
    BY <2>3 DEF Process!TickStarts, Process!RequestEnds, Process!Ended, Process!vars
  <2>4. CASE \E c \in registered : Process!TickStarts(c) \/ Process!TickEnds(c)
    BY <2>1, <2>3, <2>4, Zenon
  <2>5. CASE \E t \in Process!OfRequests : Process!RequestStarts(t) \/ Process!RequestEnds(t)
    BY <2>2, <2>3, <2>5, Zenon
  <2> QED
    BY <2>3, <2>4, <2>5, Zenon
<1>3. ticking' \subseteq ticking \/ "scheduler" \in alive
  BY DEF Process!TickStarts, Process!TickEnds, Process!RequestStarts, Process!RequestEnds, Process!Ended, Process!vars
<1>4. LifeTypes /\ BootOK /\ StopOK /\ DockerOK
  BY DEF LifespanInv
<1>5. phase = "boot" => alive' \subseteq alive \cup {"probe_loops"}
  BY <1>2
<1>6. LifeTypes'
  BY <1>1, <1>2, <1>4 DEF LifeTypes, Process!BackgroundTask
<1>7. /\ \A x : Booted(x)' = Booted(x)
      /\ \A x : Stopped(x)' = Stopped(x)
  BY <1>1 DEF Booted, Stopped
<1>8. BootOK'
  <2> SUFFICES ASSUME phase = "boot" PROVE BootOK'
    BY <1>1 DEF BootOK
  <2>1. alive' \subseteq alive \/ (alive' \subseteq alive \cup {"probe_loops"} /\ ticking # {})
    BY <1>2
  <2>2. ticking' # {} \/ "probe_loops" \in alive' => Booted("scheduler")
    BY <1>3, <1>4, <2>1 DEF BootOK
  <2>3. \A t \in alive' \ {"probe_loops"} : Booted(t)
    BY <1>4, <2>1 DEF BootOK
  <2> QED
    BY <1>1, <1>4, <1>7, <2>2, <2>3 DEF BootOK
<1>9. StopOK'
  <2>1. phase \in {"stopping", "down", "aborted"} =>
          alive' \subseteq alive \/ (alive' \subseteq alive \cup {"probe_loops"} /\ ticking # {})
    BY <1>2
  <2>2. phase = "down" \/ phase = "aborted" => ticking' = {}
    BY <1>3, <1>4 DEF StopOK
  <2>3. phase = "stopping" /\ ticking' # {} => ~Stopped("scheduler")
    BY <1>3, <1>4 DEF StopOK
  <2> QED
    BY <1>1, <1>4, <1>7, <2>1, <2>2, <2>3 DEF StopOK
<1>10. DockerOK'
  <2>1. Closed' = Closed
    BY <1>1, <1>7 DEF Closed
  <2>2. \A t \in OfDockerClient : t \in alive' => t \in alive \/ dockerClient # None
    BY <1>2 DEF OfDockerClient, Process!OfRequests
  <2>3. "compose" \in alive' => "docker_of_actions" \in open
    BY <1>2, <1>4 DEF DockerOK
  <2> QED
    BY <1>1, <1>4, <2>1, <2>2, <2>3 DEF DockerOK
<1> QED
  BY <1>6, <1>8, <1>9, <1>10 DEF LifespanInv

LEMMA StopRequestKeeps == ASSUME LifespanInv, Process!StopRequested PROVE LifespanInv'
<1>1. phase = "up" /\ phase' = "stopping" /\ step' = 0
      /\ UNCHANGED <<config, degraded, registered, dockerClient, given, open, alive, ticking>>
  BY DEF Process!StopRequested
<1>2. LifeTypes' /\ BootOK'
  BY <1>1 DEF LifespanInv, LifeTypes, BootOK
<1>3. \A x : ~Stopped(x)'
  BY <1>1 DEF Stopped
<1>4. StopOK'
  BY <1>1, <1>3 DEF LifespanInv, StopOK
<1>5. DockerOK'
  BY <1>1, <1>3 DEF LifespanInv, DockerOK, Closed
<1> QED
  BY <1>2, <1>4, <1>5 DEF LifespanInv

LEMMA ShutdownKeeps == ASSUME LifespanInv, Process!ShutdownStep PROVE LifespanInv'
<1>1. PICK s : s = Process!Shutdown[step + 1]
  OBVIOUS
<1>2. /\ phase = "stopping" /\ alive' = alive \ {s} /\ ticking' = IF s = "scheduler" THEN {} ELSE ticking
      /\ open' = open \ (IF s = "docker" THEN {dockerClient} ELSE {s})
      /\ UNCHANGED <<config, degraded, registered, dockerClient, given>>
  BY <1>1 DEF Process!ShutdownStep
<1>3. LifeTypes /\ StopOK /\ DockerOK /\ step \in Nat /\ step + 1 \in 1..22
  BY <1>2 DEF LifespanInv, LifeTypes
<1>4. IF step + 1 = 22 THEN phase' = "down" /\ step' = 0 ELSE step' = step + 1 /\ phase' = "stopping"
  BY <1>2, <1>3, ShutdownSteps DEF Process!ShutdownStep
<1>5. LifeTypes'
  BY <1>2, <1>3, <1>4 DEF LifeTypes
<1>6. BootOK'
  BY <1>2, <1>4 DEF BootOK
<1>7. "compose" \in alive' => "docker_of_actions" \in open'
  <2>1. s = "docker" => Stopped("compose")
    <3>1. ASSUME s = "docker" PROVE 4 \in 1..step /\ Process!Shutdown[4] = "compose"
      <4>1. step + 1 = 21
        BY <1>1, <1>3, <3>1, ShutdownIndex
      <4> QED
        BY <1>3, <4>1, ShutdownSteps
    <3> QED
      BY <3>1 DEF Stopped
  <2>2. s # "docker_of_actions"
    BY <1>1, <1>3, ShutdownIndex
  <2>3. s = "docker" => "compose" \notin alive
    BY <1>2, <1>3, <2>1 DEF StopOK
  <2> QED
    BY <1>2, <1>3, <2>2, <2>3 DEF DockerOK
<1>8. CASE step + 1 < 22
  <2>1. \A x : Stopped(x)' <=> Stopped(x) \/ x = s
    BY <1>1, <1>3, <1>4, <1>8 DEF Stopped
  <2>2. phase' = "stopping"
    BY <1>4, <1>8
  <2>3. \A x \in Process!ContextClients : x \in open' \/ Stopped(x)'
    <3>1. \A x \in Process!ContextClients : x # dockerClient
      BY <1>3, NoneIsNoClient DEF LifeTypes, Process!ContextClients, Process!Client
    <3> QED
      BY <1>2, <1>3, <2>1, <3>1 DEF StopOK
  <2>4. \A x \in open' : ~Stopped(x)'
    <3>1. "docker" \notin open
      BY <1>3 DEF LifeTypes, Process!Client
    <3> QED
      BY <1>2, <1>3, <2>1, <3>1 DEF StopOK
  <2>5. Stopped("docker")' => dockerClient' \notin open'
    BY <1>2, <1>3, <2>1 DEF StopOK
  <2>6. \A t \in alive' \ {"probe_loops"} : ~Stopped(t)'
    BY <1>2, <1>3, <2>1 DEF StopOK
  <2>7. ticking' # {} => ~Stopped("scheduler")'
    BY <1>2, <1>3, <2>1 DEF StopOK
  <2>8. StopOK'
    BY <2>2, <2>3, <2>4, <2>5, <2>6, <2>7 DEF StopOK
  <2>9. ASSUME ~Closed' PROVE ~Closed /\ s # "docker"
    BY <1>2, <2>1, <2>2, <2>9 DEF Closed
  <2>10. s \notin {"docker_of_actions", "docker_of_collectors"}
    BY <1>1, <1>3, ShutdownIndex
  <2>11. ASSUME ~Closed' PROVE /\ dockerClient' # None => dockerClient' \in open'
                              /\ \A c \in Process!Docked : given'[c] # None => given'[c] \in open'
    <3>1. \A c \in Process!Docked : given[c] \in {None, "docker_of_actions", "docker_of_collectors"}
      BY <1>3 DEF LifeTypes
    <3> QED
      BY <1>2, <1>3, <2>9, <2>10, <2>11, <3>1 DEF DockerOK, LifeTypes
  <2>12. DockerOK'
    BY <1>2, <1>3, <1>7, <2>11 DEF DockerOK
  <2> QED
    BY <1>5, <1>6, <2>8, <2>12 DEF LifespanInv
<1>9. CASE step + 1 = 22
  <2>1. phase' = "down" /\ s = "engine" /\ step = 21
    BY <1>1, <1>3, <1>4, <1>9, ShutdownSteps
  <2>2. \A i \in 1..21 : Stopped(Process!Shutdown[i])
    BY <2>1 DEF Stopped
  <2>3. /\ \A t \in Process!BackgroundTask \cup Process!OfRequests : Stopped(t)
        /\ Stopped("docker")
        /\ \A x \in Process!ContextClients \ {"engine"} : Stopped(x)
    BY <2>2, ShutdownSteps DEF Process!BackgroundTask, Process!OfRequests, Process!ContextClients
  <2>4. alive' \subseteq {"probe_loops"} /\ ticking' = {}
    BY <1>2, <1>3, <2>3 DEF StopOK, LifeTypes, Process!BackgroundTask
  <2>5. open' \subseteq Process!Client \ Process!ContextClients /\ dockerClient' \notin open'
    BY <1>2, <1>3, <2>1, <2>3 DEF StopOK, LifeTypes
  <2>6. StopOK'
    BY <2>1, <2>4, <2>5 DEF StopOK
  <2>7. DockerOK'
    BY <1>2, <1>3, <1>7, <2>1 DEF DockerOK, Closed
  <2> QED
    BY <1>5, <1>6, <2>6, <2>7 DEF LifespanInv
<1> QED
  BY <1>3, <1>8, <1>9

LEMMA LifespanNext == LifespanInv /\ [Process!Next]_(Process!vars) => LifespanInv'
BY BootKeeps, AbortKeeps, MeanwhileKeeps, StopRequestKeeps, ShutdownKeeps DEF Process!Next

\* Before a boot has come to what is alive it has opened what that works with; a
\* shutdown closes it later.
LEMMA OpenForTasks ==
  ASSUME LifespanInv, NEW t \in alive, phase \in {"stopping", "down"} => t # "probe_loops"
  PROVE  /\ ~Closed
         /\ t \in {"secrets_refresh", "drain", "override_loader", "docker_events", "auto_fix", "transcript_rotation",
                   "probe_loops", "compose"} => "engine" \in open
         /\ t \in {"drain", "log_flusher", "probe_loops", "compose"} => "http" \in open
<1>1. LifeTypes /\ BootOK /\ StopOK /\ step \in Nat
  BY DEF LifespanInv, LifeTypes
<1>2. phase \in {"boot", "up", "stopping"}
  BY <1>1 DEF StopOK, LifeTypes
<1>3. CASE phase = "boot"
  <2>1. step < 26 /\ ~Closed
    BY <1>1, <1>3 DEF LifeTypes, Closed
  <2>2. PICK i \in 1..26 : i <= step /\ \/ Process!Boot[i] = t
                                        \/ t = "probe_loops" /\ i = 16
    <3>1. CASE t # "probe_loops"
      <4>1. Booted(t)
        BY <1>1, <1>3, <3>1 DEF BootOK
      <4> QED
        BY <1>1, <2>1, <4>1 DEF Booted
    <3>2. CASE t = "probe_loops"
      <4>1. Booted("scheduler")
        BY <1>1, <1>3, <3>2 DEF BootOK
      <4>2. PICK i \in 1..step : Process!Boot[i] = "scheduler"
        BY <4>1 DEF Booted
      <4>3. i \in 1..26
        BY <1>1, <2>1
      <4>4. i = 16
        BY <4>2, <4>3, BootIndex
      <4> QED
        BY <1>1, <2>1, <3>2, <4>2, <4>3, <4>4
    <3> QED
      BY <3>1, <3>2
  <2>3. t \notin Process!OfRequests
    BY <2>2, BootKinds DEF Process!OfRequests
  <2>4. step >= 1 => "engine" \in open
    <3>1. ASSUME step >= 1 PROVE Booted("engine")
      BY <1>1, <3>1, BootSteps DEF Booted
    <3> QED
      BY <1>1, <1>3, <3>1 DEF BootOK, Process!ContextClients
  <2>5. step >= 6 => "http" \in open
    <3>1. ASSUME step >= 6 PROVE 6 \in 1..step /\ Process!Boot[6] = "http"
      BY <1>1, <3>1, BootSteps
    <3>2. step >= 6 => Booted("http")
      BY <3>1 DEF Booted
    <3> QED
      BY <1>1, <1>3, <3>2 DEF BootOK, Process!ContextClients
  <2>6. t \in {"drain", "log_flusher", "probe_loops"} => i >= 6
    BY <2>2, BootKinds
  <2> QED
    BY <1>1, <2>1, <2>2, <2>3, <2>4, <2>5, <2>6 DEF Process!OfRequests
<1>4. CASE phase = "up"
  BY <1>1, <1>4 DEF StopOK, Closed, Process!ContextClients
<1>5. CASE phase = "stopping"
  <2>1. ~Stopped(t) /\ step < 22
    BY <1>1, <1>5 DEF StopOK, LifeTypes
  <2>2. ~Stopped("engine")
    BY <1>1, <2>1, ShutdownIndex DEF Stopped
  <2>3. \A i \in 1..22 : Process!Shutdown[i] = t => step < i
    BY <1>1, <2>1 DEF Stopped
  <2>4. t \in Process!BackgroundTask \cup Process!OfRequests
    BY <1>1 DEF LifeTypes
  <2>5. step < 14
    BY <1>1, <2>3, <2>4, ShutdownSteps DEF Process!BackgroundTask, Process!OfRequests
  <2>6. ~Stopped("http") /\ ~Stopped("docker")
    BY <1>1, <2>5, ShutdownIndex DEF Stopped
  <2> QED
    BY <1>1, <1>5, <2>2, <2>6 DEF StopOK, Closed, Process!ContextClients
<1> QED
  BY <1>2, <1>3, <1>4, <1>5

LEMMA OpenForTicks ==
  ASSUME LifespanInv, ticking # {}
  PROVE  Process!ContextClients \subseteq open /\ ~Closed
<1>1. LifeTypes /\ BootOK /\ StopOK /\ step \in Nat
  BY DEF LifespanInv, LifeTypes
<1>2. phase \in {"boot", "up", "stopping"}
  BY <1>1 DEF StopOK, LifeTypes
<1>3. CASE phase = "boot"
  <2>1. PICK i \in 1..step : Process!Boot[i] = "scheduler"
    BY <1>1, <1>3 DEF BootOK, Booted
  <2>2. step >= 16
    BY <1>1, <1>3, <2>1, BootIndex DEF LifeTypes
  <2>3. 1 \in 1..step /\ 6 \in 1..step /\ 7 \in 1..step /\ 8 \in 1..step
    BY <1>1, <2>2
  <2>4. \A x \in Process!ContextClients : Booted(x)
    BY <2>3, BootSteps DEF Process!ContextClients, Booted
  <2> QED
    BY <1>1, <1>3, <2>4 DEF BootOK, Closed
<1>4. CASE phase = "up"
  BY <1>1, <1>4 DEF StopOK, Closed
<1>5. CASE phase = "stopping"
  <2>1. ~Stopped("scheduler") /\ step < 22
    BY <1>1, <1>5 DEF StopOK, LifeTypes
  <2>2. step < 12
    BY <1>1, <2>1, ShutdownSteps DEF Stopped
  <2>3. \A x \in Process!ContextClients \cup {"docker"} : ~Stopped(x)
    BY <1>1, <2>2, ShutdownIndex DEF Stopped, Process!ContextClients
  <2> QED
    BY <1>1, <1>5, <2>3 DEF StopOK, Closed
<1> QED
  BY <1>2, <1>3, <1>4, <1>5

LEMMA LifespanSound == LifespanInv => Process!UsersHaveTheirClients
<1> SUFFICES ASSUME LifespanInv PROVE Process!UsersHaveTheirClients
  OBVIOUS
<1>1. LifeTypes /\ BootOK /\ StopOK /\ DockerOK /\ step \in Nat
  BY DEF LifespanInv, LifeTypes
<1>2. ASSUME NEW t \in alive, phase \in {"stopping", "down"} => t # "probe_loops"
      PROVE  Process!Uses(t) \subseteq open
  <2>1. /\ t \in {"secrets_refresh", "drain", "override_loader", "docker_events", "auto_fix", "transcript_rotation",
                  "probe_loops", "compose"} => "engine" \in open
        /\ t \in {"drain", "log_flusher", "probe_loops", "compose"} => "http" \in open
        /\ ~Closed
    BY <1>2, OpenForTasks
  <2>2. t \in OfDockerClient => dockerClient \in open
    BY <1>1, <2>1 DEF DockerOK
  <2>3. \A c \in Process!Docked : {given[c]} \ {None} \subseteq open
    BY <1>1, <2>1 DEF DockerOK
  <2>4. CASE t = "probe_loops"
    <3>1. {given["docker_probes_supervisor"]} \ {None} \subseteq open
      BY <2>3 DEF Process!Docked, Process!OfDocker
    <3> QED
      BY <2>1, <2>4, <3>1 DEF Process!Uses
  <2>5. CASE t = "compose"
    <3>1. {given[c] : c \in Process!OfUpdates} \ {None} \subseteq open
      BY <2>3 DEF Process!Docked
    <3> QED
      BY <1>1, <2>1, <2>5, <3>1 DEF Process!Uses, DockerOK
  <2>6. CASE t \in OfDockerClient
    BY <2>1, <2>2, <2>6 DEF Process!Uses, OfDockerClient
  <2>7. CASE t \notin OfDockerClient \cup {"probe_loops", "compose"}
    <3>1. t \in Process!BackgroundTask
      BY <1>1, <2>7 DEF LifeTypes, Process!OfRequests, OfDockerClient
    <3> QED
      BY <2>1, <2>7, <3>1 DEF Process!Uses, OfDockerClient, Process!BackgroundTask
  <2> QED
    BY <2>4, <2>5, <2>6, <2>7
<1>3. ASSUME NEW c \in ticking PROVE Process!UsesOfTick(c) \subseteq open
  <2>1. Process!ContextClients \subseteq open /\ ~Closed
    BY OpenForTicks
  <2>2. c \in Process!Docked => {given[c]} \ {None} \subseteq open
    BY <1>1, <2>1 DEF DockerOK
  <2> QED
    BY <2>1, <2>2 DEF Process!UsesOfTick
<1>4. ASSUME phase = "stopping", NEW i \in DOMAIN Process!Logouts, Process!Logouts[i] = Process!Shutdown[step + 1]
      PROVE  Process!Uses(Process!Shutdown[step + 1]) \subseteq open
  <2>1. step + 1 \in 1..22
    BY <1>1, <1>4 DEF LifeTypes
  <2>2. Process!Shutdown[step + 1] \in {"pihole_logout", "pihole_rw_logout", "synology_logout"}
    BY <1>4 DEF Process!Logouts
  <2>3. step + 1 < 18
    BY <1>1, <2>1, <2>2, ShutdownSteps
  <2>4. ~Stopped("http") /\ ~Stopped("synology_http")
    BY <1>1, <2>3, ShutdownIndex DEF Stopped
  <2>5. "http" \in open /\ "synology_http" \in open
    BY <1>1, <1>4, <2>4 DEF StopOK, Process!ContextClients
  <2> QED
    BY <2>2, <2>5 DEF Process!Uses
<1>5. ASSUME phase = "down"
      PROVE  alive \subseteq {"probe_loops"} /\ (open # {} => open = {"docker_of_actions"} /\ "docker_socket" \in registered)
  <2>1. open \subseteq {"docker_of_actions", "docker_of_collectors"} /\ dockerClient \notin open
    BY <1>1, <1>5 DEF StopOK, Process!Client, Process!ContextClients
  <2>2. "docker_of_collectors" \notin open
    BY <1>1, <2>1 DEF DockerOK
  <2>3. "docker_of_actions" \in open => "docker_socket" \in registered
    BY <1>1, <2>1 DEF DockerOK
  <2> QED
    BY <1>1, <1>5, <2>1, <2>2, <2>3 DEF StopOK
<1>6. \A t \in alive \ (IF phase \in {"stopping", "down"} THEN {"probe_loops"} ELSE {}) : Process!Uses(t) \subseteq open
  BY <1>2
<1>7. phase = "stopping" /\ (\E i \in DOMAIN Process!Logouts : Process!Logouts[i] = Process!Shutdown[step + 1])
        => Process!Uses(Process!Shutdown[step + 1]) \subseteq open
  BY <1>4
<1>8. phase = "down" => /\ alive \subseteq IF phase \in {"stopping", "down"} THEN {"probe_loops"} ELSE {}
                        /\ open \subseteq IF "docker_socket" \in registered THEN {"docker_of_actions"} ELSE {}
  BY <1>5
<1> QED
  BY <1>3, <1>6, <1>7, <1>8, Zenon DEF Process!UsersHaveTheirClients

\* Whatever fails to register, whatever is configured and whenever the stop comes: a
\* task, a collector's run or a logout finds its clients open, and in the end nothing is
\* left but what UsersHaveTheirClients names (lifespan).
THEOREM ClientsOutliveTheirUsers == MCSpec => []UsersHaveTheirClients
<1>1. MCInit => LifespanInv
  BY LifespanInit DEF MCInit
<1>2. LifespanInv /\ [MCNext]_allVars => LifespanInv'
  <2>1. [MCNext]_allVars => [Process!Next]_lifespanVars
    BY DEF MCNext, allVars
  <2>2. [Process!Next]_lifespanVars => [Process!Next]_(Process!vars)
    BY DEF lifespanVars, Process!vars
  <2> QED
    BY <2>1, <2>2, LifespanNext
<1>3. LifespanInv => UsersHaveTheirClients
  BY LifespanSound DEF UsersHaveTheirClients
<1> QED
  BY <1>1, <1>2, <1>3, PTL DEF MCSpec

----------------------------------------------------------------------------
(* Collectors, by the theorems of CollectorsProofs. *)

LEMMA CollectorInvariant == MCSpec => []Collecting!CollectorInv
<1>1. MCInit => Collecting!CollectorInv
  BY CollectorBounds, Collecting!CollectorInit DEF MCInit
<1>2. Collecting!CollectorInv /\ [MCNext]_allVars => Collecting!CollectorInv'
  <2>1. [MCNext]_allVars => [Collecting!Next]_collectorVars
    BY DEF MCNext, allVars
  <2>2. [Collecting!Next]_collectorVars => [Collecting!Next]_(Collecting!vars)
    BY DEF collectorVars, Collecting!vars
  <2> QED
    BY <2>1, <2>2, CollectorBounds, Collecting!CollectorStep
<1> QED
  BY <1>1, <1>2, PTL DEF MCSpec

\* Whatever a service answers, when it changes and which runs are given up: a complete run
\* of any of the collectors that is answered nothing shows the service down or counts as
\* failed, and one that finds all well leaves no gauge at 0 (the collectors' run,
\* FailureBudget, PromRegistry).
THEOREM OutagesAreSeen == MCSpec => []HealthIsShown
<1>1. Collecting!CollectorInv => HealthIsShown
  BY Collecting!CollectorHealth DEF HealthIsShown
<1> QED
  BY <1>1, CollectorInvariant, PTL

\* What an answer brings to a complete run is in the registry, however the other calls
\* of the run went (the collectors' run).
THEOREM AnswersAreWritten == MCSpec => []CallsAreIndependent
<1>1. Collecting!CollectorInv => CallsAreIndependent
  BY CollectorBounds, Collecting!CollectorCalls DEF CallsAreIndependent
<1> QED
  BY <1>1, CollectorInvariant, PTL
=============================================================================
