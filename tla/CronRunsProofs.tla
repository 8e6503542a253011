--------------------------- MODULE CronRunsProofs ---------------------------
(***************************************************************************)
(* Proofs about CronRuns, for any number of requests, runs, lines, repeats *)
(* and restarts.                                                           *)
(*                                                                         *)
(* Wellformed types the locals of requests and of the tick: what a request *)
(* is about depends on where it is.  A run is counted once because a line  *)
(* is counted by the request that claimed its cursor (CountOnce), and      *)
(* alerted once because only the tick that made the failure row goes on to *)
(* raise the counter (AlertOnce).                                          *)
(***************************************************************************)
EXTENDS MCCron, FiniteSetTheorems, TLAPS

Kinds == {"start", "ok", "fail"}

LineRow == [kind : Kinds, ts : Nat]

TaskPCs == {"idle", "observe", "read", "write", "insert", "close", "find", "closeLine"}

\* prev holds a heartbeat row in "write" and a run row in "closeLine".
TaskRow == [pc : TaskPCs, kind : Kinds, run : RunId \cup {None}, line : Line \cup {None},
            prev : {None} \cup Beat \cup RunRow]

RecRow == [pc : {"idle", "finalize", "enrich", "failure", "alert", "prune"}, at : Nat,
           todo : SUBSET RunId, failed : SUBSET RunId, run : RunId \cup {None}]

\* What the locals x of a request say.
RequestOK(x) ==
    /\ x.pc # "idle" /\ x.line = None => x.run \in RunId
    /\ x.line # None => lines[x.line] # None
    /\ x.pc \in {"read", "write"} /\ x.line # None => x.kind # "start"
    /\ x.pc = "close" => x.line = None /\ x.kind # "start"
    /\ x.pc \in {"observe", "find", "closeLine"} => x.line # None
    /\ x.pc \in {"find", "closeLine"} => x.kind # "start"
    /\ x.pc = "closeLine" => x.run \in RunId /\ x.prev \in RunRow

Wellformed ==
    /\ TypeOK
    /\ lines \in [Line -> LineRow \cup {None}]
    /\ task \in [Task -> TaskRow]
    /\ \A t \in Task : RequestOK(task[t])
    /\ rec \in RecRow
    /\ rec.pc \in {"failure", "alert"} => rec.run \in RunId

LEMMA NoTaskType == NoTask \in TaskRow /\ NoTask.pc = "idle" /\ NoTask.line = None
  BY DEF NoTask, TaskRow, TaskPCs, Kinds

LEMMA NoTickType == NoTick \in RecRow /\ NoTick.pc = "idle"
  BY DEF NoTick, RecRow

LEMMA NoRunType == NoRun \in RunRow
  BY DEF NoRun, RunRow, NoTime

LEMMA IdleOK == RequestOK(NoTask)
  BY NoTaskType DEF RequestOK

\* A request moves to locals x.
LEMMA RequestMoves ==
  ASSUME Wellformed, NEW t \in Task, NEW x \in TaskRow, RequestOK(x), lines' = lines,
         task' = [task EXCEPT ![t] = x]
  PROVE  task' \in [Task -> TaskRow] /\ \A u \in Task : RequestOK(task[u])'
<1>1. task' \in [Task -> TaskRow] /\ task'[t] = x /\ \A u \in Task \ {t} : task'[u] = task[u]
  BY DEF Wellformed
<1> QED
  BY <1>1 DEF Wellformed, RequestOK

LEMMA RequestEnds ==
  ASSUME Wellformed, NEW t \in Task, Finish(t), lines' = lines
  PROVE  task' \in [Task -> TaskRow] /\ \A u \in Task : RequestOK(task[u])'
  BY RequestMoves, NoTaskType, IdleOK DEF Finish

\* A step that leaves requests alone; a line that was written stays.
LEMMA RequestsStay ==
  ASSUME Wellformed, task' = task,
         \A l \in Line : lines[l] # None => lines'[l] # None
  PROVE  task' \in [Task -> TaskRow] /\ \A u \in Task : RequestOK(task[u])'
<1>1. ASSUME NEW u \in Task PROVE RequestOK(task[u])'
  <2>1. RequestOK(task[u]) /\ task'[u] = task[u] /\ task[u].line \in Line \cup {None}
    BY DEF Wellformed, TaskRow
  <2> QED
    BY <2>1 DEF RequestOK
<1> QED
  BY <1>1 DEF Wellformed

LEMMA ReceiveWellformed ==
  ASSUME Wellformed, NEW t \in Task,
         \/ \E p \in Ping : ReceivePing(t, p)
         \/ \E l \in Line : ReceiveLine(t, l)
  PROVE  Wellformed'
<1>1. ASSUME NEW p \in Ping, ReceivePing(t, p) PROVE Wellformed'
  <2> DEFINE x == [NoTask EXCEPT !.pc = "read", !.kind = p.kind, !.run = p.run]
  <2>1. p.kind \in Kinds /\ p.run \in RunId
    BY DEF Ping, Kinds, RunId
  <2>2. x \in TaskRow /\ x.pc = "read" /\ x.line = None /\ x.run = p.run
    BY <2>1 DEF NoTask, TaskRow, TaskPCs
  <2>3. task' = [task EXCEPT ![t] = x]
    BY <1>1 DEF ReceivePing
  <2> HIDE DEF x
  <2>4. RequestOK(x)
    BY <2>1, <2>2 DEF RequestOK
  <2> QED
    BY <1>1, <2>2, <2>3, <2>4, RequestMoves DEF ReceivePing, tables, Wellformed, TypeOK
<1>2. ASSUME NEW l \in Line, ReceiveLine(t, l) PROVE Wellformed'
  <2>1. /\ cursors' \subseteq Line /\ lines' = lines /\ lines[l] \in LineRow
        /\ UNCHANGED <<now, pings, hb, seen, runs, failureRows, alerted, rec, counted>>
    BY <1>2 DEF ReceiveLine, Wellformed, TypeOK
  <2>2. CASE task' = task
    BY <2>1, <2>2, RequestsStay DEF Wellformed, TypeOK
  <2>3. CASE task' # task
    <3> DEFINE k == lines[l].kind
               x == [NoTask EXCEPT !.line = l, !.kind = k, !.pc = IF k = "start" THEN "observe" ELSE "read"]
    <3>1. task' = [task EXCEPT ![t] = x] /\ lines[l] # None
      BY <1>2, <2>3 DEF ReceiveLine
    <3>2. k \in Kinds
      BY <2>1 DEF LineRow
    <3> HIDE DEF k
    <3>3. x \in TaskRow /\ x.line = l /\ x.kind = k /\ x.pc = (IF k = "start" THEN "observe" ELSE "read")
      BY <3>2 DEF NoTask, TaskRow, TaskPCs
    <3> HIDE DEF x
    <3>4. RequestOK(x)
      BY <3>1, <3>3, IdsAssumption DEF RequestOK
    <3> QED
      BY <2>1, <3>1, <3>3, <3>4, RequestMoves DEF Wellformed, TypeOK
  <2> QED
    BY <2>2, <2>3
<1> QED
  BY <1>1, <1>2

LEMMA ObserveRunWellformed ==
  ASSUME Wellformed, NEW t \in Task, ObserveRun(t)
  PROVE  Wellformed'
<1> DEFINE x == [task[t] EXCEPT !.pc = "insert"]
<1>1. task[t] \in TaskRow /\ task[t].pc = "observe" /\ RequestOK(task[t])
  BY DEF ObserveRun, Wellformed
<1>2. x \in TaskRow /\ x.pc = "insert" /\ x.line = task[t].line /\ x.run = task[t].run
  BY <1>1 DEF TaskRow, TaskPCs
<1>3. task' = [task EXCEPT ![t] = x]
  BY DEF ObserveRun, Goto
<1>4. hb' \in Beat /\ counted' \subseteq Line
  BY <1>1 DEF ObserveRun, Wellformed, TypeOK, Beat, TaskRow, RequestOK
<1> HIDE DEF x
<1>5. RequestOK(x)
  BY <1>1, <1>2 DEF RequestOK
<1> QED
  BY <1>2, <1>3, <1>4, <1>5, RequestMoves DEF ObserveRun, Wellformed, TypeOK

LEMMA ReadBeatWellformed ==
  ASSUME Wellformed, NEW t \in Task, ReadBeat(t)
  PROVE  Wellformed'
<1> DEFINE x == [task[t] EXCEPT !.pc = "write", !.prev = hb]
<1>1. task[t] \in TaskRow /\ task[t].pc = "read" /\ RequestOK(task[t]) /\ hb \in Beat
  BY DEF ReadBeat, Wellformed, TypeOK
<1>2. x \in TaskRow /\ x.pc = "write" /\ x.line = task[t].line /\ x.run = task[t].run /\ x.kind = task[t].kind
  BY <1>1 DEF TaskRow, TaskPCs
<1>3. task' = [task EXCEPT ![t] = x]
  BY <1>1 DEF ReadBeat, Wellformed
<1> HIDE DEF x
<1>4. RequestOK(x)
  BY <1>1, <1>2 DEF RequestOK
<1> QED
  BY <1>2, <1>3, <1>4, RequestMoves DEF ReadBeat, tables, Wellformed, TypeOK

LEMMA WriteBeatWellformed ==
  ASSUME Wellformed, NEW t \in Task, WriteBeat(t)
  PROVE  Wellformed'
<1> DEFINE p == IF task[t].line # None THEN "find"
                ELSE IF task[t].kind = "start" THEN "insert" ELSE "close"
           x == [task[t] EXCEPT !.pc = p]
<1>1. task[t] \in TaskRow /\ task[t].pc = "write" /\ RequestOK(task[t]) /\ hb \in Beat
  BY DEF WriteBeat, Wellformed, TypeOK
<1>2. task' = [task EXCEPT ![t] = x]
  BY DEF WriteBeat, Goto
<1>3. /\ p \in {"find", "insert", "close"}
      /\ p = "find" => task[t].line # None
      /\ p = "close" => task[t].line = None /\ task[t].kind # "start"
  OBVIOUS
<1> HIDE DEF p
<1>4. x \in TaskRow /\ x.pc = p /\ x.line = task[t].line /\ x.run = task[t].run /\ x.kind = task[t].kind
  BY <1>1, <1>3 DEF TaskRow, TaskPCs
<1>5. hb' \in Beat /\ seen' \in {"unknown", "running", "ok", "failed"}
  BY <1>1 DEF WriteBeat, Transition, StateOf, Beat, TaskRow, Kinds
<1> HIDE DEF x
<1>6. RequestOK(x)
  BY <1>1, <1>3, <1>4 DEF RequestOK
<1> QED
  BY <1>2, <1>4, <1>5, <1>6, RequestMoves DEF WriteBeat, Wellformed, TypeOK

\* A closed row: the verdict of the exit, whatever was there before.
LEMMA CloseRowType ==
  ASSUME Wellformed, NEW i \in RunId, NEW s \in Kinds \ {"start"}, NEW end \in Int, NEW missing \in RunRow
  PROVE  /\ CloseRow(i, s, end, missing) \in RunRow
         /\ CloseRow(i, s, end, missing).state = s
<1> DEFINE old == IF runs[i].state = "none" THEN missing ELSE runs[i]
<1>1. old \in RunRow
  BY DEF Wellformed, TypeOK
<1>2. s \in Closed
  BY DEF Kinds, Closed
<1> HIDE DEF old
<1>3. [old EXCEPT !.state = s, !.ended = end] \in RunRow /\ [old EXCEPT !.state = s, !.ended = end].state = s
  BY <1>1, <1>2 DEF RunRow
<1> QED
  BY <1>3 DEF CloseRow, old

LEMMA InsertRunWellformed ==
  ASSUME Wellformed, NEW t \in Task, InsertRun(t)
  PROVE  /\ Wellformed'
         /\ \A i \in RunId : runs[i].state # "none" => runs'[i] = runs[i]
<1>1. task[t] \in TaskRow /\ task[t].pc = "insert" /\ RequestOK(task[t]) /\ now \in Nat
  BY DEF InsertRun, Wellformed, TypeOK
<1> DEFINE src == IF task[t].line = None THEN "wrapper" ELSE "logscrape"
           ts == IF task[t].line = None THEN now ELSE lines[task[t].line].ts
           y == [NoRun EXCEPT !.state = "running", !.source = src, !.started = ts, !.line = task[t].line]
<1>2. src \in {"wrapper", "logscrape"} /\ ts \in Int
  BY <1>1, TimesAssumption DEF RequestOK, Wellformed, TaskRow, LineRow
<1>3. PICK i \in RunId : runs' = IF Inserts(i) THEN [runs EXCEPT ![i] = y] ELSE runs
  BY DEF InsertRun
<1> HIDE DEF src, ts
<1>4. y \in RunRow
  BY <1>1, <1>2, NoRunType DEF RunRow, TaskRow
<1> HIDE DEF y
<1>5. runs' \in [RunId -> RunRow] /\ \A j \in RunId : runs[j].state # "none" => runs'[j] = runs[j]
  BY <1>3, <1>4 DEF Wellformed, TypeOK, Inserts
<1>6. Finish(t) /\ lines' = lines
  BY DEF InsertRun
<1> QED
  BY <1>5, <1>6, RequestEnds DEF InsertRun, Wellformed, TypeOK

LEMMA CloseWrapperRunWellformed ==
  ASSUME Wellformed, NEW t \in Task, CloseWrapperRun(t)
  PROVE  /\ Wellformed'
         /\ \A i \in RunId : runs'[i] = runs[i] \/ runs'[i].state \in {"ok", "fail"}
<1>1. task[t] \in TaskRow /\ task[t].pc = "close" /\ RequestOK(task[t]) /\ now \in Int
  BY DEF CloseWrapperRun, Wellformed, TypeOK
<1>2. task[t].run \in RunId /\ task[t].kind \in Kinds \ {"start"}
  BY <1>1 DEF RequestOK, TaskRow
<1>3. PICK d \in 0..now :
         runs' = [runs EXCEPT ![task[t].run] = CloseRow(task[t].run, task[t].kind, now, [NoRun EXCEPT !.started = now - d])]
  BY DEF CloseWrapperRun
<1>4. [NoRun EXCEPT !.started = now - d] \in RunRow
  BY <1>1, NoRunType DEF RunRow
<1> DEFINE y == CloseRow(task[t].run, task[t].kind, now, [NoRun EXCEPT !.started = now - d])
<1>5. y \in RunRow /\ y.state = task[t].kind
  BY <1>1, <1>2, <1>4, CloseRowType
<1> HIDE DEF y
<1>6. runs' = [runs EXCEPT ![task[t].run] = y]
  BY <1>3 DEF y
<1>7. runs' \in [RunId -> RunRow] /\ \A i \in RunId : runs'[i] = runs[i] \/ runs'[i].state \in {"ok", "fail"}
  BY <1>2, <1>5, <1>6 DEF Wellformed, TypeOK, Kinds
<1>8. Finish(t) /\ lines' = lines
  BY DEF CloseWrapperRun
<1> QED
  BY <1>7, <1>8, RequestEnds DEF CloseWrapperRun, Wellformed, TypeOK

LEMMA FindOpenRunWellformed ==
  ASSUME Wellformed, NEW t \in Task, FindOpenRun(t)
  PROVE  Wellformed'
<1>1. task[t] \in TaskRow /\ task[t].pc = "find" /\ RequestOK(task[t]) /\ lines' = lines
  BY DEF FindOpenRun, Wellformed, TypeOK
<1>2. CASE Finish(t)
  BY <1>1, <1>2, RequestEnds DEF FindOpenRun, tables, Wellformed, TypeOK
<1>3. CASE ~Finish(t)
  <2>1. PICK i \in RunId : task' = [task EXCEPT ![t].pc = "closeLine", ![t].run = i, ![t].prev = runs[i]]
    BY <1>3 DEF FindOpenRun, OpenAt
  <2> DEFINE x == [task[t] EXCEPT !.pc = "closeLine", !.run = i, !.prev = runs[i]]
  <2>2. runs[i] \in RunRow
    BY DEF Wellformed, TypeOK
  <2>3. /\ x \in TaskRow /\ x.pc = "closeLine" /\ x.line = task[t].line /\ x.run = i
        /\ x.kind = task[t].kind /\ x.prev = runs[i]
    BY <1>1, <2>2 DEF TaskRow, TaskPCs
  <2>4. task' = [task EXCEPT ![t] = x]
    BY <1>1, <2>1 DEF Wellformed
  <2> HIDE DEF x
  <2>5. RequestOK(x)
    BY <1>1, <2>2, <2>3 DEF RequestOK
  <2> QED
    BY <2>3, <2>4, <2>5, RequestMoves DEF FindOpenRun, tables, Wellformed, TypeOK
<1> QED
  BY <1>2, <1>3

LEMMA CloseLogRunWellformed ==
  ASSUME Wellformed, NEW t \in Task, CloseLogRun(t)
  PROVE  /\ Wellformed'
         /\ \A i \in RunId : runs'[i] = runs[i] \/ runs'[i].state \in {"ok", "fail"}
<1>1. task[t] \in TaskRow /\ task[t].pc = "closeLine" /\ RequestOK(task[t])
  BY DEF CloseLogRun, Wellformed
<1>2. /\ task[t].run \in RunId /\ task[t].kind \in Kinds \ {"start"} /\ task[t].prev \in RunRow
      /\ lines[task[t].line].ts \in Int
  BY <1>1 DEF RequestOK, TaskRow, Wellformed, LineRow
<1> DEFINE m == [task[t].prev EXCEPT !.source = "logscrape", !.enriched = FALSE, !.overlapping = FALSE]
           y == CloseRow(task[t].run, task[t].kind, lines[task[t].line].ts, m)
<1>3. m \in RunRow
  BY <1>2 DEF RunRow
<1>4. runs' = [runs EXCEPT ![task[t].run] = y]
  BY DEF CloseLogRun
<1> HIDE DEF m
<1>5. y \in RunRow /\ y.state = task[t].kind
  BY <1>2, <1>3, CloseRowType
<1> HIDE DEF y
<1>6. runs' \in [RunId -> RunRow] /\ \A i \in RunId : runs'[i] = runs[i] \/ runs'[i].state \in {"ok", "fail"}
  BY <1>2, <1>4, <1>5 DEF Wellformed, TypeOK, Kinds
<1>7. Finish(t) /\ lines' = lines
  BY DEF CloseLogRun
<1> QED
  BY <1>6, <1>7, RequestEnds DEF CloseLogRun, Wellformed, TypeOK

\* The clock, the wrapper, cron and the restart.
LEMMA EnvironmentWellformed ==
  ASSUME Wellformed,
         \/ Tick
         \/ \E p \in Ping : WrapperPosts(p)
         \/ \E l \in Line, k \in Kinds : LineWritten(l, k)
         \/ Crash
  PROVE  Wellformed' /\ UNCHANGED <<runs, hb, counted, failureRows, alerted>>
<1>1. CASE Tick
  <2>1. now' \in 0..MaxTime
    BY <1>1, TimesAssumption DEF Tick, Wellformed, TypeOK
  <2> QED
    BY <1>1, <2>1, RequestsStay DEF Tick, tables, Wellformed, TypeOK
<1>2. ASSUME NEW p \in Ping, WrapperPosts(p) PROVE Wellformed' /\ UNCHANGED tables /\ counted' = counted
  BY <1>2, RequestsStay DEF WrapperPosts, tables, Wellformed, TypeOK
<1>3. ASSUME NEW l \in Line, NEW k \in Kinds, LineWritten(l, k) PROVE Wellformed' /\ UNCHANGED tables /\ counted' = counted
  <2> DEFINE y == [kind |-> k, ts |-> now]
  <2>1. y \in LineRow /\ lines' = [lines EXCEPT ![l] = y] /\ lines[l] = None
    BY <1>3, TimesAssumption DEF LineWritten, LineRow, Wellformed, TypeOK
  <2> HIDE DEF y
  <2>2. lines' \in [Line -> LineRow \cup {None}]
    BY <2>1 DEF Wellformed
  <2>3. \A m \in Line : lines[m] # None => lines'[m] # None
    BY <2>1 DEF Wellformed
  <2>4. task' = task
    BY <1>3 DEF LineWritten
  <2> QED
    BY <1>3, <2>2, <2>3, <2>4, RequestsStay DEF LineWritten, tables, Wellformed, TypeOK
<1>4. CASE Crash
  <2>1. task' \in [Task -> TaskRow] /\ \A t \in Task : RequestOK(task[t])'
    <3>1. \A t \in Task : task'[t] = NoTask
      BY <1>4 DEF Crash
    <3>2. task' \in [Task -> TaskRow]
      BY <1>4, NoTaskType DEF Crash
    <3> QED
      BY <3>1, <3>2, NoTaskType DEF RequestOK
  <2> QED
    BY <1>4, <2>1, NoTickType DEF Crash, tables, Wellformed, TypeOK, RecRow
<1> QED
  BY <1>1, <1>2, <1>3, <1>4 DEF Tick, Crash, tables

\* Steps of the tick that only move its locals.
LEMMA TickMoves ==
  ASSUME Wellformed, rec' \in RecRow, rec'.pc \in {"failure", "alert"} => rec'.run \in RunId,
         UNCHANGED <<now, pings, lines, tables, task, counted>>
  PROVE  Wellformed'
BY RequestsStay DEF tables, Wellformed, TypeOK, RecRow

LEMMA TickLocalsWellformed ==
  ASSUME Wellformed,
         \/ TickStarts \/ EnrichStarts \/ TickCut
         \/ \E i \in RunId : SkipEnrich(i)
  PROVE  Wellformed' /\ UNCHANGED <<runs, hb, counted, failureRows, alerted, task>>
<1>1. CASE TickStarts
  <2>1. OpenLogRuns \subseteq RunId /\ now \in Nat
    BY TimesAssumption DEF OpenLogRuns, RunId, Wellformed, TypeOK
  <2>2. rec' = [NoTick EXCEPT !.pc = "finalize", !.at = now, !.todo = OpenLogRuns]
    BY <1>1 DEF TickStarts
  <2>3. rec' \in RecRow /\ rec'.pc = "finalize"
    BY <2>1, <2>2, NoTickType DEF RecRow
  <2> QED
    BY <1>1, <2>3, TickMoves DEF TickStarts, tables
<1>2. CASE EnrichStarts
  <2>1. PICK s \in Slices : rec' = [rec EXCEPT !.pc = "enrich", !.todo = s, !.failed = {i \in s : runs[i].state = "fail"}]
    BY <1>2 DEF EnrichStarts
  <2>2. s \subseteq RunId
    BY DEF Slices, Pending
  <2>3. rec' \in RecRow /\ rec'.pc = "enrich"
    BY <2>1, <2>2 DEF Wellformed, RecRow
  <2> QED
    BY <1>2, <2>3, TickMoves DEF EnrichStarts, tables
<1>3. CASE TickCut
  BY <1>3, NoTickType, TickMoves DEF TickCut, tables
<1>4. ASSUME NEW i \in RunId, SkipEnrich(i) PROVE Wellformed' /\ UNCHANGED <<tables, counted, task>>
  <2>1. rec' \in RecRow /\ rec'.pc = "enrich"
    BY <1>4 DEF SkipEnrich, Wellformed, RecRow
  <2> QED
    BY <1>4, <2>1, TickMoves DEF SkipEnrich, tables
<1> QED
  BY <1>1, <1>2, <1>3, <1>4 DEF TickStarts, EnrichStarts, TickCut, tables

\* Steps of the tick that write cron_runs.
LEMMA TickWrites ==
  ASSUME Wellformed, rec' \in RecRow, rec'.pc \in {"failure", "alert"} => rec'.run \in RunId,
         runs' \in [RunId -> RunRow],
         UNCHANGED <<now, pings, lines, cursors, hb, seen, failureRows, alerted, task, counted>>
  PROVE  Wellformed'
BY RequestsStay DEF Wellformed, TypeOK, RecRow

LEMMA FinalizeRunWellformed ==
  ASSUME Wellformed, NEW i \in RunId, FinalizeRun(i)
  PROVE  /\ Wellformed'
         /\ \A j \in RunId : \/ runs'[j].state = runs[j].state
                             \/ runs[j].state = "running" /\ runs'[j].state = "unknown"
<1>1. rec' \in RecRow /\ rec'.pc = "finalize"
  BY DEF FinalizeRun, Wellformed, RecRow
<1>2. ASSUME NEW end \in Int
      PROVE  /\ Finalized(i, end) \in RunRow
             /\ [Finalized(i, end) EXCEPT !.overlapping = TRUE] \in RunRow
             /\ LET s == Finalized(i, end).state IN
                  /\ [Finalized(i, end) EXCEPT !.overlapping = TRUE].state = s
                  /\ s = runs[i].state \/ (runs[i].state = "running" /\ s = "unknown")
  <2>1. runs[i] \in RunRow
    BY DEF Wellformed, TypeOK
  <2>2. Finalized(i, end) \in RunRow /\ (\/ Finalized(i, end).state = runs[i].state
                                         \/ runs[i].state = "running" /\ Finalized(i, end).state = "unknown")
    BY <2>1 DEF Finalized, RunRow, Closed
  <2> DEFINE y == Finalized(i, end)
  <2> HIDE DEF y
  <2>3. y \in RunRow => [y EXCEPT !.overlapping = TRUE] \in RunRow /\ [y EXCEPT !.overlapping = TRUE].state = y.state
    BY DEF RunRow
  <2>4. y \in RunRow /\ (y.state = runs[i].state \/ (runs[i].state = "running" /\ y.state = "unknown"))
    BY <2>2 DEF y
  <2> SUFFICES /\ y \in RunRow /\ [y EXCEPT !.overlapping = TRUE] \in RunRow
               /\ [y EXCEPT !.overlapping = TRUE].state = y.state
               /\ y.state = runs[i].state \/ (runs[i].state = "running" /\ y.state = "unknown")
    BY DEF y
  <2> QED
    BY <2>3, <2>4
<1>3. \/ \E end \in Int : runs' = [runs EXCEPT ![i] = Finalized(i, end)]
      \/ \E end \in Int : runs' = [runs EXCEPT ![i] = [Finalized(i, end) EXCEPT !.overlapping = TRUE]]
      \/ runs' = runs
  <2>1. \A j \in RunId : runs[j].started \in Int /\ runs[j].started + Timeout \in Int
    BY TimesAssumption DEF Wellformed, TypeOK, RunRow
  <2>2. rec.todo \subseteq RunId
    BY DEF Wellformed, RecRow
  <2> QED
    BY <2>1, <2>2 DEF FinalizeRun
<1>4. runs' \in [RunId -> RunRow]
      /\ \A j \in RunId : \/ runs'[j].state = runs[j].state
                          \/ runs[j].state = "running" /\ runs'[j].state = "unknown"
  BY <1>2, <1>3 DEF Wellformed, TypeOK
<1> QED
  BY <1>1, <1>4, TickWrites DEF FinalizeRun

LEMMA EnrichRunWellformed ==
  ASSUME Wellformed, NEW i \in RunId, EnrichRun(i)
  PROVE  /\ Wellformed' /\ rec'.pc # "alert"
         /\ \A j \in RunId : runs'[j].state = runs[j].state
<1> DEFINE p == IF i \in rec.failed THEN "failure" ELSE "enrich"
<1>1. p \in {"failure", "enrich"}
  OBVIOUS
<1>2. rec' = [rec EXCEPT !.todo = @ \ {i}, !.pc = p, !.run = i]
  BY DEF EnrichRun
<1> HIDE DEF p
<1>3. rec' \in RecRow /\ rec'.run = i /\ rec'.pc = p
  BY <1>1, <1>2 DEF Wellformed, RecRow
<1> DEFINE y == [runs[i] EXCEPT !.enriched = TRUE]
<1>4. y \in RunRow /\ y.state = runs[i].state
  <2>1. runs[i] \in RunRow
    BY DEF Wellformed, TypeOK
  <2> QED
    BY <2>1 DEF RunRow
<1>5. runs' = runs \/ runs' = [runs EXCEPT ![i] = y]
  BY DEF EnrichRun, Wellformed, TypeOK
<1> HIDE DEF y
<1>6. runs' \in [RunId -> RunRow] /\ \A j \in RunId : runs'[j].state = runs[j].state
  BY <1>4, <1>5 DEF Wellformed, TypeOK
<1> QED
  BY <1>1, <1>3, <1>6, TickWrites DEF EnrichRun

LEMMA FailureStepsWellformed ==
  ASSUME Wellformed, FailureRow \/ FailureAlert \/ PruneFailures
  PROVE  Wellformed' /\ UNCHANGED <<runs, hb, counted, task>>
<1>1. CASE FailureRow
  <2>1. rec' \in RecRow /\ rec'.run = rec.run /\ rec.run \in RunId
    BY <1>1 DEF FailureRow, Wellformed, RecRow
  <2>2. failureRows' \in [RunId -> Int]
    BY <1>1, TimesAssumption DEF FailureRow, Wellformed, TypeOK
  <2> QED
    BY <1>1, <2>1, <2>2, RequestsStay DEF FailureRow, Wellformed, TypeOK, RecRow
<1>2. CASE FailureAlert
  <2>1. rec' \in RecRow /\ rec'.pc = "enrich"
    BY <1>2 DEF FailureAlert, Wellformed, RecRow
  <2>2. alerted' \in [RunId -> Nat]
    BY <1>2 DEF FailureAlert, Wellformed, TypeOK
  <2> QED
    BY <1>2, <2>1, <2>2, RequestsStay DEF FailureAlert, Wellformed, TypeOK, RecRow
<1>3. CASE PruneFailures
  <2>1. failureRows' \in [RunId -> Int] /\ alerted' \in [RunId -> Nat]
    BY <1>3 DEF PruneFailures, Wellformed, TypeOK, NoTime
  <2> QED
    BY <1>3, <2>1, NoTickType, RequestsStay DEF PruneFailures, Wellformed, TypeOK, RecRow
<1> QED
  BY <1>1, <1>2, <1>3 DEF FailureRow, FailureAlert, PruneFailures

LEMMA PruneRunsWellformed ==
  ASSUME Wellformed, PruneRuns
  PROVE  /\ Wellformed' /\ rec'.pc = "prune"
         /\ \A i \in RunId : runs'[i].state \in {"none", runs[i].state}
<1>1. rec' \in RecRow /\ rec'.pc = "prune"
  BY DEF PruneRuns, Wellformed, RecRow
<1>2. \A i \in RunId : [NoRun EXCEPT !.line = runs[i].line] \in RunRow
                       /\ [NoRun EXCEPT !.line = runs[i].line].state = "none"
  BY NoRunType DEF Wellformed, TypeOK, RunRow, NoRun
<1>3. PICK kept \in SUBSET RunId :
        runs' = [i \in RunId |-> IF i \in kept THEN runs[i] ELSE [NoRun EXCEPT !.line = runs[i].line]]
  BY DEF PruneRuns, Newest
<1>4. runs' \in [RunId -> RunRow] /\ \A i \in RunId : runs'[i].state \in {"none", runs[i].state}
  BY <1>2, <1>3 DEF Wellformed, TypeOK
<1> QED
  BY <1>1, <1>4, TickWrites DEF PruneRuns

LEMMA InitWellformed == Init => Wellformed
<1> SUFFICES ASSUME Init PROVE Wellformed
  OBVIOUS
<1>1. TypeOK
  BY NoRunType, TimesAssumption DEF Init, TypeOK, Beat, NoTick, NoTime
<1>2. task \in [Task -> TaskRow] /\ \A t \in Task : RequestOK(task[t])
  BY NoTaskType, IdleOK DEF Init
<1> QED
  BY <1>1, <1>2, NoTickType DEF Init, Wellformed

LEMMA StepWellformed ==
  ASSUME Wellformed, [Next]_vars
  PROVE  Wellformed'
<1>1. CASE UNCHANGED vars
  BY <1>1 DEF vars, tables, Wellformed, TypeOK, RequestOK
<1>2. CASE Tick \/ (\E p \in Ping : WrapperPosts(p)) \/ (\E l \in Line, k \in Kinds : LineWritten(l, k)) \/ Crash
  BY <1>2, EnvironmentWellformed
<1>3. ASSUME NEW t \in Task, Serve(t) PROVE Wellformed'
  BY <1>3, ObserveRunWellformed, ReadBeatWellformed, WriteBeatWellformed, InsertRunWellformed,
     CloseWrapperRunWellformed, FindOpenRunWellformed, CloseLogRunWellformed DEF Serve
<1>4. ASSUME NEW t \in Task, (\E p \in Ping : ReceivePing(t, p)) \/ (\E l \in Line : ReceiveLine(t, l))
      PROVE  Wellformed'
  BY <1>4, ReceiveWellformed
<1>5. CASE TickStarts \/ EnrichStarts \/ TickCut \/ \E i \in RunId : SkipEnrich(i)
  BY <1>5, TickLocalsWellformed
<1>6. CASE FailureRow \/ FailureAlert \/ PruneFailures
  BY <1>6, FailureStepsWellformed
<1>7. CASE PruneRuns
  BY <1>7, PruneRunsWellformed
<1>8. ASSUME NEW i \in RunId, FinalizeRun(i) \/ EnrichRun(i) PROVE Wellformed'
  BY <1>8, FinalizeRunWellformed, EnrichRunWellformed
<1> QED
  BY <1>1, <1>2, <1>3, <1>4, <1>5, <1>6, <1>7, <1>8 DEF Next, Kinds

\* The tables of a cron's runs hold what their columns allow, and the tick only
\* what it read from them.
THEOREM Typing == Spec => []TypeOK
<1>1. Spec => []Wellformed
  BY InitWellformed, StepWellformed, PTL DEF Spec
<1>2. Wellformed => TypeOK
  BY DEF Wellformed
<1> QED
  BY <1>1, <1>2, PTL

----------------------------------------------------------------------------
(* Counting: a line whose cursor was claimed is with one request, or counted. *)

Observing == {t \in Task : task[t].pc = "observe"}

CountOnce ==
    /\ IsFiniteSet(counted) /\ counted \subseteq cursors
    /\ \A t \in Observing : task[t].line \in cursors \ counted
    /\ \A t, u \in Observing : task[t].line = task[u].line => t = u
    /\ NoObservedRunLost

\* A step that counts nothing and claims nothing for a request.
LEMMA CountStays ==
  ASSUME CountOnce, counted' = counted, hb'.observed = hb.observed, cursors \subseteq cursors',
         \A t \in Task : task'[t].pc = "observe" => task'[t] = task[t]
  PROVE  CountOnce'
<1>1. Observing' \subseteq Observing /\ \A t \in Observing' : task'[t] = task[t]
  BY DEF Observing
<1> QED
  BY <1>1 DEF CountOnce, NoObservedRunLost

LEMMA ReceiveLineCounts ==
  ASSUME Wellformed, CountOnce, NEW t \in Task, NEW l \in Line, ReceiveLine(t, l)
  PROVE  CountOnce'
<1>1. cursors' = cursors \cup {l} /\ counted' = counted /\ hb' = hb
  BY DEF ReceiveLine
<1>2. CASE task' = task
  BY <1>1, <1>2, CountStays
<1>3. CASE task' # task
  <2>1. l \notin cursors /\ \A u \in Task \ {t} : task'[u] = task[u]
    BY <1>3 DEF ReceiveLine, Claims, Wellformed
  <2>2. task'[t].line = l
    BY <1>3, ZenonT(30) DEF ReceiveLine, NoTask, Wellformed
  <2>3. \A u \in Observing' : u = t \/ (u # t /\ u \in Observing /\ task'[u] = task[u])
    BY <2>1 DEF Observing
  <2>4. \A u \in Observing : task[u].line # l
    BY <2>1 DEF CountOnce
  <2>5. l \notin counted
    BY <2>1 DEF CountOnce
  <2>6. \A u \in Observing' : task'[u].line \in cursors' \ counted'
    BY <1>1, <2>2, <2>3, <2>5 DEF CountOnce
  <2>7. \A u, v \in Observing' : task'[u].line = task'[v].line => u = v
    BY <2>2, <2>3, <2>4 DEF CountOnce
  <2> QED
    BY <1>1, <2>6, <2>7 DEF CountOnce, NoObservedRunLost
<1> QED
  BY <1>2, <1>3

LEMMA ObserveRunCounts ==
  ASSUME Wellformed, CountOnce, NEW t \in Task, ObserveRun(t)
  PROVE  CountOnce'
<1> DEFINE l == task[t].line
<1>1. t \in Observing /\ l \in cursors \ counted
  BY DEF ObserveRun, Observing, CountOnce
<1>2. hb'.observed = hb.observed + 1 /\ counted' = counted \cup {l} /\ cursors' = cursors
  BY DEF ObserveRun, Wellformed, TypeOK, Beat
<1>3. IsFiniteSet(counted') /\ Cardinality(counted') = Cardinality(counted) + 1
  BY <1>1, <1>2, FS_AddElement DEF CountOnce
<1>4. task'[t].pc = "insert" /\ \A u \in Task \ {t} : task'[u] = task[u]
  BY DEF ObserveRun, Goto, Wellformed, TaskRow
<1>5. Observing' \subseteq Observing \ {t} /\ \A u \in Observing' : task'[u] = task[u]
  BY <1>4 DEF Observing
<1>6. \A u \in Observing' : task'[u].line # l
  BY <1>1, <1>5 DEF CountOnce
<1> QED
  BY <1>1, <1>2, <1>3, <1>5, <1>6 DEF CountOnce, NoObservedRunLost

LEMMA StepCounts ==
  ASSUME Wellformed, CountOnce, [Next]_vars
  PROVE  CountOnce'
<1>1. CASE UNCHANGED vars
  BY <1>1, CountStays DEF vars, tables
<1>2. CASE Tick \/ (\E p \in Ping : WrapperPosts(p)) \/ (\E l \in Line, k \in Kinds : LineWritten(l, k)) \/ Crash
  <2>1. counted' = counted /\ hb' = hb /\ cursors' = cursors
    BY <1>2 DEF Tick, WrapperPosts, LineWritten, Crash, tables
  <2>2. \A t \in Task : task'[t].pc = "observe" => task'[t] = task[t]
    BY <1>2, NoTaskType DEF Tick, WrapperPosts, LineWritten, Crash
  <2> QED
    BY <2>1, <2>2, CountStays
<1>3. ASSUME NEW t \in Task, ReadBeat(t) \/ WriteBeat(t) \/ InsertRun(t) \/ CloseWrapperRun(t)
                             \/ FindOpenRun(t) \/ CloseLogRun(t)
      PROVE  CountOnce'
  <2>1. counted' = counted /\ cursors' = cursors
    BY <1>3 DEF ReadBeat, WriteBeat, InsertRun, CloseWrapperRun, FindOpenRun, CloseLogRun, tables
  <2>2. hb'.observed = hb.observed
    BY <1>3 DEF ReadBeat, WriteBeat, InsertRun, CloseWrapperRun, FindOpenRun, CloseLogRun, tables,
                Transition, Wellformed, TypeOK, Beat
  <2>3. task'[t].pc # "observe" /\ \A u \in Task \ {t} : task'[u] = task[u]
    <3>1. task[t] \in TaskRow
      BY DEF Wellformed
    <3>2. CASE Finish(t)
      BY <3>2, NoTaskType DEF Finish, Wellformed
    <3>3. CASE ReadBeat(t)
      BY <3>1, <3>3 DEF ReadBeat, Wellformed, TaskRow
    <3>4. CASE WriteBeat(t)
      BY <3>1, <3>4 DEF WriteBeat, Goto, Wellformed, TaskRow
    <3>5. CASE FindOpenRun(t) /\ ~Finish(t)
      <4>1. PICK i \in RunId : task' = [task EXCEPT ![t].pc = "closeLine", ![t].run = i, ![t].prev = runs[i]]
        BY <3>5 DEF FindOpenRun, OpenAt
      <4> QED
        BY <3>1, <4>1 DEF Wellformed, TaskRow
    <3> QED
      BY <1>3, <3>2, <3>3, <3>4, <3>5 DEF InsertRun, CloseWrapperRun, CloseLogRun
  <2> QED
    BY <2>1, <2>2, <2>3, CountStays
<1>4. ASSUME NEW t \in Task, NEW p \in Ping, ReceivePing(t, p) PROVE CountOnce'
  <2>1. \A u \in Task : task'[u].pc = "observe" => task'[u] = task[u]
    BY <1>4 DEF ReceivePing, NoTask, Wellformed
  <2> QED
    BY <1>4, <2>1, CountStays DEF ReceivePing, tables
<1>5. CASE TickStarts \/ EnrichStarts \/ TickCut \/ (\E i \in RunId : SkipEnrich(i))
           \/ FailureRow \/ FailureAlert \/ PruneFailures \/ PruneRuns
           \/ (\E i \in RunId : FinalizeRun(i) \/ EnrichRun(i))
  <2>1. counted' = counted /\ hb' = hb /\ cursors' = cursors /\ task' = task
    BY <1>5 DEF TickStarts, EnrichStarts, TickCut, SkipEnrich, FailureRow, FailureAlert, PruneFailures,
                PruneRuns, FinalizeRun, EnrichRun, tables
  <2> QED
    BY <2>1, CountStays
<1> QED
  BY <1>1, <1>2, <1>3, <1>4, <1>5, ReceiveLineCounts, ObserveRunCounts DEF Next, Serve, Kinds

\* heartbeats_state.observed_runs_total is the number of lines recorded, whatever
\* rows the transitions of other requests read before (record_observed_run).
THEOREM ObservedRunsAreCounted == Spec => []NoObservedRunLost
<1>1. Init => Wellformed /\ CountOnce
  <2>1. Init => CountOnce
    BY FS_EmptySet, NoTaskType DEF Init, CountOnce, Observing, NoObservedRunLost
  <2> QED
    BY <2>1, InitWellformed
<1>2. Wellformed /\ CountOnce /\ [Next]_vars => (Wellformed /\ CountOnce)'
  BY StepWellformed, StepCounts
<1>3. CountOnce => NoObservedRunLost
  BY DEF CountOnce
<1> QED
  BY <1>1, <1>2, <1>3, PTL DEF Spec

----------------------------------------------------------------------------
(* Alerting: the tick that made the failure row is the one that raises the counter. *)

AlertOnce ==
    /\ FailureReportedOnce
    /\ rec.pc = "alert" => failureRows[rec.run] # NoTime /\ alerted[rec.run] = 0

LEMMA StepAlerts ==
  ASSUME Wellformed, AlertOnce, [Next]_vars
  PROVE  AlertOnce'
<1>1. CASE UNCHANGED <<failureRows, alerted>> /\ (rec' = rec \/ rec'.pc # "alert")
  BY <1>1 DEF AlertOnce, FailureReportedOnce
<1>2. CASE FailureRow
  <2>1. rec.run \in RunId /\ rec \in RecRow /\ rec'.run = rec.run /\ now \in Nat
    BY <1>2, TimesAssumption DEF FailureRow, Wellformed, TypeOK, RecRow
  <2>2. CASE NewFailure(rec.run) /\ failureRows' = [failureRows EXCEPT ![rec.run] = now]
    <3>1. alerted' = alerted /\ alerted[rec.run] = 0
      BY <1>2, <2>1, <2>2 DEF FailureRow, NewFailure, AlertOnce, FailureReportedOnce, Wellformed, TypeOK
    <3>2. failureRows'[rec.run] # NoTime /\ \A i \in RunId \ {rec.run} : failureRows'[i] = failureRows[i]
      BY <2>1, <2>2 DEF NoTime, Wellformed, TypeOK
    <3> QED
      BY <2>1, <3>1, <3>2 DEF AlertOnce, FailureReportedOnce
  <2>3. CASE UNCHANGED failureRows /\ rec' = [rec EXCEPT !.pc = "enrich"]
    <3>1. rec'.pc = "enrich"
      BY <2>1, <2>3 DEF RecRow
    <3> QED
      BY <1>1, <1>2, <2>3, <3>1 DEF FailureRow
  <2> QED
    BY <1>2, <2>2, <2>3 DEF FailureRow
<1>3. CASE FailureAlert
  <2>1. rec.run \in RunId /\ rec'.pc = "enrich" /\ failureRows' = failureRows
    BY <1>3 DEF FailureAlert, Wellformed, RecRow
  <2>2. alerted[rec.run] = 0 /\ failureRows[rec.run] # NoTime
    BY <1>3 DEF FailureAlert, AlertOnce
  <2>3. alerted \in [RunId -> Nat] /\ alerted' = [alerted EXCEPT ![rec.run] = @ + 1]
    BY <1>3 DEF Wellformed, TypeOK, FailureAlert
  <2>4. alerted'[rec.run] = 1 /\ \A i \in RunId \ {rec.run} : alerted'[i] = alerted[i]
    BY <2>1, <2>2, <2>3
  <2> QED
    BY <2>1, <2>2, <2>4 DEF AlertOnce, FailureReportedOnce
<1>4. CASE PruneFailures
  <2>1. PICK kept \in SUBSET RunId :
          /\ failureRows' = [i \in RunId |-> IF i \in kept THEN failureRows[i] ELSE NoTime]
          /\ alerted' = [i \in RunId |-> IF i \in kept THEN alerted[i] ELSE 0]
    BY <1>4 DEF PruneFailures, Newest
  <2>2. rec'.pc = "idle"
    BY <1>4, NoTickType DEF PruneFailures
  <2> QED
    BY <2>1, <2>2 DEF AlertOnce, FailureReportedOnce
<1>5. CASE TickStarts \/ EnrichStarts \/ TickCut \/ PruneRuns
           \/ (\E i \in RunId : SkipEnrich(i) \/ FinalizeRun(i) \/ EnrichRun(i))
  <2>1. UNCHANGED <<failureRows, alerted>>
    BY <1>5 DEF TickStarts, EnrichStarts, TickCut, SkipEnrich, PruneRuns, FinalizeRun, EnrichRun, tables
  <2>2. rec'.pc # "alert"
    <3>1. CASE TickStarts \/ EnrichStarts \/ TickCut
      BY <3>1, NoTickType DEF TickStarts, EnrichStarts, TickCut, NoTick, Wellformed, RecRow
    <3>2. CASE PruneRuns \/ \E i \in RunId : EnrichRun(i)
      BY <3>2, PruneRunsWellformed, EnrichRunWellformed
    <3>3. CASE \E i \in RunId : SkipEnrich(i) \/ FinalizeRun(i)
      BY <3>3 DEF SkipEnrich, FinalizeRun, Wellformed, RecRow
    <3> QED
      BY <1>5, <3>1, <3>2, <3>3
  <2> QED
    BY <1>1, <2>1, <2>2
<1>6. CASE \/ UNCHANGED vars \/ Tick \/ Crash
           \/ (\E p \in Ping : WrapperPosts(p)) \/ (\E l \in Line, k \in Kinds : LineWritten(l, k))
           \/ (\E t \in Task : Serve(t) \/ (\E p \in Ping : ReceivePing(t, p)) \/ \E l \in Line : ReceiveLine(t, l))
  <2>1. UNCHANGED <<failureRows, alerted>>
    BY <1>6 DEF vars, tables, Tick, Crash, WrapperPosts, LineWritten, Serve, ReceivePing, ReceiveLine, ObserveRun,
                ReadBeat, WriteBeat, InsertRun, CloseWrapperRun, FindOpenRun, CloseLogRun
  <2>2. rec' = rec \/ rec' = NoTick
    BY <1>6 DEF vars, Tick, Crash, WrapperPosts, LineWritten, Serve, ReceivePing, ReceiveLine, ObserveRun,
                ReadBeat, WriteBeat, InsertRun, CloseWrapperRun, FindOpenRun, CloseLogRun
  <2> QED
    BY <1>1, <2>1, <2>2, NoTickType
<1> QED
  BY <1>2, <1>3, <1>4, <1>5, <1>6 DEF Next, Kinds

\* homelab_cron_run_failure_total of a run is raised once while its failure row
\* is kept, also when its lifecycle row was pruned and came back (_failure_enrich_run).
THEOREM FailuresAreReportedOnce == Spec => []FailureReportedOnce
<1>1. Init => Wellformed /\ AlertOnce
  <2>1. Init => AlertOnce
    BY NoTickType DEF Init, AlertOnce, FailureReportedOnce
  <2> QED
    BY <2>1, InitWellformed
<1>2. Wellformed /\ AlertOnce /\ [Next]_vars => (Wellformed /\ AlertOnce)'
  BY StepWellformed, StepAlerts
<1>3. AlertOnce => FailureReportedOnce
  BY DEF AlertOnce
<1> QED
  BY <1>1, <1>2, <1>3, PTL DEF Spec

----------------------------------------------------------------------------

LEMMA StepKeepsClosed ==
  ASSUME Wellformed, [Next]_vars
  PROVE  KeepsClosed \/ UNCHANGED vars
<1>1. ASSUME \A i \in RunId : runs'[i].state \in {runs[i].state, "none", "ok", "fail"}
                              \/ runs[i].state \in {"none", "running"}
      PROVE  KeepsClosed
  BY <1>1 DEF KeepsClosed, Closed
<1>2. CASE runs' = runs
  BY <1>1, <1>2
<1>3. ASSUME NEW t \in Task, InsertRun(t) PROVE KeepsClosed
  BY <1>1, <1>3, InsertRunWellformed
<1>4. ASSUME NEW t \in Task, CloseWrapperRun(t) \/ CloseLogRun(t) PROVE KeepsClosed
  BY <1>1, <1>4, CloseWrapperRunWellformed, CloseLogRunWellformed
<1>5. ASSUME NEW i \in RunId, FinalizeRun(i) PROVE KeepsClosed
  BY <1>1, <1>5, FinalizeRunWellformed
<1>6. ASSUME NEW i \in RunId, EnrichRun(i) PROVE KeepsClosed
  BY <1>1, <1>6, EnrichRunWellformed
<1>7. CASE PruneRuns
  BY <1>1, <1>7, PruneRunsWellformed
<1>8. CASE \/ Tick \/ Crash \/ TickStarts \/ EnrichStarts \/ TickCut \/ FailureRow \/ FailureAlert \/ PruneFailures
           \/ (\E p \in Ping : WrapperPosts(p)) \/ (\E l \in Line, k \in Kinds : LineWritten(l, k))
           \/ (\E i \in RunId : SkipEnrich(i))
           \/ (\E t \in Task : ObserveRun(t) \/ ReadBeat(t) \/ WriteBeat(t) \/ FindOpenRun(t)
                               \/ (\E p \in Ping : ReceivePing(t, p)) \/ \E l \in Line : ReceiveLine(t, l))
  <2>1. runs' = runs
    BY <1>8 DEF tables, Tick, Crash, WrapperPosts, LineWritten, ReceivePing, ReceiveLine, ObserveRun,
                ReadBeat, WriteBeat, FindOpenRun, TickStarts, EnrichStarts, TickCut, FailureRow, FailureAlert,
                PruneFailures, SkipEnrich
  <2> QED
    BY <1>2, <2>1
<1> QED
  BY <1>3, <1>4, <1>5, <1>6, <1>7, <1>8 DEF Next, Serve, Kinds

\* A closed run is never reopened and the window rule never takes back the verdict
\* of an exit (the INSERT OR IGNORE of insert_run, the guard of finalize_bmode_run).
THEOREM ClosedRunsAreKept == Spec => ClosedRunsStayClosed
<1>1. Spec => []Wellformed
  BY InitWellformed, StepWellformed, PTL DEF Spec
<1>2. Wellformed /\ [Next]_vars => [KeepsClosed]_vars
  BY StepKeepsClosed
<1> QED
  BY <1>1, <1>2, PTL DEF Spec, ClosedRunsStayClosed

----------------------------------------------------------------------------
(* The instances of MCCron.                                                *)

\* Concurrent, repeated and interrupted installs wrap a line once, and the files the
\* wrapper needs are there (install_wrapper_local, hm-cron-apply.sh), in all three
\* instances and beside runs.
THEOREM CrontabsCanRun == MCSpec => []WrappedLinesCanRun
<1> DEFINE Inv == /\ part \notin {"scans", "faulty"} => Installs!InventoryInv
                  /\ part = "scans" => Scans!InventoryInv
                  /\ part = "faulty" => Faulty!InventoryInv
<1>1. MCInit => Inv
  BY Installs!InventoryInit, Scans!InventoryInit, Faulty!InventoryInit DEF MCInit
<1>2. ASSUME Inv, [MCNext]_allVars PROVE Inv'
  <2>1. /\ part' = part
        /\ part \notin {"scans", "faulty"} => [Installs!Next]_(Installs!vars)
        /\ part = "scans" => [Scans!Next]_(Scans!vars)
        /\ part = "faulty" => [Faulty!Next]_(Faulty!vars)
    BY <1>2 DEF MCNext, allVars, inventoryVars, Installs!vars, Installs!hostVars, Scans!vars, Scans!hostVars,
       Faulty!vars, Faulty!hostVars
  <2> QED
    BY <1>2, <2>1, Installs!InventoryNext, Scans!InventoryNext, Faulty!InventoryNext
<1>3. Inv => WrappedLinesCanRun
  BY Installs!KitIsWhole, Scans!KitIsWhole, Faulty!KitIsWhole
  DEF WrappedLinesCanRun, Installs!WrappedLinesCanRun, Scans!WrappedLinesCanRun, Faulty!WrappedLinesCanRun,
      Installs!HostFile, Scans!HostFile, Faulty!HostFile
<1> QED
  BY <1>1, <1>2, <1>3, PTL DEF MCSpec
=============================================================================
