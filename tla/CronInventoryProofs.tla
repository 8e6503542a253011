------------------------- MODULE CronInventoryProofs -------------------------
(***************************************************************************)
(* Proofs about CronInventory, for any number of lines, calls, scans,      *)
(* edits and interrupted passes of the executor.                           *)
(*                                                                         *)
(* A line is wrapped last, when all files are there (KitOK), and from then *)
(* on no pass has anything to undo: it finds every file in its place       *)
(* (UndoOK).  A line is never wrapped twice since a call that installs     *)
(* keeps a line without the wrapper, and the executor replaces that line   *)
(* only (CallsOK).                                                         *)
(***************************************************************************)
EXTENDS CronInventory, TLAPS

CallRow == [pc : {"idle", "submit", "wait", "version", "upsert", "done"}, kind : {"install", "uninstall"},
            cron : Cron \cup {None}, old : LineForm]

\* What is left to do of an installation.
Whole == <<"script", "token", "env", "wrap">>
NoScript == <<"token", "env", "wrap">>
EnvLeft == <<"env", "wrap">>
WrapLeft == <<"wrap">>
Installing == {Whole, NoScript, EnvLeft, WrapLeft}
Unwrapping == {<<"unwrap">>}

Types ==
    /\ crontab \in [Cron -> LineForm] /\ snap \in [Cron -> LineForm]
    /\ files \subseteq HostFile /\ requests \subseteq Call
    /\ call \in [Call -> CallRow]
    /\ exec \in [call : Call \cup {None}, todo : Installing \cup Unwrapping \cup {<<>>}, undo : SUBSET HostFile]

CallOK(t) ==
    /\ call[t].cron \in Cron
    /\ call[t].old \in IF call[t].kind = "install" THEN {"plain", "legacy"} ELSE {"wrapped"}

CallsOK ==
    /\ \A t \in Call : call[t].pc # "idle" => CallOK(t)
    /\ \A t \in requests : call[t].pc # "idle"

\* The executor works on a request that was made, and writes the files in order.
KitOK ==
    /\ exec.call # None =>
          /\ exec.call \in Call /\ call[exec.call].pc # "idle"
          /\ exec.todo \in Installing => call[exec.call].kind = "install"
    /\ exec.todo = NoScript => "script" \in files
    /\ exec.todo = EnvLeft => {"script", "token"} \subseteq files
    /\ exec.todo = WrapLeft => files = HostFile

SomeWrapped == \E c \in Cron : crontab[c] = "wrapped"

UndoOK == SomeWrapped /\ exec.todo # <<>> => exec.undo = {}

InventoryInv == Types /\ CallsOK /\ KitOK /\ UndoOK /\ WrappedLinesCanRun

\* The steps of a kit in their order.
LEMMA KitSteps ==
  /\ Head(Whole) = "script" /\ Tail(Whole) = NoScript
  /\ Head(NoScript) = "token" /\ Tail(NoScript) = EnvLeft
  /\ Head(EnvLeft) = "env" /\ Tail(EnvLeft) = WrapLeft
  /\ Head(WrapLeft) = "wrap" /\ Head(<<"unwrap">>) = "unwrap"
  /\ Whole # <<>> /\ NoScript # <<>> /\ EnvLeft # <<>> /\ WrapLeft # <<>> /\ <<"unwrap">> # <<>>
  BY DEF Whole, NoScript, EnvLeft, WrapLeft

\* Which files are written before a step.
LEMMA KitsDiffer ==
  /\ Whole \notin {NoScript, EnvLeft, WrapLeft} /\ NoScript \notin {EnvLeft, WrapLeft}
  /\ EnvLeft # WrapLeft /\ <<"unwrap">> \notin Installing
  BY KitSteps DEF Installing

LEMMA Nothing == NoExec \in [call : Call \cup {None}, todo : Installing \cup Unwrapping \cup {<<>>}, undo : SUBSET HostFile]
                 /\ NoExec.call = None /\ NoExec.todo = <<>> /\ <<>> \notin Installing
  BY KitSteps DEF NoExec, Installing

\* Steps that touch neither the host's lines and files nor the executor.
LEMMA CallsOnly ==
  ASSUME InventoryInv, UNCHANGED <<crontab, files, exec>>, snap' \in [Cron -> LineForm],
         requests' \subseteq Call, call' \in [Call -> CallRow],
         \A t \in Call : call[t].pc # "idle" => /\ call'[t].pc # "idle" /\ call'[t].cron = call[t].cron
                                                /\ call'[t].kind = call[t].kind /\ call'[t].old = call[t].old,
         \A t \in Call : call[t].pc = "idle" /\ call'[t].pc # "idle" => CallOK(t)',
         \A t \in requests' : call'[t].pc # "idle"
  PROVE  InventoryInv'
<1>1. Types'
  BY DEF InventoryInv, Types
<1>2. CallsOK'
  BY DEF InventoryInv, CallsOK, CallOK
<1>3. KitOK'
  BY DEF InventoryInv, Types, KitOK
<1>4. UndoOK' /\ WrappedLinesCanRun'
  BY DEF InventoryInv, UndoOK, SomeWrapped, WrappedLinesCanRun
<1> QED
  BY <1>1, <1>2, <1>3, <1>4 DEF InventoryInv

\* Steps of the executor: calls stay as they are.
LEMMA ExecutorOnly ==
  ASSUME InventoryInv, UNCHANGED call, requests' \subseteq requests
  PROVE  CallsOK' /\ requests' \subseteq Call /\ call' \in [Call -> CallRow]
  BY DEF InventoryInv, Types, CallsOK, CallOK

\* A call moves on with its row, its line and its kind.
LEMMA CallMoves ==
  ASSUME InventoryInv, NEW t \in Call, NEW l \in {"wait", "version", "upsert", "done"},
         call[t].pc # "idle", Goto(t, l), UNCHANGED <<crontab, snap, files, exec>>,
         requests' \subseteq requests \cup {t}
  PROVE  InventoryInv'
<1> DEFINE x == [call[t] EXCEPT !.pc = l]
<1>1. call' = [call EXCEPT ![t] = x] /\ call \in [Call -> CallRow] /\ call[t] \in CallRow
  BY DEF Goto, InventoryInv, Types
<1>2. x \in CallRow /\ x.pc = l /\ x.cron = call[t].cron /\ x.kind = call[t].kind /\ x.old = call[t].old
  BY <1>1 DEF CallRow
<1> HIDE DEF x
<1>3. call' \in [Call -> CallRow] /\ call'[t] = x /\ \A u \in Call \ {t} : call'[u] = call[u]
  BY <1>1, <1>2
<1>4. \A u \in Call : call[u].pc # "idle" => /\ call'[u].pc # "idle" /\ call'[u].cron = call[u].cron
                                             /\ call'[u].kind = call[u].kind /\ call'[u].old = call[u].old
  BY <1>2, <1>3
<1>5. requests' \subseteq Call /\ \A u \in requests' : call'[u].pc # "idle"
  BY <1>2, <1>3, <1>4 DEF InventoryInv, Types, CallsOK
<1>6. \A u \in Call : call[u].pc = "idle" /\ call'[u].pc # "idle" => CallOK(u)'
  BY <1>3
<1> QED
  BY <1>3, <1>4, <1>5, <1>6, CallsOnly DEF InventoryInv, Types

LEMMA CallStepKeeps ==
  ASSUME InventoryInv, NEW t \in Call, CallStep(t)
  PROVE  InventoryInv'
<1>1. UNCHANGED <<crontab, snap, files, exec>> /\ requests' \subseteq requests \cup {t} /\ call[t].pc # "idle"
  BY DEF CallStep, Submit, Resulted, TimedOut, SetVersion, UpsertCall, hostVars
<1>2. \E l \in {"wait", "version", "upsert", "done"} : Goto(t, l)
  BY DEF CallStep, Submit, Resulted, TimedOut, SetVersion, UpsertCall
<1> QED
  BY <1>1, <1>2, CallMoves

\* The line that is kept fits the kind of the call.
LEMMA PrepareKeeps ==
  ASSUME InventoryInv, NEW t \in Call, NEW k \in {"install", "uninstall"}, NEW c \in Cron, Prepare(t, k, c)
  PROVE  InventoryInv'
<1> DEFINE x == [pc |-> "submit", kind |-> k, cron |-> c, old |-> snap[c]]
<1>1. /\ call' = [call EXCEPT ![t] = x] /\ call[t].pc = "idle"
      /\ snap[c] \in IF k = "install" THEN {"plain", "legacy"} ELSE {"wrapped"}
      /\ UNCHANGED <<crontab, snap, files, exec, requests>>
  BY DEF Prepare, hostVars
<1>2. x \in CallRow /\ x.pc = "submit" /\ x.kind = k /\ x.cron = c /\ x.old = snap[c]
  BY <1>1 DEF CallRow, InventoryInv, Types
<1> HIDE DEF x
<1>3. call' \in [Call -> CallRow] /\ call'[t] = x /\ \A u \in Call \ {t} : call'[u] = call[u]
  BY <1>1, <1>2 DEF InventoryInv, Types
<1>4. CallOK(t)'
  BY <1>1, <1>2, <1>3 DEF CallOK
<1>5. t \notin requests /\ requests' \subseteq Call /\ \A u \in requests' : call'[u].pc # "idle"
  BY <1>1, <1>3 DEF InventoryInv, Types, CallsOK
<1>6. \A u \in Call : call[u].pc # "idle" => call'[u] = call[u]
  BY <1>1, <1>3
<1>7. \A u \in Call : call[u].pc = "idle" /\ call'[u].pc # "idle" => CallOK(u)'
  BY <1>3, <1>4
<1> QED
  BY <1>1, <1>3, <1>5, <1>6, <1>7, CallsOnly DEF InventoryInv, Types

\* Steps of the table and of the scans, and the snapshot.
LEMMA TableKeeps ==
  ASSUME InventoryInv, UNCHANGED <<crontab, files, exec, requests, call>>, snap' \in {snap, crontab}
  PROVE  InventoryInv'
  BY CallsOnly DEF InventoryInv, Types, CallsOK

----------------------------------------------------------------------------
(* The host. *)

LEMMA EditKeeps ==
  ASSUME InventoryInv, NEW c \in Cron, Edit(c)
  PROVE  InventoryInv'
<1> DEFINE f == IF crontab[c] = "plain" THEN "absent" ELSE "plain"
<1>1. crontab' = [crontab EXCEPT ![c] = f] /\ UNCHANGED <<snap, files, exec, requests, call>>
  BY DEF Edit
<1>2. f \in {"absent", "plain"}
  OBVIOUS
<1> HIDE DEF f
<1>3. crontab' \in [Cron -> LineForm] /\ \A d \in Cron : crontab'[d] \in {crontab[d], "absent", "plain"}
  BY <1>1, <1>2 DEF InventoryInv, Types, LineForm
<1>4. Types' /\ CallsOK' /\ KitOK'
  BY <1>1, <1>3, ExecutorOnly DEF InventoryInv, Types, KitOK
<1>5. UndoOK' /\ WrappedLinesCanRun'
  BY <1>1, <1>3 DEF InventoryInv, UndoOK, SomeWrapped, WrappedLinesCanRun
<1> QED
  BY <1>4, <1>5 DEF InventoryInv

LEMMA PickKeeps ==
  ASSUME InventoryInv, NEW t \in Call, Pick(t)
  PROVE  InventoryInv'
<1>1. UNCHANGED <<crontab, snap, files, call>> /\ requests' \subseteq requests /\ call[t].pc # "idle"
  BY DEF Pick, InventoryInv, CallsOK
<1>2. CallsOK' /\ requests' \subseteq Call /\ call' \in [Call -> CallRow]
  BY <1>1, ExecutorOnly
<1>3. CASE exec' = exec
  BY <1>1, <1>2, <1>3 DEF InventoryInv, Types, KitOK, UndoOK, SomeWrapped, WrappedLinesCanRun
<1>4. CASE exec' # exec
  <2> DEFINE k == IF call[t].kind = "install" THEN <<"script", "token", "env", "wrap">> ELSE <<"unwrap">>
  <2>1. exec' = [call |-> t, undo |-> {}, todo |-> k]
    BY <1>4 DEF Pick
  <2>2. /\ k \in {Whole, <<"unwrap">>} /\ (k = Whole => call[t].kind = "install")
    BY KitsDiffer DEF Whole, Installing
  <2> HIDE DEF k
  <2>3. exec'.call = t /\ exec'.undo = {} /\ exec'.todo = k
    BY <2>1
  <2>4. exec' \in [call : Call \cup {None}, todo : Installing \cup Unwrapping \cup {<<>>}, undo : SUBSET HostFile]
    BY <2>1, <2>2 DEF Installing, Unwrapping
  <2>5. Types'
    BY <1>1, <1>2, <2>4 DEF InventoryInv, Types
  <2>6. KitOK'
    BY <1>1, <2>2, <2>3, KitsDiffer DEF KitOK, Installing
  <2>7. UndoOK' /\ WrappedLinesCanRun'
    BY <1>1, <2>3 DEF InventoryInv, UndoOK, WrappedLinesCanRun
  <2> QED
    BY <1>2, <2>5, <2>6, <2>7 DEF InventoryInv
<1> QED
  BY <1>3, <1>4

\* Files only come, and once a line is wrapped none is new.
LEMMA ApplyWriteKeeps ==
  ASSUME InventoryInv, ApplyWrite
  PROVE  InventoryInv'
<1> DEFINE k == exec.todo
           new == {Head(k)} \ files
<1>1. /\ exec \in [call : Call \cup {None}, todo : Installing \cup Unwrapping \cup {<<>>}, undo : SUBSET HostFile]
      /\ exec.call # None /\ k # <<>> /\ Head(k) \in HostFile /\ files \subseteq HostFile
      /\ files' = files \cup {Head(k)} /\ UNCHANGED <<crontab, snap, requests, call>>
  BY DEF ApplyWrite, InventoryInv, Types
<1>2. exec' = [exec EXCEPT !.todo = Tail(k), !.undo = exec.undo \cup new]
  BY DEF ApplyWrite
<1>3. k \in {Whole, NoScript, EnvLeft}
  BY <1>1, KitSteps DEF Installing, Unwrapping, HostFile
<1>4. Tail(k) \in {NoScript, EnvLeft, WrapLeft}
  BY <1>3, KitSteps
<1>5. /\ exec'.call = exec.call /\ exec'.todo = Tail(k) /\ exec'.undo = exec.undo \cup new
      /\ exec' \in [call : Call \cup {None}, todo : Installing \cup Unwrapping \cup {<<>>}, undo : SUBSET HostFile]
  BY <1>1, <1>2, <1>4 DEF Installing
<1>6. Types' /\ CallsOK'
  BY <1>1, <1>5, ExecutorOnly DEF InventoryInv, Types
<1>7. KitOK'
  <2>1. exec'.call \in Call /\ call'[exec'.call].pc # "idle" /\ call'[exec'.call].kind = "install"
    BY <1>1, <1>3, <1>5 DEF InventoryInv, KitOK, Installing
  <2>2. exec'.todo = NoScript => "script" \in files'
    BY <1>1, <1>3, <1>5, KitSteps, KitsDiffer
  <2>3. exec'.todo = EnvLeft => {"script", "token"} \subseteq files'
    BY <1>1, <1>3, <1>5, KitSteps, KitsDiffer DEF InventoryInv, KitOK
  <2>4. exec'.todo = WrapLeft => files' = HostFile
    <3> SUFFICES ASSUME exec'.todo = WrapLeft PROVE files' = HostFile
      OBVIOUS
    <3>1. k = EnvLeft /\ Head(k) = "env"
      BY <1>3, <1>5, KitSteps, KitsDiffer
    <3>2. {"script", "token"} \subseteq files
      BY <3>1 DEF InventoryInv, KitOK
    <3> HIDE DEF k
    <3> QED
      BY <1>1, <3>1, <3>2 DEF HostFile
  <2> QED
    BY <2>1, <2>2, <2>3, <2>4 DEF KitOK
<1>8. UndoOK' /\ WrappedLinesCanRun'
  BY <1>1, <1>5 DEF InventoryInv, UndoOK, SomeWrapped, WrappedLinesCanRun
<1> QED
  BY <1>6, <1>7, <1>8 DEF InventoryInv

\* A pass that gives up takes nothing away that a wrapped line needs.
LEMMA GivesUp ==
  ASSUME InventoryInv, exec.todo # <<>>, files' = RolledBack, NEW e, Answer(e), UNCHANGED <<crontab, snap, call>>
  PROVE  InventoryInv'
<1>1. exec' = NoExec /\ requests' \subseteq requests
  BY DEF Answer
<1>2. Types' /\ CallsOK' /\ KitOK'
  BY <1>1, Nothing, ExecutorOnly, KitSteps DEF InventoryInv, Types, KitOK, RolledBack, Installing
<1>3. SomeWrapped => files' = files
  BY DEF InventoryInv, UndoOK, RolledBack
<1>4. UndoOK' /\ WrappedLinesCanRun'
  BY <1>1, <1>3, Nothing DEF InventoryInv, UndoOK, SomeWrapped, WrappedLinesCanRun
<1> QED
  BY <1>2, <1>4 DEF InventoryInv

\* The line is replaced last.
LEMMA ApplyLineKeeps ==
  ASSUME InventoryInv, ApplyLine
  PROVE  InventoryInv'
<1> DEFINE t == exec.call
           c == call[t].cron
           old == call[t].old
           wrap == Head(exec.todo) = "wrap"
           f == IF wrap THEN Rewrapped(c) ELSE "plain"
<1>1. /\ exec.call # None /\ exec.todo # <<>> /\ Head(exec.todo) \in {"wrap", "unwrap"}
      /\ exec \in [call : Call \cup {None}, todo : Installing \cup Unwrapping \cup {<<>>}, undo : SUBSET HostFile]
  BY DEF ApplyLine, InventoryInv, Types
<1>2. t \in Call /\ CallOK(t) /\ c \in Cron
  BY <1>1 DEF InventoryInv, KitOK, CallsOK, CallOK
<1>3. wrap => exec.todo = WrapLeft /\ call[t].kind = "install" /\ files = HostFile
  <2>1. ASSUME wrap PROVE exec.todo = WrapLeft
    BY <1>1, <2>1, KitSteps DEF Installing, Unwrapping
  <2> QED
    BY <1>1, <2>1 DEF InventoryInv, KitOK, Installing
<1>4. CASE /\ Verbatim(c, old) /\ (old = "wrapped") = (Head(exec.todo) = "unwrap")
           /\ crontab' = [crontab EXCEPT ![c] = f] /\ snap' \in {snap, crontab'}
           /\ exec' = [exec EXCEPT !.todo = <<>>] /\ UNCHANGED <<files, requests, call>>
  <2>1. f \in {"plain", "wrapped"} /\ (f = "wrapped" => files = HostFile)
    BY <1>2, <1>3, <1>4 DEF Verbatim, Rewrapped, CallOK
  <2> HIDE DEF f
  <2>2. /\ crontab' \in [Cron -> LineForm] /\ crontab'[c] = f /\ \A d \in Cron \ {c} : crontab'[d] = crontab[d]
    BY <1>2, <1>4, <2>1 DEF InventoryInv, Types, LineForm
  <2>3. /\ exec'.call = exec.call /\ exec'.todo = <<>>
        /\ exec' \in [call : Call \cup {None}, todo : Installing \cup Unwrapping \cup {<<>>}, undo : SUBSET HostFile]
    BY <1>1, <1>4
  <2>4. Types' /\ CallsOK'
    BY <1>4, <2>2, <2>3, ExecutorOnly DEF InventoryInv, Types
  <2>5. KitOK'
    BY <1>1, <1>4, <2>3, Nothing, KitSteps DEF InventoryInv, KitOK
  <2>6. UndoOK' /\ WrappedLinesCanRun'
    BY <1>4, <2>1, <2>2, <2>3 DEF InventoryInv, UndoOK, WrappedLinesCanRun
  <2> QED
    BY <2>4, <2>5, <2>6 DEF InventoryInv
<1>5. CASE files' = RolledBack /\ Answer("error") /\ UNCHANGED <<crontab, snap, call>>
  BY <1>1, <1>5, GivesUp
<1> QED
  BY <1>4, <1>5 DEF ApplyLine

\* A pass that ends, or is interrupted, leaves lines and files as they are.
LEMMA PassEnds ==
  ASSUME InventoryInv, exec' = NoExec, requests' \subseteq requests, UNCHANGED <<crontab, snap, files, call>>
  PROVE  InventoryInv'
<1>1. Types' /\ CallsOK' /\ KitOK'
  BY Nothing, ExecutorOnly, KitSteps DEF InventoryInv, Types, KitOK
<1>2. UndoOK' /\ WrappedLinesCanRun'
  BY Nothing DEF InventoryInv, UndoOK, WrappedLinesCanRun
<1> QED
  BY <1>1, <1>2 DEF InventoryInv

LEMMA HostKeeps ==
  ASSUME InventoryInv, SnapshotTimer \/ Execute \/ ApplyFails \/ ExecutorDies
  PROVE  InventoryInv'
<1>1. CASE SnapshotTimer
  BY <1>1, TableKeeps DEF SnapshotTimer
<1>2. CASE Applied \/ ExecutorDies
  BY <1>2, PassEnds DEF Applied, ExecutorDies, Answer
<1>3. CASE ApplyFails
  BY <1>3, GivesUp DEF ApplyFails
<1> QED
  BY <1>1, <1>2, <1>3, ApplyWriteKeeps, ApplyLineKeeps, PickKeeps DEF Execute

LEMMA ScansKeep ==
  ASSUME InventoryInv, NEW s \in Scan,
         ScanStep(s) \/ (\E r \in BOOLEAN : ReadFile(s, r)) \/ \E c \in Cron : UpsertFails(s, c)
  PROVE  InventoryInv'
<1>1. UNCHANGED <<crontab, snap, files, exec, requests, call>>
  BY DEF ScanStep, ReadFile, UpsertFails, ListPaths, Reconcile, UpsertEntry, hostVars
<1> QED
  BY <1>1, TableKeeps

LEMMA InventoryInit == Init => InventoryInv
<1> SUFFICES ASSUME Init PROVE InventoryInv
  OBVIOUS
<1>1. NoCall \in CallRow /\ NoCall.pc = "idle"
  BY DEF NoCall, CallRow, LineForm
<1>2. Types
  BY <1>1, Nothing DEF Init, Types, LineForm
<1>3. CallsOK /\ KitOK
  BY <1>1, Nothing, KitSteps DEF Init, CallsOK, KitOK
<1>4. UndoOK /\ WrappedLinesCanRun
  BY Nothing DEF Init, UndoOK, WrappedLinesCanRun
<1> QED
  BY <1>2, <1>3, <1>4 DEF InventoryInv

LEMMA InventoryNext == InventoryInv /\ [Next]_vars => InventoryInv'
<1> SUFFICES ASSUME InventoryInv, [Next]_vars PROVE InventoryInv'
  OBVIOUS
<1>1. CASE UNCHANGED vars
  BY <1>1, TableKeeps DEF vars, hostVars
<1>2. ASSUME NEW c \in Cron, Register(c) PROVE InventoryInv'
  BY <1>2, TableKeeps DEF Register, hostVars
<1> QED
  BY <1>1, <1>2, EditKeeps, HostKeeps, PrepareKeeps, CallStepKeeps, ScansKeep DEF Next

LEMMA KitIsWhole == InventoryInv => WrappedLinesCanRun
  BY DEF InventoryInv

\* No line is ever wrapped twice, and whenever one calls the wrapper in its current
\* form, the script, the token and wrapper.env are on the host, whatever installs and
\* uninstalls overlap, fail, are interrupted or are applied after their caller gave up
\* (install_wrapper_local, hm-cron-apply.sh).
THEOREM WrappedLinesRun == Spec => []WrappedLinesCanRun
  BY KitIsWhole, InventoryInit, InventoryNext, PTL DEF Spec
=============================================================================
