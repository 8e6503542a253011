--------------------------- MODULE CronInventory ----------------------------
(***************************************************************************)
(* The crons of one user crontab: the host's file and its world-readable   *)
(* snapshot, the discovery scan (plugins/discoverers/cron_discoverer.py),  *)
(* the crons table (cron/repository.py), and the installation of the       *)
(* heartbeat wrapper (cron/install.py), which goes through request and     *)
(* result files to a root executor (cron_apply_ipc.py,                     *)
(* scripts/hm-cron-apply.sh).                                              *)
(***************************************************************************)
EXTENDS Naturals, Sequences, FiniteSets

CONSTANTS
    Cron,         \* fingerprints of the lines of the crontab
    Call,         \* install and uninstall calls
    Scan,         \* the scheduled discoverer, discover_now
    MaxEdits,     \* bound on the operator's edits
    MaxFaults,    \* bound on failures of upsert_discovered in a scan
    MaxCrashes,   \* bound on interrupted executor passes
    None

VARIABLES
    crontab,      \* the line of each cron in the spool file
    spool,        \* the file without them: with other lines, empty or gone
    snap,         \* the lines of the snapshot the container can read
    snapshotted,  \* whether there is a snapshot
    files,        \* wrapper script, token and wrapper.env on the host
    requests,     \* <IPC>/requests: calls with a pending request
    results,      \* <IPC>/results
    exec,         \* the executor: the request it applies and its undo log
    rows,         \* the crons table
    call,         \* calls and their locals
    scan,         \* scans and their locals
    edits, faults, exCrashes

hostVars == <<crontab, spool, snap, snapshotted, files, exec, exCrashes>>
vars == <<hostVars, requests, results, rows, call, scan, edits, faults>>

\* legacy: wrapped without a fingerprint argument; double: wrapped twice.
LineForm == {"absent", "plain", "legacy", "wrapped", "double"}
Wrapped == {"legacy", "wrapped", "double"}

HostFile == {"script", "token", "env"}

\* A row of crons.  hidden_at and the names are left out.
Row == [known : BOOLEAN, deleted : BOOLEAN, wrapped : BOOLEAN, current : BOOLEAN]
NoRow == [known |-> FALSE, deleted |-> FALSE, wrapped |-> FALSE, current |-> FALSE]

NoCall == [pc |-> "idle", kind |-> "install", cron |-> None, old |-> "absent"]
NoScan == [pc |-> "idle", todo |-> {}, form |-> <<>>, found |-> {}, readable |-> FALSE, clean |-> FALSE]
NoExec == [call |-> None, todo |-> <<>>, undo |-> {}]

\* What a crontab with these lines can look like: one without a cron can still have
\* comments or settings.
SpoolFiles(lines) ==
    IF \A c \in Cron : lines[c] = "absent" THEN {"lines", "empty", "gone"} ELSE {"lines"}

Init ==
    /\ crontab \in [Cron -> {"absent", "plain", "legacy"}]
    /\ spool \in SpoolFiles(crontab)
    /\ snap = crontab /\ snapshotted = (spool = "lines")
    /\ files = {} /\ requests = {}
    /\ results = [t \in Call |-> None] /\ exec = NoExec
    /\ rows = [c \in Cron |-> NoRow]
    /\ call = [t \in Call |-> NoCall] /\ scan = [s \in Scan |-> NoScan]
    /\ edits = 0 /\ faults = 0 /\ exCrashes = 0

----------------------------------------------------------------------------
(* The host. *)

\* The operator adds or removes a line, or writes it anew without the wrapper.
Edit(c) ==
    /\ edits < MaxEdits /\ edits' = edits + 1
    /\ crontab' = [crontab EXCEPT ![c] = IF @ = "plain" THEN "absent" ELSE "plain"]
    /\ spool' \in SpoolFiles(crontab')
    /\ UNCHANGED <<snap, snapshotted, files, exec, exCrashes, requests, results, rows, call, scan, faults>>

\* hm-crontab-snapshot, every 300 s.  A crontab that `crontab -l` shows as empty is
\* skipped, its snapshot stays; the prune removes the snapshot of a file that is gone.
SnapshotTimer ==
    /\ spool # "empty"
    /\ snap # crontab \/ snapshotted # (spool = "lines")
    /\ snap' = crontab /\ snapshotted' = (spool = "lines")
    /\ UNCHANGED <<crontab, spool, files, exec, exCrashes, requests, results, rows, call, scan, edits, faults>>

\* process_request picks a request; one whose result exists is only deleted.
\* build_install_kit orders the operations, the crontab last.
Pick(t) ==
    /\ exec.call = None /\ t \in requests
    /\ IF results[t] # None
       THEN requests' = requests \ {t} /\ UNCHANGED exec
       ELSE /\ exec' = [call |-> t, undo |-> {},
                        todo |-> IF call[t].kind = "install"
                                 THEN <<"script", "token", "env", "wrap">> ELSE <<"unwrap">>]
            /\ UNCHANGED requests
    /\ UNCHANGED <<crontab, spool, snap, snapshotted, files, exCrashes, results, rows, call, scan, edits, faults>>

\* apply_write_file: a file that was not there is deleted by the rollback.
ApplyWrite ==
    /\ exec.call # None /\ exec.todo # <<>> /\ Head(exec.todo) \in HostFile
    /\ files' = files \cup {Head(exec.todo)}
    /\ exec' = [exec EXCEPT !.todo = Tail(@), !.undo = @ \cup ({Head(exec.todo)} \ files)]
    /\ UNCHANGED <<crontab, spool, snap, snapshotted, exCrashes, requests, results, rows, call, scan, edits, faults>>

\* old_line must be in the file verbatim.
Verbatim(c, old) == crontab[c] = old

\* What the executor makes of the line.
Rewrapped(c) == IF crontab[c] \in {"plain", "legacy"} THEN "wrapped" ELSE "double"

\* Mutant: the rollback deletes every file the request names.
RolledBackAll == files \ HostFile

\* rollback_all: files that were there are restored, the others deleted.
RolledBack == files \ exec.undo

Answer(status) ==
    /\ results' = [results EXCEPT ![exec.call] = status]
    /\ requests' = requests \ {exec.call}
    /\ exec' = NoExec

\* apply_wrap_crontab, apply_unwrap_crontab and the end of the request.  The
\* snapshot is refreshed inline unless that fails.
ApplyLine ==
    LET c == call[exec.call].cron
        old == call[exec.call].old IN
    /\ exec.call # None /\ exec.todo # <<>> /\ Head(exec.todo) \in {"wrap", "unwrap"}
    /\ \/ /\ Verbatim(c, old) /\ (old = "wrapped") = (Head(exec.todo) = "unwrap")
          /\ crontab' = [crontab EXCEPT ![c] = IF Head(exec.todo) = "wrap" THEN Rewrapped(c) ELSE "plain"]
          /\ \/ snap' = crontab' /\ snapshotted' = TRUE
             \/ UNCHANGED <<snap, snapshotted>>
          /\ exec' = [exec EXCEPT !.todo = <<>>]
          /\ UNCHANGED <<files, requests, results>>
       \/ /\ ~Verbatim(c, old) \/ (old = "wrapped") # (Head(exec.todo) = "unwrap")
          /\ files' = RolledBack
          /\ Answer("error")
          /\ UNCHANGED <<crontab, snap, snapshotted>>
    /\ UNCHANGED <<spool, exCrashes, rows, call, scan, edits, faults>>

\* A write fails: everything is undone.
ApplyFails ==
    /\ exec.call # None /\ exec.todo # <<>>
    /\ files' = RolledBack
    /\ Answer("error")
    /\ UNCHANGED <<crontab, spool, snap, snapshotted, exCrashes, rows, call, scan, edits, faults>>

\* write_result, then the request file goes.
Applied ==
    /\ exec.call # None /\ exec.todo = <<>>
    /\ Answer("ok")
    /\ UNCHANGED <<crontab, spool, snap, snapshotted, files, exCrashes, rows, call, scan, edits, faults>>

\* The pass is interrupted: no rollback; the timer finds the request again.
ExecutorDies ==
    /\ exec.call # None /\ exCrashes < MaxCrashes
    /\ exCrashes' = exCrashes + 1
    /\ exec' = NoExec
    /\ UNCHANGED <<crontab, spool, snap, snapshotted, files, requests, results, rows, call, scan, edits, faults>>

----------------------------------------------------------------------------
(* The table. *)

\* Mutant: INSERT OR IGNORE.
UpsertedIfNew(c, wrapped) ==
    IF rows[c].known THEN rows[c]
                     ELSE [known |-> TRUE, deleted |-> FALSE, wrapped |-> wrapped, current |-> FALSE]

\* upsert_discovered: a new row, or the mirror of the line; soft_deleted_at is
\* not its business.
Upserted(c, wrapped) ==
    IF rows[c].known THEN [rows[c] EXCEPT !.wrapped = wrapped]
                     ELSE [known |-> TRUE, deleted |-> FALSE, wrapped |-> wrapped, current |-> FALSE]

\* register_cron, called by the wrapper when its job runs.
Register(c) ==
    /\ crontab[c] = "wrapped"
    /\ rows' = [rows EXCEPT ![c] = IF @.known THEN [@ EXCEPT !.deleted = FALSE] ELSE Upserted(c, TRUE)]
    /\ UNCHANGED <<hostVars, requests, results, call, scan, edits, faults>>

----------------------------------------------------------------------------
(* install_wrapper_local and uninstall_wrapper_local. *)

Goto(t, l) == call' = [call EXCEPT ![t].pc = l]

\* The row, and the line as the snapshot has it; the kit keeps that line.
Prepare(t, kind, c) ==
    /\ call[t].pc = "idle" /\ rows[c].known
    /\ snap[c] \in IF kind = "install" THEN {"plain", "legacy"} ELSE {"wrapped"}
    /\ call' = [call EXCEPT ![t] = [pc |-> "submit", kind |-> kind, cron |-> c, old |-> snap[c]]]
    /\ UNCHANGED <<hostVars, requests, results, rows, scan, edits, faults>>

Submit(t) ==
    /\ call[t].pc = "submit"
    /\ requests' = requests \cup {t}
    /\ Goto(t, "wait")
    /\ UNCHANGED <<hostVars, results, rows, scan, edits, faults>>

\* The result is there; an error ends the call.
Resulted(t) ==
    /\ call[t].pc = "wait" /\ results[t] # None
    /\ Goto(t, IF results[t] = "error" THEN "done"
               ELSE IF call[t].kind = "install" THEN "version" ELSE "upsert")
    /\ UNCHANGED <<hostVars, requests, results, rows, scan, edits, faults>>

\* No result in time: the request file is removed, if the executor has not taken it.
TimedOut(t) ==
    /\ call[t].pc = "wait" /\ results[t] = None
    /\ requests' = requests \ {t}
    /\ Goto(t, "done")
    /\ UNCHANGED <<hostVars, results, rows, scan, edits, faults>>

SetVersion(t) ==
    /\ call[t].pc = "version"
    /\ rows' = [rows EXCEPT ![call[t].cron].current = TRUE]
    /\ Goto(t, "upsert")
    /\ UNCHANGED <<hostVars, requests, results, scan, edits, faults>>

UpsertCall(t) ==
    /\ call[t].pc = "upsert"
    /\ rows' = [rows EXCEPT ![call[t].cron] = Upserted(call[t].cron, call[t].kind = "install")]
    /\ Goto(t, "done")
    /\ UNCHANGED <<hostVars, requests, results, scan, edits, faults>>

CallStep(t) == Submit(t) \/ Resulted(t) \/ TimedOut(t) \/ SetVersion(t) \/ UpsertCall(t)

----------------------------------------------------------------------------
(* CronDiscoverer.scan and reconcile_soft_deletes. *)

\* The snapshot is read; it cannot be, or some of its lines cannot be parsed and the
\* others count; or there is none.
ReadFile(s, readable) ==
    /\ scan[s].pc = "idle"
    /\ LET lines == {c \in Cron : snap[c] # "absent"} IN
       \E todo \in IF readable THEN {lines} ELSE SUBSET lines :
          scan' = [scan EXCEPT ![s] = [pc |-> "upsert", form |-> snap, found |-> {}, readable |-> readable,
                                       todo |-> todo, clean |-> readable /\ snapshotted]]
    /\ UNCHANGED <<hostVars, requests, results, rows, call, edits, faults>>

UpsertEntry(s, c) ==
    /\ scan[s].pc = "upsert" /\ c \in scan[s].todo
    /\ rows' = [rows EXCEPT ![c] = Upserted(c, scan[s].form[c] \in Wrapped)]
    /\ scan' = [scan EXCEPT ![s].todo = @ \ {c}, ![s].found = @ \cup {c}]
    /\ UNCHANGED <<hostVars, requests, results, call, edits, faults>>

\* The upsert raises: the path is dropped from clean_source_paths.
UpsertFails(s, c) ==
    /\ scan[s].pc = "upsert" /\ c \in scan[s].todo
    /\ faults < MaxFaults /\ faults' = faults + 1
    /\ scan' = [scan EXCEPT ![s].todo = @ \ {c}, ![s].clean = FALSE]
    /\ UNCHANGED <<hostVars, requests, results, rows, call, edits>>

\* clean_source_paths in the end: paths the table knows come back, unreadable
\* ones never.
Clean(s) == (scan[s].clean \/ \E c \in Cron : rows[c].known) /\ scan[s].readable

\* A listing that fails adds no path.
ListPaths(s, listed) ==
    /\ scan[s].pc = "upsert" /\ scan[s].todo = {}
    /\ scan' = [scan EXCEPT ![s].pc = "reconcile", ![s].clean = IF listed THEN Clean(s) ELSE @]
    /\ UNCHANGED <<hostVars, requests, results, rows, call, edits, faults>>

\* reconcile_soft_deletes: one transaction over the rows of the path.
Reconcile(s) ==
    /\ scan[s].pc = "reconcile"
    /\ rows' = IF scan[s].clean
               THEN [c \in Cron |-> IF rows[c].known THEN [rows[c] EXCEPT !.deleted = c \notin scan[s].found]
                                                     ELSE rows[c]]
               ELSE rows
    /\ scan' = [scan EXCEPT ![s] = NoScan]
    /\ UNCHANGED <<hostVars, requests, results, call, edits, faults>>

ScanStep(s) == (\E listed \in BOOLEAN : ListPaths(s, listed)) \/ Reconcile(s) \/ \E c \in Cron : UpsertEntry(s, c)

Execute == ApplyWrite \/ ApplyLine \/ Applied \/ \E t \in Call : Pick(t)

Next ==
    \/ \E c \in Cron : Edit(c) \/ Register(c)
    \/ SnapshotTimer \/ Execute \/ ApplyFails \/ ExecutorDies
    \/ \E t \in Call, k \in {"install", "uninstall"}, c \in Cron : Prepare(t, k, c)
    \/ \E t \in Call : CallStep(t)
    \/ \E s \in Scan : ScanStep(s) \/ (\E r \in BOOLEAN : ReadFile(s, r)) \/ \E c \in Cron : UpsertFails(s, c)

\* The timers of host and scheduler fire, handlers go on, the snapshot is not unreadable
\* for ever, and the list of paths does not fail in every scan that could read it.
Fairness ==
    /\ WF_vars(SnapshotTimer) /\ WF_vars(Execute)
    /\ \A t \in Call : WF_vars(CallStep(t))
    /\ \A s \in Scan : /\ WF_vars(ScanStep(s))
                     /\ SF_vars(ReadFile(s, TRUE))
                     /\ SF_vars(ListPaths(s, TRUE) /\ scan[s].readable)

Spec == Init /\ [][Next]_vars /\ Fairness

----------------------------------------------------------------------------

TypeOK ==
    /\ crontab \in [Cron -> LineForm] /\ snap \in [Cron -> LineForm]
    /\ spool \in {"lines", "empty", "gone"} /\ snapshotted \in BOOLEAN
    /\ files \subseteq HostFile /\ requests \subseteq Call
    /\ results \in [Call -> {None, "ok", "error"}]
    /\ rows \in [Cron -> Row]
    /\ \A s \in Scan : scan[s].todo \subseteq Cron /\ scan[s].found \subseteq Cron
    /\ exec.call \in Call \cup {None}

\* The jobs can run: a line is never wrapped twice, and whenever one calls the
\* wrapper in its current form, the script, the token and wrapper.env are there,
\* whatever was rolled back, interrupted or applied after its caller gave up.
WrappedLinesCanRun ==
    /\ \A c \in Cron : crontab[c] # "double"
    /\ (\E c \in Cron : crontab[c] = "wrapped") => files = HostFile

Mirrors(row, form) ==
    IF form = "absent" THEN row.known => row.deleted
    ELSE row.known /\ ~row.deleted /\ row.wrapped = (form \in Wrapped)

\* Once edits stop, the inventory follows the crontab: deleted rows, restored
\* rows and the wrapper mirror, although scans overlap with installs and with
\* each other and use what they read before.  Of a crontab that was emptied, but not
\* removed, it keeps to the snapshot, which stays (hm-crontab-snapshot.sh).
InventoryConverges ==
    <>[](\A c \in Cron : Mirrors(rows[c], IF spool = "empty" THEN snap[c] ELSE crontab[c]))
=============================================================================
