------------------------------ MODULE RunFiles ------------------------------
(***************************************************************************)
(* The files that the process of a fix leaves in the directory it shares   *)
(* with the monitor (orchestrator.py, _exec_claude to _process_feedback):  *)
(* a transcript and feedback, which the monitor can only tell apart by     *)
(* when they appeared, and intents, which it acts upon after the run.  The *)
(* rotator removes old transcripts (transcript_rotator.py).  Which runs    *)
(* are made, and what they cost, is the subject of AutoFix.                *)
(***************************************************************************)
EXTENDS Naturals, FiniteSets, Sequences

CONSTANTS
    Run,            \* ids of runs; they grow with the time of the claim
    Runbook,
    Pass,           \* passes of the rotator: the loop's and those of the API
    KeepLastN,      \* transcript_rotation_max_count
    MaxAge,         \* transcript_rotation_max_age_days
    MaxTime,
    MaxCrashes,
    None

\* What an instance assumes of the constants.
FilesAssumption ==
    /\ Run \subseteq Nat /\ IsFiniteSet(Run)
    /\ KeepLastN \in Nat /\ MaxAge \in Nat /\ MaxTime \in Nat /\ MaxCrashes \in Nat
    /\ None \notin Runbook /\ None \notin Run

VARIABLES
    clock,
    pc,             \* pc[r]: where the request that runs r is
    book, dry, started,     \* columns of runbook_runs
    path, note,     \* whose transcript and feedback are stored with r
    pruned,         \* transcript_pruned_at is set
    prunes,         \* audit rows autofix.transcript_pruned of r
    written, removed,       \* files that processes made, and those that are gone again
    before,         \* the listing that the run in exec took
    living,         \* runs whose process is alive
    outlived,       \* runs whose process outlived its exec call
    found,          \* what the request of r found, not stored yet
    intents,        \* the intent file of r, None if there is none that can be read
    verdicts,       \* audited: what became of the intents of r, in order
    restarts,       \* restarts that docker was asked for on behalf of r
    pass,           \* pass[p]: what a pass has still to remove, and what to mark
    crashes

vars == <<clock, pc, book, dry, started, path, note, pruned, prunes, written, removed, before, living,
          outlived, found, intents, verdicts, restarts, pass, crashes>>

runVars == <<book, dry, started>>
rowVars == <<path, note, pruned, prunes>>
fileVars == <<written, removed, before, living, outlived, found>>
intentVars == <<intents, verdicts, restarts>>

Kind == {"transcript", "feedback"}
File == Kind \X Run

\* The transcript directory.
Disk == written \ removed

Nothing == [transcript |-> None, feedback |-> None]
IntentFile == {<<"granted", "granted">>, <<"foreign", "granted">>}
Verdict == {"executed", "refused", "unreachable", "skipped", "denied", "planned", "failed"}
Idle == [todo |-> {}, marking |-> None]

TypeOK ==
    /\ clock \in 0..MaxTime
    /\ pc \in [Run -> {"new", "claimed", "exec", "intents", "persist", "done", "lost"}]
    /\ book \in [Run -> Runbook \cup {None}] /\ dry \in [Run -> BOOLEAN] /\ started \in [Run -> Nat]
    /\ path \in [Run -> Run \cup {None}] /\ note \in [Run -> Run \cup {None}]
    /\ pruned \subseteq Run /\ prunes \in [Run -> Nat]
    /\ written \subseteq File /\ removed \subseteq File /\ before \subseteq File
    /\ living \subseteq Run /\ outlived \subseteq Run
    /\ found \in [Run -> [Kind -> Run \cup {None}]]
    /\ intents \in [Run -> IntentFile \cup {None}]
    /\ verdicts \in [Run -> Seq(Verdict)] /\ restarts \in [Run -> Nat]
    /\ pass \in [Pass -> [todo : SUBSET Run, marking : Run \cup {None}]]
    /\ crashes \in 0..MaxCrashes

Init ==
    /\ clock = 0 /\ crashes = 0
    /\ pc = [r \in Run |-> "new"]
    /\ book = [r \in Run |-> None] /\ dry = [r \in Run |-> FALSE] /\ started = [r \in Run |-> 0]
    /\ path = [r \in Run |-> None] /\ note = [r \in Run |-> None]
    /\ pruned = {} /\ prunes = [r \in Run |-> 0]
    /\ written = {} /\ removed = {} /\ before = {} /\ living = {} /\ outlived = {}
    /\ found = [r \in Run |-> Nothing]
    /\ intents = [r \in Run |-> None]
    /\ verdicts = [r \in Run |-> <<>>] /\ restarts = [r \in Run |-> 0]
    /\ pass = [p \in Pass |-> Idle]

----------------------------------------------------------------------------
(* The run and its process.                                                *)

\* Ids are given out in the order of the claims; a runbook has one run between claim
\* and exec (_lock_for).
Claim(r, b, plan) ==
    /\ pc[r] = "new" /\ \A s \in Run : s < r => pc[s] # "new"
    /\ \A s \in Run : book[s] = b => pc[s] \notin {"claimed", "exec"}
    /\ pc' = [pc EXCEPT ![r] = "claimed"]
    /\ book' = [book EXCEPT ![r] = b] /\ dry' = [dry EXCEPT ![r] = plan]
    /\ started' = [started EXCEPT ![r] = clock]
    /\ UNCHANGED <<clock, rowVars, fileVars, intentVars, pass, crashes>>

\* The run takes the lock without waiting for it.
LockIsIgnored == TRUE

\* One run at a time is between the two listings (_transcript_lock).
LockIsFree == \A s \in Run : pc[s] # "exec"

\* Grants or egress cannot be set up; the run is an error without files.
PrepareFails(r) ==
    /\ pc[r] = "claimed" /\ LockIsFree
    /\ pc' = [pc EXCEPT ![r] = "persist"]
    /\ UNCHANGED <<clock, runVars, rowVars, fileVars, intentVars, pass, crashes>>

Exec(r) ==
    /\ pc[r] = "claimed" /\ LockIsFree
    /\ pc' = [pc EXCEPT ![r] = "exec"]
    /\ before' = Disk
    /\ living' = living \cup {r}
    /\ UNCHANGED <<clock, runVars, rowVars, written, removed, outlived, found, intentVars, pass, crashes>>

\* A process makes files of its own, with names that nobody else uses.
Write(r, k) ==
    /\ r \in living /\ <<k, r>> \notin written
    /\ written' = written \cup {<<k, r>>}
    /\ UNCHANGED <<clock, pc, runVars, rowVars, removed, before, living, outlived, found, intentVars,
                   pass, crashes>>

\* The newest of the files of a kind that were not there before the exec; which one
\* that is depends on when their writers stopped.
Appeared(k) == {f[2] : f \in {f \in Disk \ before : f[1] = k}}
Resolved(k) == IF Appeared(k) = {} THEN {None} ELSE Appeared(k)

\* The call returns when the process ends, or fails (with a timeout, or without the
\* daemon) and may leave it behind.
Leave(r) ==
    /\ pc[r] = "exec"
    /\ \E t \in Resolved("transcript"), f \in Resolved("feedback") :
        found' = [found EXCEPT ![r] = [transcript |-> t, feedback |-> f]]
    /\ \/ /\ pc' = [pc EXCEPT ![r] = "intents"]
          /\ \E i \in IntentFile \cup {None} : intents' = [intents EXCEPT ![r] = i]
          /\ living' = living \ {r}
          /\ UNCHANGED outlived
       \/ /\ pc' = [pc EXCEPT ![r] = "persist"]
          /\ outlived' = outlived \cup {r}
          /\ UNCHANGED <<intents, living>>
    /\ UNCHANGED <<clock, runVars, rowVars, written, removed, before, verdicts, restarts, pass, crashes>>

\* One that its call did not wait for.
ProcessEnds(r) ==
    /\ r \in living /\ pc[r] # "exec"
    /\ living' = living \ {r}
    /\ UNCHANGED <<clock, pc, runVars, rowVars, written, removed, before, outlived, found, intentVars,
                   pass, crashes>>

----------------------------------------------------------------------------
(* After the locks are released.                                           *)

\* The kill switch is off, or there is no file with intents.
NoIntents(r) ==
    /\ pc[r] = "intents"
    /\ verdicts[r] = <<>>
    /\ pc' = [pc EXCEPT ![r] = "persist"]
    /\ UNCHANGED <<clock, runVars, rowVars, fileVars, intentVars, pass, crashes>>

\* The rest goes on after the daemon was found unreachable.
OutcomesGoOn(r, n) ==
    IF intents[r][n + 1] = "foreign" THEN {"denied"}
    ELSE IF dry[r] THEN {"planned"}
    ELSE {"executed", "refused", "unreachable"}

\* What may become of the intent after n others.  Docker may have done what it did
\* not answer to.
Outcomes(r, n) ==
    IF \E i \in 1..n : verdicts[r][i] = "unreachable" THEN {"skipped"}
    ELSE IF intents[r][n + 1] = "foreign" THEN {"denied"}
    ELSE IF dry[r] THEN {"planned"}
    ELSE {"executed", "refused", "unreachable"}

DecideIntent(r) ==
    LET n == Len(verdicts[r])
    IN  /\ pc[r] = "intents" /\ intents[r] \in IntentFile
        /\ \E v \in Outcomes(r, n) :
            /\ verdicts' = [verdicts EXCEPT ![r] = Append(@, v)]
            /\ restarts' = [restarts EXCEPT ![r] =
                                IF v \in {"executed", "refused", "unreachable"} THEN @ + 1 ELSE @]
        /\ pc' = [pc EXCEPT ![r] = IF n + 1 = Len(intents[r]) THEN "persist" ELSE @]
        /\ UNCHANGED <<clock, runVars, rowVars, fileVars, intents, pass, crashes>>

\* Anything else that goes wrong, perhaps after docker was asked, ends the intents.
GatewayFails(r) ==
    /\ pc[r] = "intents" /\ intents[r] \in IntentFile
    /\ pc' = [pc EXCEPT ![r] = "persist"]
    /\ verdicts' = [verdicts EXCEPT ![r] = Append(@, "failed")]
    /\ \/ /\ Outcomes(r, Len(verdicts[r])) \cap {"executed"} # {}
          /\ restarts' = [restarts EXCEPT ![r] = @ + 1]
       \/ UNCHANGED restarts
    /\ UNCHANGED <<clock, runVars, rowVars, fileVars, intents, pass, crashes>>

\* Feedback that cannot be stored is dropped.
StoreFeedback(r) == note' \in {note, [note EXCEPT ![r] = found[r].feedback]}

\* Completion and feedback in one transaction.
Persist(r) ==
    /\ pc[r] = "persist"
    /\ pc' = [pc EXCEPT ![r] = "done"]
    /\ path' = [path EXCEPT ![r] = found[r].transcript]
    /\ StoreFeedback(r)
    /\ UNCHANGED <<clock, runVars, pruned, prunes, fileVars, intentVars, pass, crashes>>

----------------------------------------------------------------------------
(* The rotator.                                                            *)

Kept == {r \in Run : path[r] # None /\ r \notin pruned}
Newer(s, r) == started[s] > started[r] \/ (started[s] = started[r] /\ s > r)
NewerKept(r) == {s \in Kept : book[s] = book[r] /\ Newer(s, r)}
TooOld(r) == started[r] + MaxAge < clock

\* The transcripts of all runbooks are counted together.
CandidatesOfAll ==
    {r \in Kept : Cardinality({s \in Kept : Newer(s, r)}) >= KeepLastN \/ TooOld(r)}

Candidates == {r \in Kept : Cardinality(NewerKept(r)) >= KeepLastN \/ TooOld(r)}

\* One pass at a time (TranscriptRotator._lock), while fixer-runner runs.
PassStarts(p) ==
    /\ \A q \in Pass : pass[q] = Idle
    /\ Candidates # {}
    /\ pass' = [pass EXCEPT ![p] = [todo |-> Candidates, marking |-> None]]
    /\ UNCHANGED <<clock, pc, runVars, rowVars, fileVars, intentVars, crashes>>

\* The rm in the container fails, is done, or is done without an answer.
Remove(p, r) ==
    /\ pass[p].marking = None /\ r \in pass[p].todo
    /\ \/ /\ removed' = removed \cup {<<"transcript", path[r]>>}
          /\ \E known \in BOOLEAN :
              pass' = [pass EXCEPT ![p] = [todo |-> @.todo \ {r}, marking |-> IF known THEN r ELSE None]]
       \/ /\ pass' = [pass EXCEPT ![p].todo = @ \ {r}]
          /\ UNCHANGED removed
    /\ UNCHANGED <<clock, pc, runVars, rowVars, written, before, living, outlived, found, intentVars,
                   crashes>>

\* The row and its audit in one transaction.
Mark(p) ==
    /\ pass[p].marking # None
    /\ path' = [path EXCEPT ![pass[p].marking] = None]
    /\ pruned' = pruned \cup {pass[p].marking}
    /\ prunes' = [prunes EXCEPT ![pass[p].marking] = @ + 1]
    /\ pass' = [pass EXCEPT ![p].marking = None]
    /\ UNCHANGED <<clock, pc, runVars, note, fileVars, intentVars, crashes>>

\* The transaction fails, and the pass with it.
MarkFails(p) ==
    /\ pass[p].marking # None
    /\ pass' = [pass EXCEPT ![p] = Idle]
    /\ UNCHANGED <<clock, pc, runVars, rowVars, fileVars, intentVars, crashes>>

----------------------------------------------------------------------------

Tick ==
    /\ clock < MaxTime
    /\ clock' = clock + 1
    /\ UNCHANGED <<pc, runVars, rowVars, fileVars, intentVars, pass, crashes>>

\* The monitor restarts; processes in the container go on, and runs that were under
\* way stay without an end.
Crash ==
    /\ crashes < MaxCrashes
    /\ crashes' = crashes + 1
    /\ pc' = [r \in Run |-> IF pc[r] \in {"new", "done"} THEN pc[r] ELSE "lost"]
    /\ outlived' = outlived \cup living
    /\ pass' = [p \in Pass |-> Idle]
    /\ UNCHANGED <<clock, runVars, rowVars, written, removed, before, living, found, intentVars>>

Next ==
    \/ \E r \in Run : \/ \E b \in Runbook, plan \in BOOLEAN : Claim(r, b, plan)
                      \/ PrepareFails(r) \/ Exec(r)
                      \/ \E k \in Kind : Write(r, k)
                      \/ Leave(r) \/ ProcessEnds(r)
                      \/ NoIntents(r) \/ DecideIntent(r) \/ GatewayFails(r)
                      \/ Persist(r)
    \/ \E p \in Pass : PassStarts(p) \/ Mark(p) \/ MarkFails(p) \/ \E r \in Run : Remove(p, r)
    \/ Tick \/ Crash

Spec == Init /\ [][Next]_vars

----------------------------------------------------------------------------

\* No file is stored with two runs, and one that another process made only if that
\* process outlived its exec (_resolve_transcript, scan_transcript_dir_for_feedback).
FilesAreAttributed ==
    \A r \in Run :
        /\ path[r] # None => path[r] \in {r} \cup outlived
        /\ note[r] # None => note[r] \in {r} \cup outlived
        /\ \A s \in Run \ {r} : /\ path[r] # None => path[s] # path[r]
                               /\ note[r] # None => note[s] # note[r]

Present == {r \in Run : path[r] # None /\ <<"transcript", path[r]>> \in Disk}

\* A transcript that is gone was too old, or KeepLastN newer ones of the runbook are
\* there, whatever runs were stored meanwhile and wherever passes were cut off
\* (list_prune_candidates, _rotate_locked).
NewestAreKept ==
    \A r \in Run : r \in pruned \/ (path[r] # None /\ r \notin Present) =>
        \/ TooOld(r)
        \/ Cardinality({s \in Present : book[s] = book[r] /\ Newer(s, r)}) >= KeepLastN

\* A pruned run has lost its file, and is audited once.
PrunesAreAudited ==
    \A r \in Run : prunes[r] = IF r \in pruned THEN 1 ELSE 0

\* The gateway ends with a verdict for every intent or with its failure; only granted
\* intents of a run that was not dry went to docker, and none after the daemon was
\* found unreachable (_execute_intents).
IntentsAreDecided ==
    \A r \in Run : verdicts[r] # <<>> =>
        /\ pc[r] \in {"persist", "done"} =>
            Len(verdicts[r]) = Len(intents[r]) \/ verdicts[r][Len(verdicts[r])] = "failed"
        /\ restarts[r] <= Cardinality({i \in DOMAIN intents[r] : intents[r][i] = "granted"})
        /\ dry[r] => restarts[r] = 0
        /\ \A i, j \in DOMAIN verdicts[r] : i < j /\ verdicts[r][i] = "unreachable"
                                          => verdicts[r][j] \in {"skipped", "failed"}
=============================================================================
