------------------------------- MODULE MCCron -------------------------------
(* CronRuns and CronInventory for TLC, each in several small instances.  A   *)
(* behaviour is one of one instance (part).                                  *)
(*                                                                           *)
(* The names of CronRuns are those of the instance "pruned", with the bounds *)
(* of Cron.cfg: a wrapper's run whose pings are late or repeated, short      *)
(* horizons, a restart.  The others have more requests, lines or time.       *)
EXTENDS CronRuns

CONSTANTS
    t1, t2,            \* requests
    l1, l2, r1, r2,    \* log lines; runs, of the wrapper or of a line
    c1, s1, s2         \* a crontab line, the scans

VARIABLES
    part,
    crontab, spool, snap, snapshotted, files, requests, results, exec, rows, call, scan, edits, faults,
    exCrashes

inventoryVars == <<crontab, spool, snap, snapshotted, files, requests, results, exec, rows, call, scan,
                   edits, faults, exCrashes>>
allVars == <<part, vars, inventoryVars>>

\* Two requests at the same time, of the wrapper and for a log line.
Mixed == INSTANCE CronRuns WITH Task <- {t1, t2}, WrapperRun <- {r1}, Line <- {l1}, LogRun <- {r2},
    Timeout <- 1, Grace <- 0, Retention <- 2, FailRetention <- 4, MaxRows <- 1, MaxFailRows <- 1,
    MaxPerTick <- 1, MaxTime <- 0, LastJob <- 0, MaxRepeats <- 0, MaxCrashes <- 0

\* Two log lines, late and repeated, and the reconciler's clock; l1 is the line that is
\* written first.
Tailed == INSTANCE CronRuns WITH Task <- {t1}, WrapperRun <- {}, Line <- {l1, l2}, LogRun <- {r1, r2},
    Timeout <- 1, Grace <- 0, Retention <- 2, FailRetention <- 4, MaxRows <- 2, MaxFailRows <- 1,
    MaxPerTick <- 1, MaxTime <- 3, LastJob <- 1, MaxRepeats <- 1, MaxCrashes <- 0

\* Two installs or uninstalls at once, and an executor that is interrupted.  No scan is
\* under way with a call here: the host knows nothing of scans, and "scans" overlaps them.
Installs == INSTANCE CronInventoryProofs WITH Cron <- {c1}, Call <- {t1, t2}, Scan <- {s1},
    MaxEdits <- 0, MaxFaults <- 0, MaxCrashes <- 1

\* The scheduled scan, discover_now, an install and an edit.
Scans == INSTANCE CronInventoryProofs WITH Cron <- {c1}, Call <- {t1}, Scan <- {s1, s2},
    MaxEdits <- 1, MaxFaults <- 0, MaxCrashes <- 0

\* A scan whose upsert fails.
Faulty == INSTANCE CronInventoryProofs WITH Cron <- {c1}, Call <- {t1}, Scan <- {s1},
    MaxEdits <- 1, MaxFaults <- 1, MaxCrashes <- 0

MCInit ==
    \/ /\ Installs!Init /\ crontab[c1] = "plain"
       /\ \/ part = "mixed" /\ Mixed!Init
          \/ part = "tailed" /\ Tailed!Init
          \/ part = "pruned" /\ Init
    \/ /\ Mixed!Init
       /\ \/ part = "installs" /\ Installs!Init
          \/ part = "scans" /\ Scans!Init
          \/ part = "faulty" /\ Faulty!Init

MCNext ==
    \/ part = "mixed" /\ Mixed!Next /\ UNCHANGED <<part, inventoryVars>>
    \/ part = "tailed" /\ Tailed!Next /\ UNCHANGED <<part, inventoryVars>>
       /\ (lines'[l1] = None => lines'[l2] = None)
    \/ part = "pruned" /\ Next /\ UNCHANGED <<part, inventoryVars>>
       /\ repeats' + crashes' <= 1  \* a repeated delivery or a restart
    \/ part = "installs" /\ Installs!Next /\ UNCHANGED <<part, vars>>
       /\ (scan'[s1].pc # "idle" => \A t \in {t1, t2} : call'[t].pc = "idle")
    \/ part = "scans" /\ Scans!Next /\ UNCHANGED <<part, vars>>
    \/ part = "faulty" /\ Faulty!Next /\ UNCHANGED <<part, vars>>

\* The fairness of the instances in which something must happen.
MCFairness ==
    /\ WF_vars(part = "tailed" /\ Tailed!Tick)
    /\ WF_vars(part = "tailed" /\ Tailed!Serve(t1))
    /\ WF_vars(part = "tailed" /\ Tailed!TickStarts)
    /\ WF_vars(part = "tailed" /\ Tailed!TickCut)
    /\ \A i \in {r1, r2} : SF_vars(part = "tailed" /\ Tailed!FinalizeRun(i))
    /\ WF_inventoryVars(part = "scans" /\ Scans!SnapshotTimer)
    /\ WF_inventoryVars(part = "scans" /\ Scans!Execute)
    /\ WF_inventoryVars(part = "scans" /\ Scans!CallStep(t1))
    /\ \A s \in {s1, s2} : /\ WF_inventoryVars(part = "scans" /\ Scans!ScanStep(s))
                          /\ SF_inventoryVars(part = "scans" /\ Scans!ReadFile(s, TRUE))
                          /\ SF_inventoryVars(part = "scans" /\ Scans!ListPaths(s, TRUE) /\ scan[s].readable)

MCSpec == MCInit /\ [][MCNext]_allVars /\ MCFairness

----------------------------------------------------------------------------

\* Types of the moving component.
TypesOK ==
    /\ part = "mixed" => Mixed!TypeOK
    /\ part = "tailed" => Tailed!TypeOK
    /\ part = "pruned" => TypeOK
    /\ part = "installs" => Installs!TypeOK
    /\ part = "scans" => Scans!TypeOK
    /\ part = "faulty" => Faulty!TypeOK

\* A log-tailed run does not stay open for ever (_window_finalize).  r1 stands for each:
\* the identities of runs are interchangeable.
TailedRunsClose ==
    part = "tailed" /\ runs[r1].state = "running" ~> part = "tailed" /\ runs[r1].state # "running"

\* Concurrent, repeated and interrupted installs wrap a line once, and the files
\* the wrapper needs are there (hm-cron-apply.sh).
WrappedLinesCanRun == Installs!WrappedLinesCanRun

\* Once edits stop, the inventory follows the crontab, or what the snapshot of an emptied
\* one still shows (hm-crontab-snapshot.sh).
InventoryConverges == part = "scans" => Scans!InventoryConverges
=============================================================================
