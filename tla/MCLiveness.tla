----------------------------- MODULE MCLiveness -----------------------------
(* AutoFix and Scheduler under fairness, each on a small instance.  A        *)
(* behaviour is one of one of them (part).                                   *)
EXTENDS TLC

CONSTANTS None, t1, t2, i1, i2, r1, risky, a1, c1, c2, g1, timeout, k1, k2, o1

VARIABLES
    part,
    now, autofixEnabled, book, runs, approvals, autoFixed,
    lock, transcriptLock, currentRun, fpc, ctx, containerUp, procs,
    restarts, edits, toggles,
    count, quarantined, dbCount, dbReason, rows, firing, groupLock, tick, awaited, op,
    stopping, streak, earned, failures, faults, crashes, cli

fixVars == <<now, autofixEnabled, book, runs, approvals, autoFixed, lock, transcriptLock,
             currentRun, fpc, ctx, containerUp, procs, restarts, edits, toggles>>
tickVars == <<count, quarantined, dbCount, dbReason, rows, firing, groupLock, tick, awaited, op,
              stopping, streak, earned, failures, faults, crashes, cli>>
allVars == <<part, fixVars, tickVars>>

Matched == a1 :> {r1}

\* Two requests at a time for a risky version, and a kill-switch request.
Fix == INSTANCE AutoFix WITH
    Task <- {t1, t2}, RunId <- {i1, i2}, pc <- fpc, crashes <- restarts,
    Runbook <- {r1}, Version <- {risky}, RiskyVersions <- {risky},
    Alert <- {a1}, Matches <- Matched,
    RateLimit <- 9, RateWindow <- 1, Cooldown <- 0, ExecTimeout <- 0, Slack <- 1,
    MaxTime <- 0, MaxCrashes <- 0, MaxEdits <- 0, MaxToggles <- 1

SharedGroup == c1 :> g1 @@ c2 :> g1
Thresholds == c1 :> 2 @@ c2 :> 1

\* Two collectors of one concurrency group with different thresholds.
Ticks == INSTANCE Scheduler WITH
    Collector <- {c1, c2}, Group <- SharedGroup, Threshold <- Thresholds,
    Reason <- {timeout}, Tick <- {k1, k2}, Operator <- {o1},
    MaxFailures <- 1, MaxFaults <- 1, MaxCrashes <- 0, MaxCli <- 0

MCInit ==
    /\ part \in {"fix", "ticks"}
    /\ Ticks!Init /\ Fix!Init
    /\ part # "fix" => autofixEnabled

MCNext ==
    \/ part = "fix" /\ Fix!Next /\ UNCHANGED <<part, tickVars>>
    \/ part = "ticks" /\ Ticks!Next /\ UNCHANGED <<part, fixVars>>

\* The fairness of the components in which something must happen.
MCFairness ==
    /\ \A t \in {t1, t2} : /\ WF_fixVars(part = "fix" /\ Fix!Step(t))
                           /\ SF_fixVars(part = "fix" /\ Fix!Claim(t))
                           /\ SF_fixVars(part = "fix" /\ Fix!TakeTranscriptLock(t))
    /\ \A k \in {k1, k2} : WF_tickVars(part = "ticks" /\ Ticks!TickStep(k))
    /\ WF_tickVars(part = "ticks" /\ Ticks!CancelTicks)

MCSpec == MCInit /\ [][MCNext]_allVars /\ MCFairness

----------------------------------------------------------------------------

\* Every request of the orchestrator ends (orchestrator.py, handle_alert to
\* _persist_outcome): nobody waits for ever for a lock or for the container.
RequestsEnd == part = "fix" => Fix!RequestsEnd

\* An approval does not stay approved without a run (execute_approved).
ApprovalsSettle == part = "fix" => Fix!ApprovalsSettle

\* Every tick ends, and what was requested is run or dropped by stop()
\* (scheduler.py, _tick).
TicksEnd == part = "ticks" => Ticks!TicksEnd
=============================================================================
