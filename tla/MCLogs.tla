------------------------------- MODULE MCLogs -------------------------------
(* LogDrain, AlertLifecycle, LogRules and Heartbeats for TLC, in small       *)
(* instances.  A behaviour is one of one instance (part).  The drain         *)
(* has the names it has in LogDrain, and the bounds of Logs.cfg: full        *)
(* batches, a failing query or sync, a crash.                                *)
EXTENDS LogDrain

CONSTANTS
    h1, h2, r1,
    RuleName, RuleExpr, RuleOperator, MaxRules, RuleFaults,    \* the part "rules"
    Every, Leeway, MissedRuns, BeatTime, LastBeat, BeatEdits   \* the part "hourly"

VARIABLES
    part,
    instant, condition, request, alerts, outcomes, last, tick, due, flips, outages,
    table, nextId, job, files, up, faults, settled,
    now, boot, cronJob, pings, lines, line, row, hb, series, pending, firing, onTime, edits

alertVars == <<instant, condition, request, alerts, outcomes, last, tick, due, flips, outages>>
ruleVars == <<table, nextId, job, files, up, faults, settled>>
beatVars == <<now, boot, cronJob, pings, lines, line, row, hb, series, pending, firing, onTime, edits>>
allVars == <<part, vars, alertVars, ruleVars, beatVars>>

\* Full batches that cut through the lines of one millisecond or one instant.
Burst == INSTANCE LogDrain WITH
    Res <- 2, Grace <- 1, Cap <- 3, MaxBurst <- 2, MaxTime <- 4, MaxFaults <- 0

\* Two webhook requests at the same time.
Webhook == INSTANCE AlertLifecycleProofs WITH Request <- {h1, h2},
    MaxAlerts <- 3, MaxInstants <- 1, MaxFlips <- 3, MaxOutages <- 0

\* A notification that is served late, after a repetition of it.
Late == INSTANCE AlertLifecycle WITH Request <- {h1, h2},
    MaxAlerts <- 1, MaxInstants <- 2, MaxFlips <- 2, MaxOutages <- 0

\* Reconciliations, some of them failing, beside the webhook.
Reconciled == INSTANCE AlertLifecycleProofs WITH Request <- {h1},
    MaxAlerts <- 2, MaxInstants <- 3, MaxFlips <- 3, MaxOutages <- 1

Rules == INSTANCE LogRules WITH Name <- RuleName, Expr <- RuleExpr, Operator <- RuleOperator,
    MaxIds <- MaxRules, MaxFaults <- RuleFaults

ASSUME RuleBounds == Rules!RulesAssumption

\* Two requests on the rules of one name, or one on two rules.
FewRules ==
    \/ \A o \in RuleOperator \ {h1} : job[o] = Rules!Idle
    \/ \A n \in RuleName \ {r1} : table[n] = None

ASSUME ScheduleAssumption == Every \in Nat /\ Leeway \in Nat

\* A job with a schedule, and one operator's change.
Hourly == INSTANCE Heartbeats WITH Cadence <- Every, Grace <- Leeway, StaleRuns <- MissedRuns,
    MaxTime <- BeatTime, LastJob <- LastBeat, MaxEdits <- BeatEdits, job <- cronJob

\* An @reboot job, and one reboot or change.
AtBoot == INSTANCE Heartbeats WITH Cadence <- 0, Grace <- 0, StaleRuns <- 1, MaxTime <- 2, LastJob <- 2,
    MaxEdits <- 1, job <- cronJob

Pipelines ==
    \/ /\ Webhook!Init /\ Rules!Init /\ files = Rules!NoFiles
       /\ \/ part = "drain" /\ Init
          \/ part = "burst" /\ Burst!Init
    \/ /\ Init /\ Rules!Init /\ files = Rules!NoFiles
       /\ \/ part = "webhook" /\ Webhook!Init
          \/ part = "late" /\ Late!Init
          \/ part = "reconciled" /\ Reconciled!Init
          \/ part \in {"hourly", "boot"} /\ Webhook!Init
    \/ /\ Init /\ Webhook!Init
       /\ part = "rules" /\ Rules!Init

MCInit == Pipelines /\ Hourly!Init

MCNext ==
    \/ part = "drain" /\ Next /\ UNCHANGED <<part, alertVars, ruleVars, beatVars>>
    \/ part = "burst" /\ Burst!Next /\ UNCHANGED <<part, alertVars, ruleVars, beatVars>>
    \/ part = "webhook" /\ Webhook!Next /\ UNCHANGED <<part, vars, ruleVars, beatVars>>
    \/ part = "late" /\ Late!Next /\ UNCHANGED <<part, vars, ruleVars, beatVars>>
    \/ part = "reconciled" /\ Reconciled!Next /\ UNCHANGED <<part, vars, ruleVars, beatVars>>
    \/ part = "rules" /\ Rules!Next /\ FewRules' /\ UNCHANGED <<part, vars, alertVars, beatVars>>
    \/ part = "hourly" /\ Hourly!Next /\ UNCHANGED <<part, vars, alertVars, ruleVars>>
    \/ part = "boot" /\ AtBoot!Next /\ UNCHANGED <<part, vars, alertVars, ruleVars>>

\* The fairness of each instance, while it is the one that moves.
MCFairness ==
    /\ WF_vars(part = "drain" /\ Tick)
    /\ WF_vars(part = "drain" /\ Begin)
    /\ WF_vars(part = "drain" /\ DrainStep)
    /\ WF_vars(part = "burst" /\ Burst!Tick)
    /\ WF_vars(part = "burst" /\ Burst!Begin)
    /\ WF_vars(part = "burst" /\ Burst!DrainStep)
    /\ \A h \in {h1, h2} : /\ WF_alertVars(part = "webhook" /\ Webhook!Notify(h))
                          /\ WF_alertVars(part = "webhook" /\ Webhook!Serve(h))
    /\ WF_beatVars(part = "hourly" /\ Hourly!Collect)
    /\ WF_beatVars(part = "hourly" /\ Hourly!Evaluate)
    /\ WF_beatVars(part = "boot" /\ AtBoot!Collect)
    /\ WF_beatVars(part = "boot" /\ AtBoot!Evaluate)

MCSpec == MCInit /\ [][MCNext]_allVars /\ MCFairness

----------------------------------------------------------------------------

\* Types of the components.
TypesOK ==
    /\ TypeOK
    /\ part = "webhook" => Webhook!TypeOK
    /\ part = "late" => Late!TypeOK
    /\ part = "reconciled" => Reconciled!TypeOK
    /\ part = "rules" => Rules!TypeOK
    /\ part = "hourly" => Hourly!TypeOK
    /\ part = "boot" => AtBoot!TypeOK

\* Concurrent webhooks never leave two firing rows of a fingerprint
\* (ux_alerts_fingerprint_firing).
OneFiringRow == part = "webhook" => Webhook!OneFiringRow

\* A successful reconciliation leaves no row that had been resolved when it began
\* without its outcome, but for rows that requests under way resolve late
\* (karma_outcome_reconciler.py).
NoResolutionDropped == part = "reconciled" => Reconciled!NoResolutionDropped

\* Between requests the rule directories hold exactly the enabled rules, unless
\* the last rendering failed or was overtaken (user_rules_render.py).
RulesAreRendered == part = "rules" => Rules!RulesAreRendered

\* A job whose runs start on schedule and report never raises the overdue alert.
OnTimeIsQuiet == part = "hourly" => Hourly!OnTimeIsQuiet

\* A listed job that falls silent raises its alert; one that is hidden or gone has
\* none (heartbeat_collector.py, heartbeats.yaml).
SilenceIsNoticed ==
    /\ part = "hourly" => Hourly!SilenceIsNoticed
    /\ part = "boot" => AtBoot!SilenceIsNoticed

\* A condition that holds for good has a firing row in the end.
FiringIsRecorded ==
    <>[](part = "webhook" /\ condition) => <>[](part = "webhook" /\ Webhook!Recorded)
=============================================================================
