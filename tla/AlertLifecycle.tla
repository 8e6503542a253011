--------------------------- MODULE AlertLifecycle ---------------------------
(***************************************************************************)
(* The alerts of one fingerprint: the webhook of Alertmanager              *)
(* (api/routers/alerts.py), the tables alerts and alert_outcomes           *)
(* (alerts/repository.py) and the hourly reconciliation with Karma's       *)
(* silences and with resolutions (analyzer/karma_outcome_reconciler.py).   *)
(*                                                                         *)
(* Alertmanager repeats notifications, and a request it gave up on may     *)
(* still be served beside its repetition.  What the handlers dispatch to   *)
(* channels and to the auto-fix orchestrator is left out.                  *)
(***************************************************************************)
EXTENDS Naturals, FiniteSets

CONSTANTS
    Request,       \* webhook requests served at the same time
    MaxAlerts,     \* bound on rows of the fingerprint
    MaxInstants,   \* bound on the clock
    MaxFlips,      \* bound on changes of the alerting condition
    MaxOutages     \* bound on failures: Alertmanager unreachable, ticks cut off

VARIABLES
    instant,       \* the clock
    condition,     \* Alertmanager: the alert fires
    request,       \* webhook requests and their locals
    alerts,        \* the rows: not there, firing or resolved, and resolved_at
    outcomes,      \* alert_outcomes: outcomes of each row
    last,          \* app_settings: analyzer.last_reconciliation_at
    tick,          \* the reconciler's tick and its locals
    due,           \* rows resolved before a tick that moved last past them
    flips, outages

vars == <<instant, condition, request, alerts, outcomes, last, tick, due, flips, outages>>

AlertId == 1..MaxAlerts
\* decided: acked or dismissed.
Outcome == {"decided", "auto_resolved"}

Idle == [pc |-> "idle", kind |-> "firing", ts |-> 0, row |-> 0]
NoTick == [pc |-> "idle", now |-> 0, todo |-> {}, resolved |-> {}]
NoAlert == [status |-> "none", resolvedAt |-> 0]

Init ==
    /\ instant = 1 /\ condition = FALSE
    /\ request = [h \in Request |-> Idle]
    /\ alerts = [r \in AlertId |-> NoAlert]
    /\ outcomes = [r \in AlertId |-> {}]
    /\ last = 0 /\ tick = NoTick /\ due = {}
    /\ flips = 0 /\ outages = 0

Exists(r) == alerts[r].status # "none"
Firing == {r \in AlertId : alerts[r].status = "firing"}
Resolved == {r \in AlertId : alerts[r].status = "resolved"}

----------------------------------------------------------------------------
(* Outside: the clock and the alerting condition. *)

ClockMoves ==
    /\ instant < MaxInstants /\ instant' = instant + 1
    /\ UNCHANGED <<condition, request, alerts, outcomes, last, tick, due, flips, outages>>

Flip ==
    /\ flips < MaxFlips /\ flips' = flips + 1
    /\ condition' = ~condition
    /\ UNCHANGED <<instant, request, alerts, outcomes, last, tick, due, outages>>

----------------------------------------------------------------------------
(* ingest_alerts, one item of a payload *)

Goto(h, pc) == request' = [request EXCEPT ![h].pc = pc]
End(h) == request' = [request EXCEPT ![h] = Idle]

\* A notification of the present condition; ts is taken now.
Notify(h) ==
    /\ request[h].pc = "idle"
    /\ request' = [request EXCEPT ![h] = [pc |-> "find", ts |-> instant, row |-> 0,
                      kind |-> IF condition THEN "firing" ELSE "resolved"]]
    /\ UNCHANGED <<instant, condition, alerts, outcomes, last, tick, due, flips, outages>>

\* Mutant: the newest row, whatever its status.
ActiveAny == {r \in AlertId : Exists(r) /\ \A q \in AlertId : Exists(q) => q <= r}
Active == Firing

\* find_active_by_fingerprint; nothing to resolve ends the item.
FindActive(h) ==
    /\ request[h].pc = "find"
    /\ \/ \E r \in Active :
             request' = [request EXCEPT ![h].row = r,
                            ![h].pc = IF request[h].kind = "firing" THEN "touch" ELSE "resolve"]
       \/ Active = {} /\ request[h].kind = "firing" /\ Goto(h, "insert")
       \/ Active = {} /\ request[h].kind = "resolved" /\ End(h)
    /\ UNCHANGED <<instant, condition, alerts, outcomes, last, tick, due, flips, outages>>

\* update_last_seen changes a time nothing decides on.
Touch(h) ==
    /\ request[h].pc = "touch"
    /\ End(h)
    /\ UNCHANGED <<instant, condition, alerts, outcomes, last, tick, due, flips, outages>>

\* Mutant: no unique index.
MayInsertAlways == TRUE
\* ux_alerts_fingerprint_firing
MayInsert == Firing = {}

\* insert_firing: a row that another request inserted meanwhile is updated
\* instead; when that one is resolved already, the request fails.
InsertFiring(h) ==
    /\ request[h].pc = "insert"
    /\ IF MayInsert
       THEN /\ \E r \in AlertId : /\ ~Exists(r) /\ \A q \in AlertId : q < r => Exists(q)
                                  /\ alerts' = [alerts EXCEPT ![r].status = "firing"]
            /\ End(h)
       ELSE Goto(h, "refind") /\ UNCHANGED alerts
    /\ UNCHANGED <<instant, condition, outcomes, last, tick, due, flips, outages>>

Refind(h) ==
    /\ request[h].pc = "refind"
    /\ IF Firing = {} THEN End(h) ELSE Goto(h, "touch")
    /\ UNCHANGED <<instant, condition, alerts, outcomes, last, tick, due, flips, outages>>

\* UPDATE ... WHERE id = :id AND status = 'firing'
MayResolve(r) == alerts[r].status = "firing"

MarkResolved(h) ==
    LET r == request[h].row IN
    /\ request[h].pc = "resolve"
    /\ alerts' = IF MayResolve(r) THEN [alerts EXCEPT ![r] = [status |-> "resolved", resolvedAt |-> request[h].ts]]
                                  ELSE alerts
    /\ End(h)
    /\ UNCHANGED <<instant, condition, outcomes, last, tick, due, flips, outages>>

\* ack_alert, dismiss_alert
Decide(r) ==
    /\ Exists(r) /\ "decided" \notin outcomes[r]
    /\ outcomes' = [outcomes EXCEPT ![r] = @ \cup {"decided"}]
    /\ UNCHANGED <<instant, condition, request, alerts, last, tick, due, flips, outages>>

----------------------------------------------------------------------------
(* KarmaOutcomeReconciler.run *)

TickStarts ==
    /\ tick.pc = "idle"
    /\ tick' = [NoTick EXCEPT !.pc = "silences", !.now = instant, !.resolved = Resolved]
    /\ UNCHANGED <<instant, condition, request, alerts, outcomes, last, due, flips, outages>>

\* Mutant: the phase of resolutions is skipped, the rest of the tick is not.
UnreachableGoesOn == [tick EXCEPT !.pc = "advance"]

\* The tick ends without moving last.
Unreachable == NoTick

ListSilencesFails ==
    /\ tick.pc = "silences" /\ outages < MaxOutages
    /\ outages' = outages + 1
    /\ tick' = Unreachable
    /\ UNCHANGED <<instant, condition, request, alerts, outcomes, last, due, flips>>

\* A silence made in Karma is an ack of the row of its fingerprint, if there is
\* just one.
ProcessSilences ==
    /\ tick.pc = "silences"
    /\ LET rows == {r \in AlertId : Exists(r)} IN
       \/ UNCHANGED outcomes
       \/ \E r \in rows : rows = {r} /\ outcomes' = [outcomes EXCEPT ![r] = @ \cup {"decided"}]
    /\ tick' = [tick EXCEPT !.pc = "resolutions"]
    /\ UNCHANGED <<instant, condition, request, alerts, last, due, flips, outages>>

ListResolved ==
    /\ tick.pc = "resolutions"
    /\ tick' = [tick EXCEPT !.pc = "write", !.todo = {r \in Resolved : alerts[r].resolvedAt > last}]
    /\ UNCHANGED <<instant, condition, request, alerts, outcomes, last, due, flips, outages>>

AutoOutcome == "auto_resolved"

\* insert_outcome_if_absent, a transaction per row.
WriteOutcome(r) ==
    /\ tick.pc = "write" /\ r \in tick.todo
    /\ outcomes' = [outcomes EXCEPT ![r] = @ \cup {AutoOutcome}]
    /\ tick' = [tick EXCEPT !.todo = @ \ {r}]
    /\ UNCHANGED <<instant, condition, request, alerts, last, due, flips, outages>>

WritesDone ==
    /\ tick.pc = "write" /\ tick.todo = {}
    /\ tick' = [tick EXCEPT !.pc = "advance"]
    /\ UNCHANGED <<instant, condition, request, alerts, outcomes, last, due, flips, outages>>

\* last_reconciliation_at becomes the time the tick began.
AdvanceLast ==
    /\ tick.pc = "advance"
    /\ last' = tick.now
    /\ due' = due \cup {r \in tick.resolved : alerts[r].resolvedAt > last}
    /\ tick' = NoTick
    /\ UNCHANGED <<instant, condition, request, alerts, outcomes, flips, outages>>

\* The scheduler's timeout, or a restart, which also ends the requests.
Cut(restart) ==
    /\ outages < MaxOutages /\ outages' = outages + 1
    /\ tick' = NoTick
    /\ request' = IF restart THEN [h \in Request |-> Idle] ELSE request
    /\ UNCHANGED <<instant, condition, alerts, outcomes, last, due, flips>>

----------------------------------------------------------------------------

Serve(h) == FindActive(h) \/ Touch(h) \/ InsertFiring(h) \/ Refind(h) \/ MarkResolved(h)

Next ==
    \/ ClockMoves \/ Flip
    \/ \E h \in Request : Notify(h) \/ Serve(h)
    \/ TickStarts \/ ListSilencesFails \/ ProcessSilences \/ ListResolved \/ WritesDone \/ AdvanceLast
    \/ \E r \in AlertId : WriteOutcome(r) \/ Decide(r)
    \/ \E b \in BOOLEAN : Cut(b)

\* Alertmanager repeats what it has to say, and requests are served.
Fairness == \A h \in Request : WF_vars(Notify(h)) /\ WF_vars(Serve(h))

Spec == Init /\ [][Next]_vars /\ Fairness

TypeOK ==
    /\ instant \in 1..MaxInstants /\ last \in 0..MaxInstants
    /\ alerts \in [AlertId -> [status : {"none", "firing", "resolved"}, resolvedAt : 0..MaxInstants]]
    /\ outcomes \in [AlertId -> SUBSET Outcome]
    /\ tick.todo \subseteq AlertId /\ due \subseteq AlertId

\* Requests that are served at the same time never leave two firing rows.
OneFiringRow == Cardinality(Firing) <= 1

\* Every row that was resolved when a successful reconciliation began has its
\* outcome, whatever failed in the ticks before.  Not so the row of a request
\* that took its time before the previous tick and wrote it after.
NoResolutionDropped == \A r \in due : "auto_resolved" \in outcomes[r]

Recorded == Firing # {} \/ \A r \in AlertId : Exists(r)

\* While the condition holds for good there is, in the end, a firing row, also
\* when late resolve requests race with the repeated notification.
FiringIsRecorded == <>[]condition => <>[]Recorded
=============================================================================
