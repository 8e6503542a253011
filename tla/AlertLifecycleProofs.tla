------------------------ MODULE AlertLifecycleProofs ------------------------
(***************************************************************************)
(* Proofs about AlertLifecycle, for any number of requests served at once, *)
(* rows, changes of the condition and failures of the reconciler.          *)
(*                                                                         *)
(* What is resolved stays resolved, at the time it was (Settled), so the   *)
(* rows that a tick must decide are among those it lists later; the time   *)
(* of the last reconciliation moves only after all of them are decided     *)
(* (Decided).                                                              *)
(***************************************************************************)
EXTENDS AlertLifecycle, FiniteSetTheorems, TLAPS

Row == [status : {"none", "firing", "resolved"}, resolvedAt : Nat]

RequestRow == [pc : {"idle", "find", "touch", "insert", "refind", "resolve"}, kind : {"firing", "resolved"},
                 ts : Nat, row : AlertId \cup {0}]

TickRow == [pc : {"idle", "silences", "resolutions", "write", "advance"}, now : Nat,
            todo : SUBSET AlertId, resolved : SUBSET AlertId]

Types ==
    /\ instant \in Nat /\ last \in Nat
    /\ alerts \in [AlertId -> Row]
    /\ outcomes \in [AlertId -> SUBSET Outcome]
    /\ due \subseteq AlertId
    /\ request \in [Request -> RequestRow]
    /\ tick \in TickRow
    /\ \A h \in Request : request[h].pc = "resolve" => request[h].row \in AlertId

Alone == \A r, q \in Firing : r = q

\* The rows that were resolved when the tick began.
Settled == tick.resolved \subseteq Resolved

\* What the tick has to decide is on its list or decided.
Decided ==
    /\ tick.pc \in {"write", "advance"} =>
         \A r \in tick.resolved : alerts[r].resolvedAt > last => r \in tick.todo \/ "auto_resolved" \in outcomes[r]
    /\ tick.pc = "advance" => tick.todo = {}
    /\ NoResolutionDropped

LifeInv == Types /\ Alone /\ Settled /\ Decided

LEMMA NoTickType == NoTick \in TickRow /\ NoTick.pc = "idle" /\ NoTick.resolved = {} /\ NoTick.todo = {}
  BY DEF NoTick, TickRow

LEMMA IdleType == Idle \in RequestRow /\ Idle.pc = "idle"
  BY DEF Idle, RequestRow

\* A request moves to locals x.
LEMMA RequestMoves ==
  ASSUME Types, NEW h \in Request, NEW x \in RequestRow, request' = [request EXCEPT ![h] = x],
         x.pc = "resolve" => x.row \in AlertId
  PROVE  /\ request' \in [Request -> RequestRow]
         /\ \A g \in Request : request'[g].pc = "resolve" => request'[g].row \in AlertId
  BY DEF Types

\* Steps that change neither rows nor outcomes nor the tick.
LEMMA RequestsOnly ==
  ASSUME LifeInv, UNCHANGED <<alerts, outcomes, last, tick, due>>, instant' \in Nat,
         request' \in [Request -> RequestRow],
         \A g \in Request : request'[g].pc = "resolve" => request'[g].row \in AlertId
  PROVE  LifeInv'
<1>1. Types'
  BY DEF LifeInv, Types
<1>2. Alone' /\ Settled' /\ Decided'
  BY DEF LifeInv, Alone, Settled, Decided, NoResolutionDropped, Firing, Resolved
<1> QED
  BY <1>1, <1>2 DEF LifeInv

LEMMA OutsideKeeps ==
  ASSUME LifeInv, ClockMoves \/ Flip
  PROVE  LifeInv'
<1>1. instant' \in Nat
  BY DEF ClockMoves, Flip, LifeInv, Types
<1> QED
  BY <1>1, RequestsOnly DEF ClockMoves, Flip, LifeInv, Types

LEMMA QuietRequestsKeep ==
  ASSUME LifeInv, NEW h \in Request, Notify(h) \/ FindActive(h) \/ Touch(h) \/ Refind(h)
  PROVE  LifeInv'
<1>1. request[h] \in RequestRow /\ instant' = instant /\ instant \in Nat
  BY DEF Notify, FindActive, Touch, Refind, LifeInv, Types
<1>2. \E x \in RequestRow : request' = [request EXCEPT ![h] = x] /\ (x.pc = "resolve" => x.row \in AlertId)
  <2>1. CASE Notify(h)
    <3> DEFINE k == IF condition THEN "firing" ELSE "resolved"
               x == [pc |-> "find", ts |-> instant, row |-> 0, kind |-> k]
    <3>1. k \in {"firing", "resolved"}
      OBVIOUS
    <3>2. request' = [request EXCEPT ![h] = x]
      BY <2>1 DEF Notify
    <3> HIDE DEF k
    <3>3. x \in RequestRow /\ x.pc = "find"
      BY <1>1, <3>1 DEF RequestRow
    <3> QED
      BY <3>2, <3>3
  <2>2. CASE FindActive(h) /\ \E r \in Active :
               request' = [request EXCEPT ![h].row = r,
                              ![h].pc = IF request[h].kind = "firing" THEN "touch" ELSE "resolve"]
    <3>1. PICK r \in Active :
               request' = [request EXCEPT ![h].row = r,
                              ![h].pc = IF request[h].kind = "firing" THEN "touch" ELSE "resolve"]
      BY <2>2
    <3> DEFINE p == IF request[h].kind = "firing" THEN "touch" ELSE "resolve"
               x == [request[h] EXCEPT !.row = r, !.pc = p]
    <3>2. p \in {"touch", "resolve"} /\ r \in AlertId
      BY DEF Active, Firing, AlertId
    <3>3. request' = [request EXCEPT ![h] = x]
      BY <3>1 DEF LifeInv, Types
    <3> HIDE DEF p
    <3>4. x \in RequestRow /\ x.row = r
      BY <1>1, <3>2 DEF RequestRow
    <3> QED
      BY <3>2, <3>3, <3>4
  <2>3. CASE End(h)
    BY <2>3, IdleType DEF End
  <2>4. ASSUME NEW p \in {"insert", "touch"}, Goto(h, p)
        PROVE  \E x \in RequestRow : request' = [request EXCEPT ![h] = x] /\ (x.pc = "resolve" => x.row \in AlertId)
    <3> DEFINE x == [request[h] EXCEPT !.pc = p]
    <3>1. request' = [request EXCEPT ![h] = x]
      BY <2>4 DEF Goto
    <3>2. x \in RequestRow /\ x.pc = p
      BY <1>1 DEF RequestRow
    <3> QED
      BY <3>1, <3>2
  <2> QED
    BY <2>1, <2>2, <2>3, <2>4 DEF FindActive, Touch, Refind
<1>3. request' \in [Request -> RequestRow]
      /\ \A g \in Request : request'[g].pc = "resolve" => request'[g].row \in AlertId
  BY <1>2, RequestMoves DEF LifeInv
<1>4. UNCHANGED <<alerts, outcomes, last, tick, due>>
  BY DEF Notify, FindActive, Touch, Refind
<1> QED
  BY <1>1, <1>3, <1>4, RequestsOnly

\* A row is inserted only when none fires.
LEMMA InsertFiringKeeps ==
  ASSUME LifeInv, NEW h \in Request, InsertFiring(h)
  PROVE  LifeInv'
<1>1. request[h] \in RequestRow /\ UNCHANGED <<instant, outcomes, last, tick, due>>
  BY DEF InsertFiring, LifeInv, Types
<1>2. CASE MayInsert
  <2>1. End(h) /\ Firing = {}
    BY <1>2 DEF InsertFiring, MayInsert
  <2>2. PICK r \in AlertId : ~Exists(r) /\ alerts' = [alerts EXCEPT ![r].status = "firing"]
    BY <1>2 DEF InsertFiring
  <2> DEFINE y == [alerts[r] EXCEPT !.status = "firing"]
  <2>3. y \in Row /\ y.status = "firing" /\ alerts' = [alerts EXCEPT ![r] = y] /\ alerts[r].status = "none"
    BY <2>2 DEF LifeInv, Types, Row, Exists
  <2> HIDE DEF y
  <2>4. alerts' \in [AlertId -> Row] /\ alerts'[r] = y /\ \A q \in AlertId \ {r} : alerts'[q] = alerts[q]
    BY <2>3 DEF LifeInv, Types, Row
  <2>5. request' \in [Request -> RequestRow]
        /\ \A g \in Request : request'[g].pc = "resolve" => request'[g].row \in AlertId
    BY <2>1, IdleType, RequestMoves DEF End, LifeInv
  <2>6. Types'
    BY <1>1, <2>4, <2>5 DEF LifeInv, Types, Row
  <2>7. Alone'
    BY <2>1, <2>4 DEF Alone, Firing
  <2>8. r \notin tick.resolved
    BY <2>3 DEF LifeInv, Settled, Resolved
  <2>9. Settled' /\ Decided'
    BY <1>1, <2>4, <2>8 DEF LifeInv, Types, TickRow, Settled, Resolved, Decided, NoResolutionDropped
  <2> QED
    BY <2>6, <2>7, <2>9 DEF LifeInv
<1>3. CASE ~MayInsert
  <2> DEFINE x == [request[h] EXCEPT !.pc = "refind"]
  <2>1. alerts' = alerts /\ request' = [request EXCEPT ![h] = x]
    BY <1>3 DEF InsertFiring, Goto
  <2>2. x \in RequestRow /\ x.pc = "refind"
    BY <1>1 DEF RequestRow
  <2> HIDE DEF x
  <2>3. request' \in [Request -> RequestRow]
        /\ \A g \in Request : request'[g].pc = "resolve" => request'[g].row \in AlertId
    BY <2>1, <2>2, RequestMoves DEF LifeInv
  <2> QED
    BY <1>1, <2>1, <2>3, RequestsOnly DEF LifeInv, Types
<1> QED
  BY <1>2, <1>3

\* Only a firing row is resolved: a row that was resolved keeps its time.
LEMMA MarkResolvedKeeps ==
  ASSUME LifeInv, NEW h \in Request, MarkResolved(h)
  PROVE  LifeInv'
<1> DEFINE r == request[h].row
           y == [status |-> "resolved", resolvedAt |-> request[h].ts]
<1>1. /\ request[h] \in RequestRow /\ r \in AlertId /\ UNCHANGED <<instant, outcomes, last, tick, due>>
      /\ End(h)
  BY DEF MarkResolved, LifeInv, Types
<1>2. request' \in [Request -> RequestRow]
      /\ \A g \in Request : request'[g].pc = "resolve" => request'[g].row \in AlertId
  BY <1>1, IdleType, RequestMoves DEF End, LifeInv
<1>3. CASE MayResolve(r)
  <2>1. y \in Row /\ y.status = "resolved" /\ alerts[r].status = "firing" /\ alerts' = [alerts EXCEPT ![r] = y]
    BY <1>1, <1>3 DEF MarkResolved, MayResolve, RequestRow, Row
  <2> HIDE DEF y, r
  <2>2. alerts' \in [AlertId -> Row] /\ alerts'[r] = y /\ \A q \in AlertId \ {r} : alerts'[q] = alerts[q]
    BY <1>1, <2>1 DEF LifeInv, Types, Row
  <2>3. Types'
    BY <1>1, <1>2, <2>2 DEF LifeInv, Types, Row
  <2>4. Alone'
    BY <2>1, <2>2 DEF LifeInv, Alone, Firing
  <2>5. r \notin tick.resolved
    BY <2>1 DEF LifeInv, Settled, Resolved
  <2>6. Settled' /\ Decided'
    BY <1>1, <2>2, <2>5 DEF LifeInv, Types, TickRow, Settled, Resolved, Decided, NoResolutionDropped
  <2> QED
    BY <2>3, <2>4, <2>6 DEF LifeInv
<1>4. CASE ~MayResolve(r)
  <2>1. alerts' = alerts
    BY <1>4 DEF MarkResolved
  <2> QED
    BY <1>1, <1>2, <2>1, RequestsOnly DEF LifeInv, Types
<1> QED
  BY <1>3, <1>4

----------------------------------------------------------------------------
(* Outcomes and the reconciler. *)

\* Outcomes are only added to.
LEMMA OutcomesGrow ==
  ASSUME LifeInv, NEW r \in AlertId, NEW o \in Outcome, outcomes' = [outcomes EXCEPT ![r] = @ \cup {o}]
  PROVE  /\ outcomes' \in [AlertId -> SUBSET Outcome]
         /\ o \in outcomes'[r]
         /\ \A q \in AlertId : outcomes[q] \subseteq outcomes'[q]
  BY DEF LifeInv, Types

\* A step of the tick, or an outcome, with rows and requests left alone.
LEMMA TickKeeps ==
  ASSUME LifeInv, UNCHANGED <<instant, request, alerts, due, last>>, tick' \in TickRow,
         outcomes' \in [AlertId -> SUBSET Outcome], \A q \in AlertId : outcomes[q] \subseteq outcomes'[q],
         tick'.resolved \subseteq Resolved,
         tick'.pc \in {"write", "advance"} =>
           \A r \in tick'.resolved : alerts[r].resolvedAt > last => r \in tick'.todo \/ "auto_resolved" \in outcomes'[r],
         tick'.pc = "advance" => tick'.todo = {}
  PROVE  LifeInv'
<1>1. Types'
  BY DEF LifeInv, Types, TickRow
<1>2. Alone' /\ Settled'
  BY DEF LifeInv, Alone, Firing, Settled, Resolved
<1>3. NoResolutionDropped'
  BY DEF LifeInv, Types, Decided, NoResolutionDropped
<1> QED
  BY <1>1, <1>2, <1>3 DEF LifeInv, Decided

LEMMA DecideKeeps ==
  ASSUME LifeInv, NEW r \in AlertId, Decide(r)
  PROVE  LifeInv'
<1>1. /\ outcomes' \in [AlertId -> SUBSET Outcome]
      /\ \A q \in AlertId : outcomes[q] \subseteq outcomes'[q]
  BY OutcomesGrow DEF Decide, Outcome
<1>2. UNCHANGED <<instant, request, alerts, due, last, tick>> /\ tick \in TickRow
  BY DEF Decide, LifeInv, Types
<1>3. \A q \in tick.resolved : q \in AlertId
  BY <1>2 DEF TickRow
<1> QED
  BY <1>1, <1>2, <1>3, TickKeeps DEF LifeInv, Settled, Decided

LEMMA TickEnds ==
  ASSUME LifeInv, UNCHANGED <<instant, alerts, outcomes, due, last>>, tick' = NoTick,
         request' \in [Request -> RequestRow],
         \A g \in Request : request'[g].pc = "resolve" => request'[g].row \in AlertId
  PROVE  LifeInv'
<1>1. Types'
  BY NoTickType DEF LifeInv, Types
<1>2. Alone' /\ Settled' /\ Decided'
  BY NoTickType DEF LifeInv, Alone, Firing, Settled, Resolved, Decided, NoResolutionDropped
<1> QED
  BY <1>1, <1>2 DEF LifeInv

LEMMA TickStartsKeeps ==
  ASSUME LifeInv, TickStarts
  PROVE  LifeInv'
<1>1. instant \in Nat /\ Resolved \subseteq AlertId
  BY DEF LifeInv, Types, Resolved
<1>2. tick' = [NoTick EXCEPT !.pc = "silences", !.now = instant, !.resolved = Resolved]
  BY DEF TickStarts
<1>3. tick' \in TickRow /\ tick'.pc = "silences" /\ tick'.resolved = Resolved
  BY <1>1, <1>2, NoTickType DEF TickRow
<1> QED
  BY <1>3, TickKeeps DEF TickStarts, LifeInv, Types

LEMMA ProcessSilencesKeeps ==
  ASSUME LifeInv, ProcessSilences
  PROVE  LifeInv'
<1>1. tick \in TickRow /\ tick' = [tick EXCEPT !.pc = "resolutions"]
  BY DEF ProcessSilences, LifeInv, Types
<1>2. tick' \in TickRow /\ tick'.pc = "resolutions" /\ tick'.resolved = tick.resolved
  BY <1>1 DEF TickRow
<1>3. outcomes' \in [AlertId -> SUBSET Outcome] /\ \A q \in AlertId : outcomes[q] \subseteq outcomes'[q]
  <2>1. CASE outcomes' = outcomes
    BY <2>1 DEF LifeInv, Types
  <2>2. ASSUME NEW r \in AlertId, outcomes' = [outcomes EXCEPT ![r] = @ \cup {"decided"}]
        PROVE  outcomes' \in [AlertId -> SUBSET Outcome] /\ \A q \in AlertId : outcomes[q] \subseteq outcomes'[q]
    BY <2>2, OutcomesGrow DEF Outcome
  <2> QED
    BY <2>1, <2>2 DEF ProcessSilences
<1> QED
  BY <1>2, <1>3, TickKeeps DEF ProcessSilences, LifeInv, Settled

\* Nothing that was resolved when the tick began is missing from its list.
LEMMA ListResolvedKeeps ==
  ASSUME LifeInv, ListResolved
  PROVE  LifeInv'
<1> DEFINE s == {r \in Resolved : alerts[r].resolvedAt > last}
<1>1. tick \in TickRow /\ tick' = [tick EXCEPT !.pc = "write", !.todo = s] /\ s \subseteq AlertId
  BY DEF ListResolved, LifeInv, Types, Resolved
<1>2. tick' \in TickRow /\ tick'.pc = "write" /\ tick'.resolved = tick.resolved /\ tick'.todo = s
  BY <1>1 DEF TickRow
<1>3. \A r \in tick.resolved : alerts[r].resolvedAt > last => r \in s
  BY DEF LifeInv, Settled
<1> QED
  BY <1>2, <1>3, TickKeeps DEF ListResolved, LifeInv, Types, Settled

LEMMA WriteOutcomeKeeps ==
  ASSUME LifeInv, NEW r \in AlertId, WriteOutcome(r)
  PROVE  LifeInv'
<1>1. tick \in TickRow /\ tick.pc = "write" /\ tick' = [tick EXCEPT !.todo = @ \ {r}]
  BY DEF WriteOutcome, LifeInv, Types
<1>2. /\ tick' \in TickRow /\ tick'.pc = "write" /\ tick'.resolved = tick.resolved
      /\ tick'.todo = tick.todo \ {r} /\ tick.resolved \subseteq AlertId
  BY <1>1 DEF TickRow
<1>3. /\ outcomes' \in [AlertId -> SUBSET Outcome] /\ "auto_resolved" \in outcomes'[r]
      /\ \A q \in AlertId : outcomes[q] \subseteq outcomes'[q]
  BY OutcomesGrow DEF WriteOutcome, AutoOutcome, Outcome
<1>4. \A q \in tick'.resolved : alerts[q].resolvedAt > last => q \in tick'.todo \/ "auto_resolved" \in outcomes'[q]
  BY <1>1, <1>2, <1>3 DEF LifeInv, Decided
<1> QED
  BY <1>2, <1>3, <1>4, TickKeeps DEF WriteOutcome, LifeInv, Settled

LEMMA WritesDoneKeeps ==
  ASSUME LifeInv, WritesDone
  PROVE  LifeInv'
<1>1. tick \in TickRow /\ tick.pc = "write" /\ tick.todo = {} /\ tick' = [tick EXCEPT !.pc = "advance"]
  BY DEF WritesDone, LifeInv, Types
<1>2. tick' \in TickRow /\ tick'.pc = "advance" /\ tick'.resolved = tick.resolved /\ tick'.todo = {}
  BY <1>1 DEF TickRow
<1> QED
  BY <1>1, <1>2, TickKeeps DEF WritesDone, LifeInv, Types, Settled, Decided

\* The time moves, and every row that the tick had to decide is decided.
LEMMA AdvanceLastKeeps ==
  ASSUME LifeInv, AdvanceLast
  PROVE  LifeInv'
<1>1. /\ tick \in TickRow /\ tick.pc = "advance" /\ tick' = NoTick /\ last' = tick.now
      /\ due' = due \cup {r \in tick.resolved : alerts[r].resolvedAt > last}
      /\ UNCHANGED <<instant, request, alerts, outcomes>>
  BY DEF AdvanceLast, LifeInv, Types
<1>2. last' \in Nat /\ due' \subseteq AlertId
  BY <1>1 DEF LifeInv, Types, TickRow
<1>3. Types'
  BY <1>1, <1>2, NoTickType DEF LifeInv, Types
<1>4. NoResolutionDropped'
  BY <1>1 DEF LifeInv, Decided, NoResolutionDropped
<1>5. Alone' /\ Settled' /\ Decided'
  BY <1>1, <1>4, NoTickType DEF LifeInv, Alone, Firing, Settled, Resolved, Decided
<1> QED
  BY <1>3, <1>5 DEF LifeInv

LEMMA TickStopsKeeps ==
  ASSUME LifeInv, ListSilencesFails \/ \E b \in BOOLEAN : Cut(b)
  PROVE  LifeInv'
<1>1. tick' = NoTick /\ UNCHANGED <<instant, alerts, outcomes, due, last>>
  BY DEF ListSilencesFails, Unreachable, Cut
<1>2. request' \in [Request -> RequestRow]
      /\ \A g \in Request : request'[g].pc = "resolve" => request'[g].row \in AlertId
  <2>1. request' = request \/ request' = [h \in Request |-> Idle]
    BY DEF ListSilencesFails, Cut
  <2> QED
    BY <2>1, IdleType DEF LifeInv, Types
<1> QED
  BY <1>1, <1>2, TickEnds

LEMMA LifeInit == Init => LifeInv
<1> SUFFICES ASSUME Init PROVE LifeInv
  OBVIOUS
<1>1. Types
  BY NoTickType, IdleType DEF Init, Types, Row, NoAlert
<1>2. Firing = {} /\ due = {}
  BY DEF Init, Firing, NoAlert
<1> QED
  BY <1>1, <1>2, NoTickType DEF Init, LifeInv, Alone, Settled, Decided, NoResolutionDropped

LEMMA LifeNext == LifeInv /\ [Next]_vars => LifeInv'
<1> SUFFICES ASSUME LifeInv, [Next]_vars PROVE LifeInv'
  OBVIOUS
<1>1. CASE UNCHANGED vars
  <2>1. UNCHANGED <<instant, request, alerts, outcomes, last, tick, due>>
    BY <1>1 DEF vars
  <2> QED
    BY <2>1, RequestsOnly DEF LifeInv, Types
<1> QED
  BY <1>1, OutsideKeeps, QuietRequestsKeep, InsertFiringKeeps, MarkResolvedKeeps, DecideKeeps, TickStartsKeeps,
     ProcessSilencesKeeps, ListResolvedKeeps, WriteOutcomeKeeps, WritesDoneKeeps, AdvanceLastKeeps, TickStopsKeeps
     DEF Next, Serve

\* Rows that are all the same one are one at most.
LEMMA AloneIsOne == LifeInv => OneFiringRow
<1>1. CASE Firing = {}
  BY <1>1, FS_EmptySet DEF OneFiringRow
<1>2. ASSUME LifeInv, Firing # {} PROVE OneFiringRow
  <2>1. PICK r \in Firing : Firing = {r}
    BY <1>2 DEF LifeInv, Alone
  <2>2. Cardinality(Firing) = 1
    BY <2>1, FS_Singleton, Zenon
  <2> QED
    BY <2>2 DEF OneFiringRow
<1> QED
  BY <1>1, <1>2

LEMMA DecidedIsKept == LifeInv => NoResolutionDropped
  BY DEF LifeInv, Decided

\* However many webhook requests are served at the same time, a fingerprint has at
\* most one firing row (ux_alerts_fingerprint_firing, insert_firing).
THEOREM FiringRowsAreAlone == Spec => []OneFiringRow
  BY AloneIsOne, LifeInit, LifeNext, PTL DEF Spec

\* A reconciliation that moves its time leaves no row without its outcome that was
\* resolved when it began, whatever failed or was cut off before
\* (KarmaOutcomeReconciler.run).
THEOREM ResolutionsAreDecided == Spec => []NoResolutionDropped
  BY DecidedIsKept, LifeInit, LifeNext, PTL DEF Spec
=============================================================================
