--------------------------- MODULE ComposeAction ----------------------------
(***************************************************************************)
(* "Pull and restart" of containers: the endpoint (routers/docker.py), the *)
(* background action with its per-container lock                           *)
(* (docker/compose_action_runner.py) and the table of actions              *)
(* (db/repositories/compose_actions_repository.py).                        *)
(***************************************************************************)
EXTENDS Naturals, Sequences, FiniteSets

CONSTANTS
    Container,
    Action,        \* requests; an accepted one is also its row and its task
    MaxStops,      \* bound on shutdowns and crashes of the server
    MaxDbErrors,   \* bound on failing writes
    None

ASSUME NoneAssumption == None \notin Container \cup {"pulling", "building", "restarting"}

VARIABLES
    action,    \* handler or task of each action, with its locals
    state,     \* compose_actions.state
    audited,   \* actions with a row in audit_log
    lock,      \* _locks: the tasks holding or waiting for each container, in order
    child,     \* actions whose docker CLI process is running
    stops, dbErrors

vars == <<action, state, audited, lock, child, stops, dbErrors>>

\* get_active_for_container
Active == {"pulling", "building", "restarting"}
Terminal == {"success", "failed", "timeout"}

NoAction == [pc |-> "new", container |-> None, first |-> "pulling", outcome |-> None]

Init ==
    /\ action = [a \in Action |-> NoAction]
    /\ state = [a \in Action |-> None]
    /\ audited = {} /\ child = {}
    /\ lock = [k \in Container |-> <<>>]
    /\ stops = 0 /\ dbErrors = 0

Goto(a, pc) == action' = [action EXCEPT ![a].pc = pc]
RowsOf(k) == {a \in Action : action[a].container = k /\ state[a] # None}

----------------------------------------------------------------------------
(* The endpoint. *)

\* Mutant: a container that is restarting is free.
BlockedByFirstPhase(k) == \E a \in RowsOf(k) : state[a] \in {"pulling", "building"}
BlockedByActive(k) == \E a \in RowsOf(k) : state[a] \in Active

\* Unknown containers and wrong phrases change nothing.  409 while an action is
\* in flight.
Check(a, k) ==
    /\ action[a].pc = "new"
    /\ IF BlockedByActive(k)
       THEN Goto(a, "refused")
       ELSE action' = [action EXCEPT ![a].pc = "resolve", ![a].container = k]
    /\ UNCHANGED <<state, audited, lock, child, stops, dbErrors>>

\* The task joins the queue of its container's asyncio.Lock, which is FIFO.
Accept(a, first) ==
    /\ action[a].pc = "resolve"
    /\ state' = [state EXCEPT ![a] = first]
    /\ action' = [action EXCEPT ![a].pc = "queued", ![a].first = first]
    /\ lock' = [lock EXCEPT ![action[a].container] = Append(@, a)]
    /\ UNCHANGED <<audited, child, stops, dbErrors>>

\* The container is no compose service: the handler writes the row itself, in
\* three transactions.
AcceptUnresolved(a) ==
    /\ action[a].pc = "resolve"
    /\ state' = [state EXCEPT ![a] = "pulling"]
    /\ action' = [action EXCEPT ![a].pc = "finish", ![a].outcome = "failed"]
    /\ UNCHANGED <<audited, lock, child, stops, dbErrors>>

----------------------------------------------------------------------------
(* The background task. *)

MayEnter(a) == Head(lock[action[a].container]) = a

\* _run_one: spawn, unless the CLI is missing.
Spawn(a, pc) ==
    \/ /\ action' = [action EXCEPT ![a].pc = pc]
       /\ child' = child \cup {a}
    \/ /\ action' = [action EXCEPT ![a].pc = "finish", ![a].outcome = "failed"]
       /\ UNCHANGED child

RunFirst(a) ==
    /\ action[a].pc = "queued" /\ MayEnter(a)
    /\ Spawn(a, "first")
    /\ UNCHANGED <<state, audited, lock, stops, dbErrors>>

\* The process exits, or it is terminated and reaped after the timeout.  An
\* exit status of 0 of the first process leads to update_phase.
Outcome(a, o) == IF o = "success" /\ action[a].pc = "first" THEN "phase" ELSE "finish"

Exit(a, o) ==
    /\ action[a].pc \in {"first", "up"} /\ a \in child
    /\ child' = child \ {a}
    /\ action' = [action EXCEPT ![a].pc = Outcome(a, o), ![a].outcome = o]
    /\ UNCHANGED <<state, audited, lock, stops, dbErrors>>

UpdatePhase(a) ==
    /\ action[a].pc = "phase"
    /\ state' = [state EXCEPT ![a] = "restarting"]
    /\ Goto(a, "restart")
    /\ UNCHANGED <<audited, lock, child, stops, dbErrors>>

RunUp(a) ==
    /\ action[a].pc = "restart"
    /\ Spawn(a, "up")
    /\ UNCHANGED <<state, audited, lock, stops, dbErrors>>

UpdateTerminalState(a) ==
    /\ action[a].pc = "finish"
    /\ state' = [state EXCEPT ![a] = action[a].outcome]
    /\ Goto(a, "audit")
    /\ UNCHANGED <<audited, lock, child, stops, dbErrors>>

InLock(a) == \E k \in Container : \E i \in DOMAIN lock[k] : lock[k][i] = a
Holds(a, k) == lock[k] # <<>> /\ Head(lock[k]) = a

\* Mutant: the lock is kept after a timeout.
ReleaseUnlessTimeout(a) ==
    lock' = [k \in Container |-> IF Holds(a, k) /\ action[a].outcome # "timeout" THEN Tail(lock[k]) ELSE lock[k]]

\* The end of the "async with"; a handler without a task holds no lock.
Release(a) == lock' = [k \in Container |-> IF Holds(a, k) THEN Tail(lock[k]) ELSE lock[k]]

\* A success goes on to the image or local-build recheck under the lock; its
\* errors are caught.  Otherwise the task or handler ends.
WriteAuditRow(a) ==
    /\ action[a].pc = "audit"
    /\ audited' = audited \cup {a}
    /\ IF state[a] = "success" THEN Goto(a, "recheck") /\ UNCHANGED lock
                               ELSE Goto(a, "done") /\ Release(a)
    /\ UNCHANGED <<state, child, stops, dbErrors>>

Recheck(a) ==
    /\ action[a].pc = "recheck"
    /\ Goto(a, "done") /\ Release(a)
    /\ UNCHANGED <<state, audited, child, stops, dbErrors>>

TaskStep(a) ==
    \/ RunFirst(a) \/ UpdatePhase(a) \/ RunUp(a) \/ UpdateTerminalState(a)
    \/ WriteAuditRow(a) \/ Recheck(a) \/ \E o \in Terminal : Exit(a, o)

----------------------------------------------------------------------------
(* Faults. *)

\* A write raises: the task ends and leaves the lock, the row stays as it is.
WriteFails(a) ==
    /\ dbErrors < MaxDbErrors
    /\ action[a].pc \in {"phase", "finish", "audit"}
    /\ Goto(a, "dead") /\ Release(a)
    /\ dbErrors' = dbErrors + 1
    /\ UNCHANGED <<state, audited, child, stops>>

\* shutdown() or a crash ends handlers and tasks; no process is signalled and
\* no row is closed, then or at the next start.
ServerStops ==
    /\ stops < MaxStops
    /\ action' = [a \in Action |->
          IF action[a].pc \in {"new", "refused", "done"} THEN action[a] ELSE [action[a] EXCEPT !.pc = "dead"]]
    /\ lock' = [k \in Container |-> <<>>]
    /\ stops' = stops + 1
    /\ UNCHANGED <<state, audited, child, dbErrors>>

OrphanExits(a) ==
    /\ a \in child /\ action[a].pc = "dead"
    /\ child' = child \ {a}
    /\ UNCHANGED <<action, state, audited, lock, stops, dbErrors>>

----------------------------------------------------------------------------

Next ==
    \/ \E a \in Action :
          \/ \E k \in Container : Check(a, k)
          \/ \E f \in {"pulling", "building"} : Accept(a, f)
          \/ AcceptUnresolved(a) \/ TaskStep(a) \/ WriteFails(a) \/ OrphanExits(a)
    \/ ServerStops

\* Handlers and tasks of the event loop go on, and a docker process ends: it is
\* terminated after HOMELAB_MONITOR_COMPOSE_ACTION_TIMEOUT_SECONDS, then killed.  That a
\* killed one closes its output is assumed: the last communicate() has no deadline.
Fairness == \A a \in Action : WF_vars(TaskStep(a))

Spec == Init /\ [][Next]_vars /\ Fairness

TypeOK ==
    /\ \A a \in Action : /\ action[a].container \in Container \cup {None}
                         /\ action[a].outcome \in Terminal \cup {None}
    /\ state \in [Action -> Active \cup Terminal \cup {None}]
    /\ audited \subseteq Action /\ child \subseteq Action
    /\ \A k \in Container : lock[k] \in Seq(Action)

\* At most one docker compose process per container, although the endpoint's
\* check and insert are separate, and although a shutdown leaves processes
\* behind: the row of such a process keeps refusing the next action.
OneProcessPerContainer ==
    \A a, b \in child : a # b => action[a].container # action[b].container

\* An accepted action gets its final state and its audit row, and then frees
\* its container, unless a write failed or the server was stopped under it.
AcceptedActionsEnd ==
    \A a \in Action : state[a] # None ~>
        action[a].pc = "dead" \/ (state[a] \in Terminal /\ a \in audited /\ ~InLock(a))
=============================================================================
