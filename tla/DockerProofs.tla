------------------------ MODULE DockerProofs --------------------------------
(***************************************************************************)
(* Proofs about the parts of MCDocker.                                     *)
(*                                                                         *)
(* ComposeAction, for any containers, requests, shutdowns and failing      *)
(* writes: a process has two guards, one after the other.  While its task  *)
(* lives, the task is the head of its container's lock (LockOK).  Once the *)
(* server was stopped under it, its row stays active (RowsOK), so that no  *)
(* request for the container gets past the check, and those that had       *)
(* passed it were stopped as well (OrphansAlone).                          *)
(*                                                                         *)
(* ContainerHealth, for any number of changes of a container: an incident  *)
(* begins at an instant at which a spell of bad health began (Anchored).   *)
(*                                                                         *)
(* HaWebsocket, for any callers, connections and commands: the table and   *)
(* the callers that have no result yet are two views of one relation       *)
(* (Waiters, Entries).  Ids start again with a connection, so what keeps   *)
(* an old id from leading an answer astray is that the table is empty      *)
(* whenever no connection is in use (Fresh), and that no send of an old    *)
(* connection is under way on a new socket (Senders).                      *)
(***************************************************************************)
EXTENDS MCDocker, TLAPS

\* Steps of a task between the two ends of its "async with".
Running == {"first", "phase", "restart", "up"}

PCs == Running \cup {"new", "refused", "resolve", "queued", "finish", "audit", "recheck", "done", "dead"}

ActionRow == [pc : PCs, container : Container \cup {None}, first : {"pulling", "building"},
              outcome : Terminal \cup {None}]

Types ==
    /\ action \in [Action -> ActionRow]
    /\ state \in [Action -> Active \cup Terminal \cup {None}]
    /\ lock \in [Container -> Seq(Action)]
    /\ audited \subseteq Action /\ child \subseteq Action
    /\ \A a \in Action : action[a].container = None <=> action[a].pc \in {"new", "refused"}
    /\ \A a \in Action : action[a].pc = "finish" => action[a].outcome \in Terminal

\* Waiting or running in the lock of the container.
Waits(a) == \E i \in DOMAIN lock[action[a].container] : lock[action[a].container][i] = a

LockOK ==
    \A a \in Action : /\ action[a].pc \in Running => Holds(a, action[a].container)
                      /\ action[a].pc = "queued" => Waits(a)

\* The row of a process is active, and its task waits for it or is dead.
RowsOK ==
    /\ \A a \in child : action[a].pc \in {"first", "up", "dead"} /\ state[a] \in Active
    /\ \A a \in Action : action[a].pc \in Running \cup {"queued"} => state[a] \in Active

OrphansAlone ==
    \A a \in child, b \in Action :
        action[a].pc = "dead" /\ action[b].container = action[a].container => action[b].pc \in {"dead", "done"}

ComposeInv == Types /\ LockOK /\ RowsOK /\ OrphansAlone /\ OneProcessPerContainer

LEMMA NoActionType == NoAction \in ActionRow /\ NoAction.pc = "new" /\ NoAction.container = None
  BY DEF NoAction, ActionRow, PCs

\* The move of a single action to locals y.
LEMMA ActionMoves ==
  ASSUME Types, NEW a \in Action, NEW y \in ActionRow, action' = [action EXCEPT ![a] = y],
         y.container = None <=> y.pc \in {"new", "refused"},
         y.pc = "finish" => y.outcome \in Terminal,
         state' \in [Action -> Active \cup Terminal \cup {None}],
         lock' \in [Container -> Seq(Action)], audited' \subseteq Action, child' \subseteq Action
  PROVE  Types' /\ action'[a] = y /\ \A b \in Action \ {a} : action'[b] = action[b]
  BY DEF Types

\* No process is started, and the action that moves lets go of nothing it needs.
LEMMA QuietMove ==
  ASSUME ComposeInv, NEW a \in Action, Types', a \notin child,
         action[a].container # None => action'[a].container = action[a].container,
         action[a].pc # "dead" /\ action[a].pc # "done",
         action[a].container = None => \A b \in child : action[b].container # action'[a].container,
         \A b \in Action \ {a} : action'[b] = action[b] /\ state'[b] = state[b],
         action'[a].pc \in Running \cup {"queued"} => state'[a] \in Active,
         child' = child, LockOK'
  PROVE  ComposeInv'
<1>1. RowsOK'
  BY ZenonT(30) DEF ComposeInv, RowsOK, Types
<1>2. OneProcessPerContainer'
  <2>1. child' = child /\ \A b \in child : action'[b] = action[b]
    BY DEF ComposeInv, Types
  <2> QED
    BY <2>1 DEF ComposeInv, OneProcessPerContainer
<1>3. OrphansAlone'
  <2>1. ASSUME NEW b \in child, NEW c \in Action, action[b].pc = "dead", action'[c].container = action[b].container
        PROVE  action'[c].pc \in {"dead", "done"}
    <3>1. action[b].container \in Container
      BY <2>1, NoneAssumption, ZenonT(30) DEF ComposeInv, Types, ActionRow
    <3>2. CASE c = a
      BY <2>1, <3>1, <3>2, NoneAssumption DEF ComposeInv, OrphansAlone
    <3>3. CASE c # a
      BY <2>1, <3>3 DEF ComposeInv, OrphansAlone
    <3> QED
      BY <3>2, <3>3
  <2>2. \A b \in child : b # a /\ b \in Action
    BY DEF ComposeInv, Types
  <2> QED
    BY <2>1, <2>2 DEF OrphansAlone
<1> QED
  BY <1>1, <1>2, <1>3 DEF ComposeInv

\* Locks stay, and the action that moves is not one that needs its lock, or has it.
LEMMA LocksStay ==
  ASSUME ComposeInv, NEW a \in Action, lock' = lock,
         action'[a].pc \in Running => Holds(a, action'[a].container),
         action'[a].pc # "queued",
         \A b \in Action \ {a} : action'[b] = action[b]
  PROVE  LockOK'
  BY DEF ComposeInv, LockOK, Waits, Holds

\* The end of a task frees the lock of its container and no other's.
LEMMA LockReleased ==
  ASSUME ComposeInv, NEW a \in Action, Release(a),
         action'[a].pc \in {"done", "dead"},
         \A b \in Action \ {a} : action'[b] = action[b]
  PROVE  lock' \in [Container -> Seq(Action)] /\ LockOK'
<1>1. \A k \in Container : lock[k] \in Seq(Action)
  BY DEF ComposeInv, Types
<1>2. \A k \in Container : lock'[k] = (IF Holds(a, k) THEN Tail(lock[k]) ELSE lock[k])
  BY DEF Release
<1>3. ASSUME NEW k \in Container PROVE lock'[k] \in Seq(Action)
  <2>1. lock[k] # <<>> => Tail(lock[k]) \in Seq(Action)
    BY <1>1
  <2> QED
    BY <1>1, <1>2, <2>1 DEF Holds
<1>4. lock' \in [Container -> Seq(Action)]
  BY <1>3 DEF Release
<1>5. ASSUME NEW b \in Action \ {a}, action[b].pc \in Running \cup {"queued"}
      PROVE  action[b].container \in Container /\ action'[b] = action[b]
  BY <1>5 DEF ComposeInv, Types, ActionRow, Running
<1>6. ASSUME NEW b \in Action \ {a}, action[b].pc \in Running
      PROVE  Holds(b, action[b].container)'
  <2>1. action[b].container \in Container /\ action'[b] = action[b]
    BY <1>5, <1>6
  <2>2. Holds(b, action[b].container)
    BY <1>6 DEF ComposeInv, LockOK
  <2>3. lock'[action[b].container] = lock[action[b].container]
    BY <1>2, <2>1, <2>2 DEF Holds
  <2> QED
    BY <2>1, <2>2, <2>3 DEF Holds
<1>7. ASSUME NEW b \in Action \ {a}, action[b].pc = "queued"
      PROVE  Waits(b)'
  <2> DEFINE k == action[b].container
             s == lock[k]
  <2>1. k \in Container /\ action'[b] = action[b] /\ s \in Seq(Action)
    BY <1>1, <1>5, <1>7
  <2>2. PICK i \in DOMAIN s : s[i] = b
    BY <1>7 DEF ComposeInv, LockOK, Waits
  <2>3. CASE ~Holds(a, k)
    BY <1>2, <2>1, <2>2, <2>3 DEF Waits
  <2>4. CASE Holds(a, k)
    <3>1. s # <<>> /\ Head(s) = a /\ lock'[k] = Tail(s)
      BY <1>2, <2>1, <2>4 DEF Holds
    <3> HIDE DEF s
    <3>2. i # 1 /\ i \in 1..Len(s)
      BY <2>1, <2>2, <3>1
    <3>3. i - 1 \in DOMAIN Tail(s) /\ Tail(s)[i - 1] = b
      BY <2>1, <2>2, <3>1, <3>2
    <3> QED
      BY <2>1, <3>1, <3>3 DEF Waits
  <2> QED
    BY <2>3, <2>4
<1>8. action'[a].pc \notin Running \cup {"queued"}
  BY DEF Running
<1>9. LockOK'
  BY <1>5, <1>6, <1>7, <1>8 DEF LockOK
<1> QED
  BY <1>4, <1>9

----------------------------------------------------------------------------
(* The endpoint. *)

LEMMA CheckKeeps ==
  ASSUME ComposeInv, NEW a \in Action, NEW k \in Container, Check(a, k)
  PROVE  ComposeInv'
<1>1. /\ action[a] \in ActionRow /\ action[a].pc = "new" /\ action[a].container = None
      /\ UNCHANGED <<state, audited, lock, child>> /\ a \notin child
  BY DEF Check, ComposeInv, Types, RowsOK
<1>2. CASE BlockedByActive(k)
  <2> DEFINE y == [action[a] EXCEPT !.pc = "refused"]
  <2>1. action' = [action EXCEPT ![a] = y]
    BY <1>2 DEF Check, Goto
  <2>2. y \in ActionRow /\ y.pc = "refused" /\ y.container = None
    BY <1>1 DEF ActionRow, PCs
  <2> HIDE DEF y
  <2>3. Types' /\ action'[a] = y /\ \A b \in Action \ {a} : action'[b] = action[b]
    BY <1>1, <2>1, <2>2, ActionMoves DEF ComposeInv, Types
  <2>4. LockOK'
    BY <1>1, <2>2, <2>3, LocksStay DEF Running
  <2>5. \A b \in child : action[b].container # None
    BY DEF ComposeInv, Types, RowsOK
  <2> QED
    BY <1>1, <2>2, <2>3, <2>4, <2>5, QuietMove DEF Running
<1>3. CASE ~BlockedByActive(k)
  <2> DEFINE y == [action[a] EXCEPT !.pc = "resolve", !.container = k]
  <2>1. action' = [action EXCEPT ![a] = y]
    BY <1>1, <1>3 DEF Check, ComposeInv, Types
  <2>2. y \in ActionRow /\ y.pc = "resolve" /\ y.container = k
    BY <1>1 DEF ActionRow, PCs
  <2> HIDE DEF y
  <2>3. Types' /\ action'[a] = y /\ \A b \in Action \ {a} : action'[b] = action[b]
    BY <1>1, <2>1, <2>2, NoneAssumption, ActionMoves DEF ComposeInv, Types
  <2>4. LockOK'
    BY <1>1, <2>2, <2>3, LocksStay DEF Running
  <2>5. \A b \in child : action[b].container # k
    <3>1. \A b \in child : b \in Action /\ state[b] \in Active /\ state[b] # None
      BY NoneAssumption DEF ComposeInv, Types, RowsOK, Active
    <3> QED
      BY <1>3, <3>1 DEF BlockedByActive, RowsOf
  <2> QED
    BY <1>1, <2>2, <2>3, <2>4, <2>5, QuietMove DEF Running
<1> QED
  BY <1>2, <1>3

LEMMA AcceptKeeps ==
  ASSUME ComposeInv, NEW a \in Action, NEW f \in {"pulling", "building"}, Accept(a, f)
  PROVE  ComposeInv'
<1> DEFINE k == action[a].container
           y == [action[a] EXCEPT !.pc = "queued", !.first = f]
<1>1. /\ action[a] \in ActionRow /\ action[a].pc = "resolve" /\ k \in Container
      /\ UNCHANGED <<audited, child>> /\ a \notin child
  BY DEF Accept, ComposeInv, Types, RowsOK, ActionRow
<1>2. action' = [action EXCEPT ![a] = y] /\ state' = [state EXCEPT ![a] = f]
  BY <1>1 DEF Accept, ComposeInv, Types
<1>3. y \in ActionRow /\ y.pc = "queued" /\ y.container = k
  BY <1>1 DEF ActionRow, PCs
<1>4. lock' = [lock EXCEPT ![k] = Append(lock[k], a)] /\ lock \in [Container -> Seq(Action)]
  BY DEF Accept, ComposeInv, Types
<1> HIDE DEF y, k
<1>5. lock[k] \in Seq(Action) /\ Append(lock[k], a) \in Seq(Action)
  BY <1>1, <1>4
<1>6. lock' \in [Container -> Seq(Action)] /\ lock'[k] = Append(lock[k], a)
      /\ \A j \in Container \ {k} : lock'[j] = lock[j]
  BY <1>1, <1>4, <1>5
<1>7. state' \in [Action -> Active \cup Terminal \cup {None}] /\ \A b \in Action \ {a} : state'[b] = state[b]
  BY <1>2 DEF ComposeInv, Types, Active
<1>8. Types' /\ action'[a] = y /\ \A b \in Action \ {a} : action'[b] = action[b]
  BY <1>1, <1>2, <1>3, <1>6, <1>7, NoneAssumption, ActionMoves DEF ComposeInv, Types
<1>9. LockOK'
  <2>1. Waits(a)'
    <3>1. Len(lock[k]) + 1 \in DOMAIN lock'[k] /\ lock'[k][Len(lock[k]) + 1] = a
      BY <1>5, <1>6
    <3> QED
      BY <1>3, <1>8, <3>1 DEF Waits
  <2>2. ASSUME NEW b \in Action \ {a}, action[b].pc \in Running
        PROVE  Holds(b, action[b].container)'
    <3>1. action[b].container \in Container /\ action'[b] = action[b] /\ Holds(b, action[b].container)
      BY <1>8, <2>2 DEF ComposeInv, Types, ActionRow, Running, LockOK
    <3>2. CASE action[b].container = k
      <4>1. lock[k] # <<>> /\ Head(lock[k]) = b
        BY <3>1, <3>2 DEF Holds
      <4>2. lock'[k] # <<>> /\ Head(lock'[k]) = b
        BY <1>5, <1>6, <4>1
      <4> QED
        BY <3>1, <3>2, <4>2 DEF Holds
    <3>3. CASE action[b].container # k
      BY <1>6, <3>1, <3>3 DEF Holds
    <3> QED
      BY <3>2, <3>3
  <2>3. ASSUME NEW b \in Action \ {a}, action[b].pc = "queued"
        PROVE  Waits(b)'
    <3>1. action[b].container \in Container /\ action'[b] = action[b] /\ Waits(b)
      BY <1>8, <2>3 DEF ComposeInv, Types, ActionRow, LockOK
    <3>2. PICK i \in DOMAIN lock[action[b].container] : lock[action[b].container][i] = b
      BY <3>1 DEF Waits
    <3>3. CASE action[b].container = k
      <4>1. i \in DOMAIN lock'[k] /\ lock'[k][i] = b
        BY <1>5, <1>6, <3>2, <3>3
      <4> QED
        BY <3>1, <3>3, <4>1 DEF Waits
    <3>4. CASE action[b].container # k
      BY <1>6, <3>1, <3>2, <3>4 DEF Waits
    <3> QED
      BY <3>3, <3>4
  <2> QED
    BY <1>3, <1>8, <2>1, <2>2, <2>3 DEF LockOK, Running
<1> QED
  <2>1. state'[a] \in Active
    BY <1>2 DEF ComposeInv, Types, Active
  <2> QED
    BY <1>1, <1>3, <1>7, <1>8, <1>9, <2>1, NoneAssumption, QuietMove DEF k

LEMMA AcceptUnresolvedKeeps ==
  ASSUME ComposeInv, NEW a \in Action, AcceptUnresolved(a)
  PROVE  ComposeInv'
<1> DEFINE y == [action[a] EXCEPT !.pc = "finish", !.outcome = "failed"]
<1>1. /\ action[a] \in ActionRow /\ action[a].pc = "resolve" /\ action[a].container # None
      /\ UNCHANGED <<audited, child, lock>> /\ a \notin child
  BY DEF AcceptUnresolved, ComposeInv, Types, RowsOK
<1>2. action' = [action EXCEPT ![a] = y] /\ state' = [state EXCEPT ![a] = "pulling"]
  BY <1>1 DEF AcceptUnresolved, ComposeInv, Types
<1>3. y \in ActionRow /\ y.pc = "finish" /\ y.container = action[a].container /\ y.outcome \in Terminal
  BY <1>1 DEF ActionRow, PCs, Terminal
<1> HIDE DEF y
<1>4. state' \in [Action -> Active \cup Terminal \cup {None}] /\ \A b \in Action \ {a} : state'[b] = state[b]
  BY <1>2 DEF ComposeInv, Types, Active
<1>5. Types' /\ action'[a] = y /\ \A b \in Action \ {a} : action'[b] = action[b]
  BY <1>1, <1>2, <1>3, <1>4, ActionMoves DEF ComposeInv, Types
<1>6. LockOK'
  BY <1>1, <1>3, <1>5, LocksStay DEF Running
<1> QED
  BY <1>1, <1>3, <1>4, <1>5, <1>6, QuietMove DEF Running

----------------------------------------------------------------------------
(* The task. *)

\* The head of a lock is the only one to start a process: another process of the
\* container would be that of another head, or an orphan that lets nobody in.
LEMMA SpawnKeeps ==
  ASSUME ComposeInv, NEW a \in Action, NEW p \in {"first", "up"}, Spawn(a, p),
         action[a].pc \in {"queued", "restart"}, Holds(a, action[a].container),
         UNCHANGED <<state, audited, lock>>
  PROVE  ComposeInv'
<1>1. /\ action[a] \in ActionRow /\ action[a].container \in Container /\ action[a].container # None
      /\ a \notin child
  BY NoneAssumption DEF ComposeInv, Types, RowsOK, ActionRow
<1>2. CASE action' = [action EXCEPT ![a].pc = p] /\ child' = child \cup {a}
  <2> DEFINE y == [action[a] EXCEPT !.pc = p]
  <2>1. action' = [action EXCEPT ![a] = y]
    BY <1>2
  <2>2. y \in ActionRow /\ y.pc = p /\ y.container = action[a].container
    BY <1>1 DEF ActionRow, PCs, Running
  <2> HIDE DEF y
  <2>0. /\ y.container # None /\ y.pc \notin {"new", "refused", "finish"}
        /\ child' \subseteq Action /\ audited' \subseteq Action
        /\ lock' \in [Container -> Seq(Action)] /\ state' \in [Action -> Active \cup Terminal \cup {None}]
    BY <1>1, <1>2, <2>2 DEF ComposeInv, Types
  <2>3. Types' /\ action'[a] = y /\ \A b \in Action \ {a} : action'[b] = action[b]
    BY <2>0, <2>1, <2>2, ActionMoves DEF ComposeInv
  <2>4. Holds(a, action'[a].container)
    BY <2>2, <2>3
  <2>5. LockOK'
    BY <2>2, <2>3, <2>4, LocksStay
  <2>6. RowsOK'
    <3>1. state[a] \in Active
      BY DEF ComposeInv, RowsOK, Running
    <3> QED
      BY <1>2, <2>2, <2>3, <3>1 DEF ComposeInv, Types, RowsOK
  <2>7. ASSUME NEW b \in child PROVE action[b].container # action[a].container
    <3>1. b \in Action /\ b # a /\ action[b].pc \in {"first", "up", "dead"}
      BY <1>1, <2>7 DEF ComposeInv, Types, RowsOK
    <3>2. CASE action[b].pc = "dead"
      BY <3>1, <3>2 DEF ComposeInv, OrphansAlone
    <3>3. CASE action[b].pc \in {"first", "up"}
      BY <3>1, <3>3 DEF ComposeInv, LockOK, Running, Holds
    <3> QED
      BY <3>1, <3>2, <3>3
  <2>8. OrphansAlone'
    BY <1>2, <2>2, <2>3, <2>7 DEF ComposeInv, Types, OrphansAlone
  <2>9. OneProcessPerContainer'
    <3>1. \A b \in child' : \/ (b = a /\ action'[b].container = action[a].container)
                           \/ (b \in child /\ action'[b].container = action[b].container)
      BY <1>2, <2>2, <2>3 DEF ComposeInv, Types
    <3> QED
      BY <2>7, <3>1 DEF ComposeInv, OneProcessPerContainer
  <2> QED
    BY <2>3, <2>5, <2>6, <2>8, <2>9 DEF ComposeInv
<1>3. CASE action' = [action EXCEPT ![a].pc = "finish", ![a].outcome = "failed"] /\ child' = child
  <2> DEFINE y == [action[a] EXCEPT !.pc = "finish", !.outcome = "failed"]
  <2>1. action' = [action EXCEPT ![a] = y]
    BY <1>1, <1>3 DEF ComposeInv, Types
  <2>2. y \in ActionRow /\ y.pc = "finish" /\ y.container = action[a].container /\ y.outcome \in Terminal
    BY <1>1 DEF ActionRow, PCs, Terminal
  <2> HIDE DEF y
  <2>3. Types' /\ action'[a] = y /\ \A b \in Action \ {a} : action'[b] = action[b]
    BY <1>1, <1>3, <2>1, <2>2, ActionMoves, ZenonT(30) DEF ComposeInv, Types
  <2>4. LockOK'
    BY <2>2, <2>3, LocksStay DEF Running
  <2> QED
    BY <1>1, <1>3, <2>2, <2>3, <2>4, QuietMove DEF Running
<1> QED
  BY <1>2, <1>3 DEF Spawn

LEMMA RunKeeps ==
  ASSUME ComposeInv, NEW a \in Action, RunFirst(a) \/ RunUp(a)
  PROVE  ComposeInv'
<1>1. CASE RunFirst(a)
  <2> DEFINE s == lock[action[a].container]
  <2>1. Waits(a) /\ s \in Seq(Action)
    BY <1>1 DEF RunFirst, ComposeInv, LockOK, Types, ActionRow
  <2>2. s # <<>>
    BY <2>1 DEF Waits
  <2>3. Holds(a, action[a].container)
    BY <1>1, <2>2 DEF RunFirst, MayEnter, Holds
  <2> QED
    BY <1>1, <2>3, SpawnKeeps DEF RunFirst
<1>2. CASE RunUp(a)
  <2>1. Holds(a, action[a].container)
    BY <1>2 DEF RunUp, ComposeInv, LockOK, Running
  <2> QED
    BY <1>2, <2>1, SpawnKeeps DEF RunUp
<1> QED
  BY <1>1, <1>2

\* The process of a task ends: the row stays active until the task goes on.
LEMMA ExitKeeps ==
  ASSUME ComposeInv, NEW a \in Action, NEW o \in Terminal, Exit(a, o)
  PROVE  ComposeInv'
<1> DEFINE p == Outcome(a, o)
           y == [action[a] EXCEPT !.pc = p, !.outcome = o]
<1>1. /\ action[a] \in ActionRow /\ action[a].pc \in {"first", "up"} /\ action[a].container # None
      /\ child' = child \ {a} /\ UNCHANGED <<state, audited, lock>>
  BY DEF Exit, ComposeInv, Types
<1>2. p \in {"phase", "finish"}
  BY DEF Outcome
<1>3. action' = [action EXCEPT ![a] = y]
  BY <1>1 DEF Exit, ComposeInv, Types
<1> HIDE DEF p
<1>4. y \in ActionRow /\ y.pc = p /\ y.container = action[a].container /\ y.outcome \in Terminal
  BY <1>1, <1>2 DEF ActionRow, PCs, Running
<1> HIDE DEF y
<1>5. /\ child' \subseteq Action /\ audited' \subseteq Action
      /\ lock' \in [Container -> Seq(Action)] /\ state' \in [Action -> Active \cup Terminal \cup {None}]
  BY <1>1 DEF ComposeInv, Types
<1>6. Types' /\ action'[a] = y /\ \A b \in Action \ {a} : action'[b] = action[b]
  BY <1>1, <1>2, <1>3, <1>4, <1>5, ActionMoves DEF ComposeInv
<1>7. LockOK'
  <2>1. Holds(a, action'[a].container)
    BY <1>1, <1>4, <1>6 DEF ComposeInv, LockOK, Running
  <2> QED
    BY <1>1, <1>2, <1>4, <1>6, <2>1, LocksStay
<1>8. RowsOK'
  <2>1. state[a] \in Active
    BY <1>1 DEF ComposeInv, RowsOK, Running
  <2> QED
    BY <1>1, <1>4, <1>6, <2>1 DEF ComposeInv, Types, RowsOK
<1>9. OrphansAlone' /\ OneProcessPerContainer'
  <2>1. \A b \in child' : b \in child /\ b # a /\ b \in Action /\ action'[b] = action[b]
    BY <1>1, <1>6 DEF ComposeInv, Types
  <2>2. OneProcessPerContainer'
    BY <2>1 DEF ComposeInv, OneProcessPerContainer
  <2>3. OrphansAlone'
    BY <1>1, <1>4, <1>6, <2>1 DEF ComposeInv, OrphansAlone
  <2> QED
    BY <2>2, <2>3
<1> QED
  BY <1>6, <1>7, <1>8, <1>9 DEF ComposeInv

LEMMA UpdatesKeep ==
  ASSUME ComposeInv, NEW a \in Action, UpdatePhase(a) \/ UpdateTerminalState(a)
  PROVE  ComposeInv'
<1> DEFINE p == IF action[a].pc = "phase" THEN "restart" ELSE "audit"
           s == IF action[a].pc = "phase" THEN "restarting" ELSE action[a].outcome
           y == [action[a] EXCEPT !.pc = p]
<1>1. /\ action[a] \in ActionRow /\ action[a].pc \in {"phase", "finish"} /\ action[a].container # None
      /\ a \notin child /\ UNCHANGED <<audited, lock, child>>
  BY DEF UpdatePhase, UpdateTerminalState, ComposeInv, Types, RowsOK
<1>2. action' = [action EXCEPT ![a] = y] /\ state' = [state EXCEPT ![a] = s]
  BY DEF UpdatePhase, UpdateTerminalState, Goto
<1>3. /\ p \in {"restart", "audit"} /\ s \in Active \cup Terminal
      /\ p = "restart" => s \in Active /\ action[a].pc = "phase"
  BY <1>1 DEF ComposeInv, Types, Active
<1> HIDE DEF p, s
<1>4. y \in ActionRow /\ y.pc = p /\ y.container = action[a].container
  BY <1>1, <1>3 DEF ActionRow, PCs, Running
<1> HIDE DEF y
<1>5. /\ state' \in [Action -> Active \cup Terminal \cup {None}] /\ state'[a] = s
      /\ \A b \in Action \ {a} : state'[b] = state[b]
  BY <1>2, <1>3 DEF ComposeInv, Types
<1>6. /\ child' \subseteq Action /\ audited' \subseteq Action /\ lock' \in [Container -> Seq(Action)]
      /\ y.container # None /\ y.pc \notin {"new", "refused", "finish"}
  BY <1>1, <1>3, <1>4 DEF ComposeInv, Types
<1>7. Types' /\ action'[a] = y /\ \A b \in Action \ {a} : action'[b] = action[b]
  BY <1>2, <1>4, <1>5, <1>6, ActionMoves DEF ComposeInv
<1>8. LockOK'
  <2>1. p = "restart" => Holds(a, action'[a].container)
    BY <1>3, <1>4, <1>7 DEF ComposeInv, LockOK, Running
  <2> QED
    BY <1>1, <1>3, <1>4, <1>7, <2>1, LocksStay DEF Running
<1> QED
  BY <1>1, <1>3, <1>4, <1>5, <1>7, <1>8, QuietMove DEF Running

\* A step of a task that has no process and keeps its lock or ends.
LEMMA LastStepsKeep ==
  ASSUME ComposeInv, NEW a \in Action, NEW p \in {"recheck", "done", "dead"},
         action' = [action EXCEPT ![a].pc = p], action[a].pc \in {"phase", "finish", "audit", "recheck"},
         \/ p = "recheck" /\ lock' = lock
         \/ p # "recheck" /\ Release(a),
         audited' \subseteq Action, UNCHANGED <<state, child>>
  PROVE  ComposeInv'
<1> DEFINE y == [action[a] EXCEPT !.pc = p]
<1>1. action[a] \in ActionRow /\ action[a].container # None /\ a \notin child
  BY DEF ComposeInv, Types, RowsOK
<1>2. y \in ActionRow /\ y.pc = p /\ y.container = action[a].container /\ action' = [action EXCEPT ![a] = y]
  BY <1>1 DEF ActionRow, PCs
<1> HIDE DEF y
<1>3. action'[a] = y /\ \A b \in Action \ {a} : action'[b] = action[b]
  BY <1>2 DEF ComposeInv, Types
<1>4. lock' \in [Container -> Seq(Action)] /\ LockOK'
  <2>1. CASE p = "recheck"
    BY <1>2, <1>3, <2>1, LocksStay DEF Running, ComposeInv, Types
  <2>2. CASE p # "recheck"
    BY <1>2, <1>3, <2>2, LockReleased
  <2> QED
    BY <2>1, <2>2
<1>5. /\ child' \subseteq Action /\ state' \in [Action -> Active \cup Terminal \cup {None}]
      /\ y.container # None /\ y.pc \notin {"new", "refused", "finish"}
  BY <1>1, <1>2 DEF ComposeInv, Types
<1>6. Types'
  BY <1>2, <1>4, <1>5, ActionMoves DEF ComposeInv
<1> QED
  BY <1>1, <1>2, <1>3, <1>4, <1>6, QuietMove DEF Running

LEMMA WriteAuditRowKeeps ==
  ASSUME ComposeInv, NEW a \in Action, WriteAuditRow(a) \/ Recheck(a) \/ WriteFails(a)
  PROVE  ComposeInv'
<1>1. audited' \subseteq Action
  BY DEF WriteAuditRow, Recheck, WriteFails, ComposeInv, Types
<1>2. CASE WriteAuditRow(a)
  BY <1>1, <1>2, LastStepsKeep DEF WriteAuditRow, Goto
<1>3. CASE Recheck(a)
  BY <1>1, <1>3, LastStepsKeep DEF Recheck, Goto
<1>4. CASE WriteFails(a)
  BY <1>1, <1>4, LastStepsKeep DEF WriteFails, Goto
<1> QED
  BY <1>2, <1>3, <1>4

----------------------------------------------------------------------------
(* Shutdowns. *)

\* The processes that are left behind are orphans, and no request survives.
LEMMA ServerStopsKeeps ==
  ASSUME ComposeInv, ServerStops
  PROVE  ComposeInv'
<1>1. ASSUME NEW a \in Action
      PROVE  /\ action'[a] \in ActionRow /\ action'[a].container = action[a].container
             /\ action'[a].outcome = action[a].outcome
             /\ action'[a].pc = (IF action[a].pc \in {"new", "refused", "done"} THEN action[a].pc ELSE "dead")
  <2>1. action[a] \in ActionRow
    BY DEF ComposeInv, Types
  <2>2. CASE action[a].pc \in {"new", "refused", "done"}
    BY <2>1, <2>2 DEF ServerStops
  <2>3. CASE action[a].pc \notin {"new", "refused", "done"}
    <3> DEFINE y == [action[a] EXCEPT !.pc = "dead"]
    <3>1. action'[a] = y
      BY <2>3 DEF ServerStops
    <3>2. y \in ActionRow /\ y.pc = "dead" /\ y.container = action[a].container /\ y.outcome = action[a].outcome
      BY <2>1 DEF ActionRow, PCs
    <3> QED
      BY <2>3, <3>1, <3>2
  <2> QED
    BY <2>2, <2>3
<1>2. action' \in [Action -> ActionRow] /\ lock' \in [Container -> Seq(Action)]
  BY <1>1 DEF ServerStops
<1>3. UNCHANGED <<state, audited, child>>
  BY DEF ServerStops
<1>4. Types'
  BY <1>1, <1>2, <1>3 DEF ComposeInv, Types
<1>5. LockOK'
  BY <1>1 DEF LockOK, Running
<1>6. RowsOK'
  BY <1>1, <1>3 DEF ComposeInv, Types, RowsOK, Running
<1>7. OrphansAlone'
  <2>1. ASSUME NEW a \in child, NEW b \in Action, action'[b].container = action'[a].container
        PROVE  action'[b].pc \in {"dead", "done"}
    <3>1. a \in Action /\ action[a].container # None /\ action[b].container = action[a].container
      BY <1>1, <2>1 DEF ComposeInv, Types, RowsOK
    <3>2. action[b].pc \notin {"new", "refused"}
      BY <3>1 DEF ComposeInv, Types
    <3> QED
      BY <1>1, <3>2
  <2> QED
    BY <1>3, <2>1 DEF OrphansAlone
<1>8. OneProcessPerContainer'
  BY <1>1, <1>3 DEF ComposeInv, Types, OneProcessPerContainer
<1> QED
  BY <1>4, <1>5, <1>6, <1>7, <1>8 DEF ComposeInv

LEMMA OrphanExitsKeeps ==
  ASSUME ComposeInv, NEW a \in Action, OrphanExits(a)
  PROVE  ComposeInv'
<1>1. child' \subseteq child /\ UNCHANGED <<action, state, audited, lock>>
  BY DEF OrphanExits
<1>2. Types' /\ LockOK'
  BY <1>1 DEF ComposeInv, Types, LockOK, Waits, Holds
<1> QED
  BY <1>1, <1>2 DEF ComposeInv, RowsOK, OrphansAlone, OneProcessPerContainer

LEMMA ComposeInit == Init => ComposeInv
<1> SUFFICES ASSUME Init PROVE ComposeInv
  OBVIOUS
<1>1. Types
  BY NoActionType DEF Init, Types
<1> QED
  BY <1>1, NoActionType DEF Init, ComposeInv, LockOK, RowsOK, OrphansAlone, OneProcessPerContainer, Running

LEMMA ComposeNext == ComposeInv /\ [Next]_vars => ComposeInv'
<1> SUFFICES ASSUME ComposeInv, [Next]_vars PROVE ComposeInv'
  OBVIOUS
<1>1. CASE UNCHANGED vars
  <2>1. UNCHANGED <<action, state, audited, lock, child>>
    BY <1>1 DEF vars
  <2> QED
    BY <2>1 DEF ComposeInv, Types, LockOK, Waits, Holds, RowsOK, OrphansAlone, OneProcessPerContainer
<1> QED
  BY <1>1, CheckKeeps, AcceptKeeps, AcceptUnresolvedKeeps, RunKeeps, ExitKeeps, UpdatesKeep, WriteAuditRowKeeps,
     ServerStopsKeeps, OrphanExitsKeeps DEF Next, TaskStep

\* At most one docker compose process works on a container, also beside the ones a
\* shutdown left behind (_run_pull_and_restart_locked, get_active_for_container).
THEOREM ProcessesAreAlone == Spec => []OneProcessPerContainer
<1>1. ComposeInv => OneProcessPerContainer
  BY DEF ComposeInv
<1> QED
  BY <1>1, ComposeInit, ComposeNext, PTL DEF Spec

----------------------------------------------------------------------------
(* Healthcheck incidents.  The time at which a row changed to unhealthy is  *)
(* always an observed start of a spell, also after a tick that missed the   *)
(* container and after a recreation, and so is the time that a reconciler   *)
(* has read, however old the row it read it from.                           *)

State == [id : Nat, status : {"running", "exited", "dead"}, exit : {0, 1}, finished : Nat,
          health : {"healthy", "unhealthy", None}]

TargetRow == [id : Nat, status : {"running", "exited", "dead", "missing"}, exit : {0, 1}, finished : Nat,
              health : {"healthy", "unhealthy", None}, changed : Nat \cup {None}]

HealthTypes ==
    /\ clock \in Nat /\ real \in State
    /\ gathered # None => gathered \subseteq State
    /\ row # None => row \in TargetRow

\* Every time that is written down or about to be is the start of a spell.
Anchored ==
    /\ row # None /\ row.changed # None => row.changed \in starts
    /\ incident # None => incident \in starts
    /\ incidents \subseteq starts

HealthInv == HealthTypes /\ Anchored

LEMMA DaemonKeeps ==
  ASSUME HealthInv,
         \/ \E code \in 0..1, known \in BOOLEAN : Health!Stop(code, known)
         \/ Health!Start \/ Health!Recreate \/ Health!HealthChanges \/ Health!Tick
  PROVE  HealthInv'
<1>1. UNCHANGED <<gathered, row, incident, incidents, starts>>
  BY DEF Health!Stop, Health!Start, Health!Recreate, Health!HealthChanges, Health!Tick
<1>2. clock' \in Nat
  <2>1. clock' \in {clock, clock + 1}
    BY DEF Health!Stop, Health!Start, Health!Recreate, Health!HealthChanges, Health!Tick
  <2> QED
    BY <2>1 DEF HealthInv, HealthTypes
<1>3. real' \in State
  <2>1. real \in State /\ clock \in Nat
    BY DEF HealthInv, HealthTypes
  <2>2. ASSUME NEW code \in 0..1, NEW known \in BOOLEAN, Health!Stop(code, known) PROVE real' \in State
    <3> DEFINE f == IF known THEN clock ELSE 0
    <3>1. PICK s \in {"exited", "dead"} :
            real' = [real EXCEPT !.status = s, !.exit = code, !.health = None, !.finished = f]
      BY <2>2 DEF Health!Stop, Health!Stopped, Health!Zero
    <3>2. f \in Nat /\ code \in {0, 1}
      BY <2>1
    <3> HIDE DEF f
    <3> QED
      BY <2>1, <3>1, <3>2 DEF State
  <2>3. CASE Health!Start
    BY <2>1, <2>3 DEF Health!Start, State
  <2>4. CASE Health!Recreate
    BY <2>1, <2>4 DEF Health!Recreate, Health!Zero, State
  <2>5. CASE Health!HealthChanges
    <3> DEFINE h == IF real.health = "healthy" THEN "unhealthy" ELSE "healthy"
    <3>1. real' = [real EXCEPT !.health = h] /\ h \in {"healthy", "unhealthy"}
      BY <2>5 DEF Health!HealthChanges
    <3> HIDE DEF h
    <3> QED
      BY <2>1, <3>1 DEF State
  <2>6. CASE Health!Tick
    BY <2>1, <2>6 DEF Health!Tick
  <2> QED
    BY <2>2, <2>3, <2>4, <2>5, <2>6
<1> QED
  BY <1>1, <1>2, <1>3 DEF HealthInv, HealthTypes, Anchored

LEMMA InspectKeeps ==
  ASSUME HealthInv, NEW ok \in BOOLEAN, Health!Inspect(ok)
  PROVE  HealthInv'
<1>1. UNCHANGED <<clock, real, row, incident, incidents, starts>> /\ gathered' \in {{real}, {}}
  BY DEF Health!Inspect
<1> QED
  BY <1>1 DEF HealthInv, HealthTypes, Anchored

\* A row that becomes unhealthy gets the time at which the spell is noted to start;
\* any other keeps its time.
LEMMA WriteTargetsKeeps ==
  ASSUME HealthInv, Health!WriteTargets
  PROVE  HealthInv'
<1>1. UNCHANGED <<clock, real, incident, incidents>> /\ gathered' = None /\ gathered # None
  BY DEF Health!WriteTargets
<1>2. ASSUME NEW r \in gathered, row' = Health!Upserted(r),
             starts' = IF r.health = "unhealthy" /\ (row = None \/ row.health # "unhealthy")
                       THEN starts \cup {clock} ELSE starts
      PROVE  HealthInv'
  <2>1. r \in State /\ clock \in Nat /\ (row # None => row \in TargetRow)
    BY <1>1 DEF HealthInv, HealthTypes
  <2> DEFINE old == IF row = None THEN None ELSE row.changed
             c == IF Health!Edge(r) THEN clock ELSE old
  <2>2. old \in Nat \cup {None}
    BY <2>1 DEF TargetRow
  <2>3. c \in Nat \cup {None}
    BY <2>1, <2>2
  <2>4. c # None => c \in starts'
    <3>1. CASE Health!Edge(r)
      BY <1>2, <3>1 DEF Health!Edge
    <3>2. CASE ~Health!Edge(r)
      <4>1. starts' = starts
        BY <1>2, <3>2 DEF Health!Edge
      <4> QED
        BY <3>2, <4>1 DEF HealthInv, Anchored
    <3> QED
      BY <3>1, <3>2
  <2>5. row' = [id |-> r.id, status |-> r.status, exit |-> r.exit, finished |-> r.finished,
                health |-> r.health, changed |-> c]
    BY <1>2 DEF Health!Upserted
  <2> HIDE DEF c, old
  <2>6. row' \in TargetRow /\ row'.changed = c
    BY <2>1, <2>3, <2>5 DEF State, TargetRow
  <2>7. starts \subseteq starts'
    BY <1>2
  <2>8. HealthTypes'
    BY <1>1, <2>6 DEF HealthInv, HealthTypes
  <2> QED
    BY <1>1, <2>4, <2>6, <2>7, <2>8 DEF HealthInv, Anchored
<1>3. ASSUME row' = (IF row = None THEN None ELSE [row EXCEPT !.status = "missing"]), UNCHANGED starts
      PROVE  HealthInv'
  <2>1. CASE row = None
    BY <1>1, <1>3, <2>1 DEF HealthInv, HealthTypes, Anchored
  <2>2. CASE row # None
    <3>1. row \in TargetRow /\ row' = [row EXCEPT !.status = "missing"]
      BY <1>3, <2>2 DEF HealthInv, HealthTypes
    <3>2. row' \in TargetRow /\ row'.changed = row.changed
      BY <3>1 DEF TargetRow
    <3> QED
      BY <1>1, <1>3, <2>2, <3>2 DEF HealthInv, HealthTypes, Anchored
  <2> QED
    BY <2>1, <2>2
<1> QED
  BY <1>2, <1>3 DEF Health!WriteTargets

\* A prune only drops keys.
LEMMA PrunedKeys ==
  ASSUME NEW keys PROVE Health!Pruned(keys) \subseteq keys
  BY DEF Health!Pruned

LEMMA ReconcilersKeep ==
  ASSUME HealthInv, Health!ListCrashed \/ Health!InsertCrash \/ Health!ListUnhealthy \/ Health!InsertIncident
  PROVE  HealthInv'
<1>1. UNCHANGED <<clock, real, gathered, row, starts>>
  BY DEF Health!ListCrashed, Health!InsertCrash, Health!ListUnhealthy, Health!InsertIncident
<1>2. HealthTypes'
  BY <1>1 DEF HealthInv, HealthTypes
<1>3. CASE Health!ListCrashed \/ Health!InsertCrash
  <2>1. UNCHANGED <<incident, incidents>>
    BY <1>3 DEF Health!ListCrashed, Health!InsertCrash
  <2> QED
    BY <1>1, <1>2, <2>1 DEF HealthInv, Anchored
<1>4. CASE Health!ListUnhealthy
  <2>1. incident' \in {incident, row.changed} /\ incidents' \subseteq incidents
        /\ (incident' # incident => row # None /\ row.changed # None)
    BY <1>4, PrunedKeys DEF Health!ListUnhealthy, Health!Unhealthy
  <2> QED
    BY <1>1, <1>2, <2>1 DEF HealthInv, Anchored
<1>5. CASE Health!InsertIncident
  <2>1. incident' = None /\ incident # None /\ incidents' \subseteq incidents \cup {incident}
    BY <1>5, PrunedKeys DEF Health!InsertIncident, Health!Inserted
  <2> QED
    BY <1>1, <1>2, <2>1 DEF HealthInv, Anchored
<1> QED
  BY <1>3, <1>4, <1>5

LEMMA HealthInit == Health!Init => HealthInv
  BY DEF Health!Init, Health!Zero, HealthInv, HealthTypes, Anchored, State

LEMMA HealthNext == HealthInv /\ [Health!Next]_healthVars => HealthInv'
<1>1. HealthInv /\ UNCHANGED healthVars => HealthInv'
  BY DEF healthVars, HealthInv, HealthTypes, Anchored
<1> QED
  BY <1>1, DaemonKeeps, InspectKeeps, WriteTargetsKeeps, ReconcilersKeep DEF Health!Next

\* Every incident that is kept began at a moment at which the collector first saw the
\* container unhealthy, whatever ticks missed it, it was recreated and rows were
\* written while the reconciler worked on an older one
\* (ContainerHealthcheckReconciler.run, is_healthcheck_edge).
THEOREM IncidentsBeginSpells == MCSpec => []IncidentsAreSpells
<1>1. MCInit => HealthInv
  BY HealthInit DEF MCInit
<1>2. HealthInv /\ [MCNext]_allVars => HealthInv'
  <2>1. [MCNext]_allVars => [Health!Next]_healthVars
    BY DEF MCNext, allVars, healthVars
  <2> QED
    BY <2>1, HealthNext
<1>3. HealthInv => IncidentsAreSpells
  BY DEF HealthInv, Anchored, IncidentsAreSpells, Health!IncidentsAreSpells
<1> QED
  BY <1>1, <1>2, <1>3, PTL DEF MCSpec

----------------------------------------------------------------------------
(* The websocket. *)

CallerResult == {None, "answer", "unreachable", "timeout", "cancelled"}

WsTypes ==
    /\ idCounter \in Nat
    /\ pc \in [Caller -> {"idle", "sending", "waiting"}]
    /\ msgId \in [Caller -> Nat]
    /\ result \in [Caller -> CallerResult]
    /\ wire \subseteq Nat \X Caller
    /\ pending = [i \in DOMAIN pending |-> pending[i]]

\* A caller without a result is in the table under the id of its command.
Waiters ==
    \A c \in Caller : pc[c] # "idle" /\ result[c] = None => msgId[c] \in DOMAIN pending /\ pending[msgId[c]] = c

\* Whatever else the table holds is nobody's: what is left of callers that were cancelled.
Entries ==
    \A i \in DOMAIN pending :
        /\ i \in Nat /\ i <= idCounter /\ pending[i] \in Caller \cup {None}
        /\ \A c \in Caller : pending[i] = c => msgId[c] = i /\ pc[c] # "idle" /\ result[c] = None

Fresh ==
    /\ loop # "receiving" => DOMAIN pending = {}
    /\ connected => loop = "receiving"
    /\ socketOpen => loop \in {"handshake", "receiving"}

\* A command Home Assistant has is no longer being sent, and its entry is its caller's or
\* nobody's.
Frames ==
    \A f \in wire :
        /\ f[1] <= idCounter
        /\ f[1] \in DOMAIN pending =>
             \/ pending[f[1]] = None
             \/ pending[f[1]] = f[2] /\ pc[f[2]] = "waiting"

Senders ==
    \A c \in Caller :
        pc[c] = "sending" =>
            /\ loop # "handshake"
            /\ loop = "receiving" => result[c] = None /\ \A f \in wire : f[1] # msgId[c]

WsInv == WsTypes /\ Waiters /\ Entries /\ Fresh /\ Frames /\ Senders

LEMMA WsInit == Websocket!Init => WsInv
  BY DEF Websocket!Init, WsInv, WsTypes, CallerResult, Waiters, Entries, Fresh, Frames, Senders, Websocket!NoIds

\* Steps of the run loop that leave the commands alone.
LEMMA LoopKeeps ==
  ASSUME WsInv, Websocket!StartTask \/ Websocket!Connect \/ Websocket!Authenticated \/ Websocket!StopInBackoff \/ Websocket!SocketDies
  PROVE  WsInv'
<1>1. UNCHANGED <<pending, pc, msgId, result>> /\ wire' \subseteq wire
  BY DEF Websocket!StartTask, Websocket!Connect, Websocket!Authenticated, Websocket!StopInBackoff, Websocket!SocketDies
<1>2. CASE Websocket!StartTask \/ Websocket!StopInBackoff
  BY <1>1, <1>2 DEF Websocket!StartTask, Websocket!StopInBackoff, WsInv, WsTypes, Waiters, Entries, Fresh, Frames, Senders
<1>3. CASE Websocket!Connect
  BY <1>1, <1>3 DEF Websocket!Connect, WsInv, WsTypes, Waiters, Entries, Fresh, Frames, Senders
<1>4. CASE Websocket!Authenticated
  BY <1>1, <1>4 DEF Websocket!Authenticated, WsInv, WsTypes, Waiters, Entries, Fresh, Frames, Senders
<1>5. CASE Websocket!SocketDies
  BY <1>1, <1>5 DEF Websocket!SocketDies, WsInv, WsTypes, Waiters, Entries, Fresh, Frames, Senders
<1> QED
  BY <1>2, <1>3, <1>4, <1>5

\* Everyone without a result is in the table, so that everyone is told.
LEMMA DisconnectKeeps ==
  ASSUME WsInv, Websocket!Disconnect
  PROVE  WsInv'
<1>1. /\ DOMAIN pending' = {} /\ pending' = [i \in DOMAIN pending' |-> pending'[i]]
      /\ wire' = {} /\ ~socketOpen' /\ ~connected' /\ loop' \in {"backoff", "off"} /\ UNCHANGED <<idCounter, pc, msgId>>
  BY DEF Websocket!Disconnect, Websocket!FailAllPending, Websocket!NoIds
<1>2. result' \in [Caller -> CallerResult]
  BY DEF Websocket!Disconnect, Websocket!FailAllPending, WsInv, WsTypes, CallerResult
<1>3. \A c \in Caller : pc[c] # "idle" => result'[c] # None
  BY WebsocketBounds DEF Websocket!WebsocketAssumption, Websocket!Disconnect, Websocket!FailAllPending, WsInv, Waiters
<1> QED
  BY <1>1, <1>2, <1>3 DEF WsInv, WsTypes, Waiters, Entries, Fresh, Frames, Senders

LEMMA Removed ==
  ASSUME NEW k, pending' = Websocket!Without(pending, k)
  PROVE  /\ pending' = [i \in DOMAIN pending' |-> pending'[i]]
         /\ DOMAIN pending' = DOMAIN pending \ {k}
         /\ \A i \in DOMAIN pending' : pending'[i] = pending[i]
  BY DEF Websocket!Without

LEMMA DispatchFrameKeeps ==
  ASSUME WsInv, Websocket!DispatchFrame
  PROVE  WsInv'
<1>1. PICK f \in wire :
        /\ wire' = wire \ {f} /\ pending' = Websocket!Without(pending, f[1])
        /\ result' = [c \in Caller |-> IF f[1] \in DOMAIN pending /\ pending[f[1]] = c /\ result[c] = None
                                       THEN "answer" ELSE result[c]]
  BY DEF Websocket!DispatchFrame
<1>2. UNCHANGED <<loop, connected, socketOpen, idCounter, pc, msgId>>
  BY DEF Websocket!DispatchFrame
<1>3. /\ pending' = [i \in DOMAIN pending' |-> pending'[i]]
      /\ DOMAIN pending' = DOMAIN pending \ {f[1]}
      /\ \A i \in DOMAIN pending' : pending'[i] = pending[i]
  BY <1>1, Removed
<1>4. /\ result' \in [Caller -> CallerResult]
      /\ \A c \in Caller : result'[c] = result[c]
                           \/ (f[1] \in DOMAIN pending /\ pending[f[1]] = c /\ result'[c] = "answer")
      /\ \A c \in Caller : f[1] \in DOMAIN pending /\ pending[f[1]] = c => result'[c] # None
  BY <1>1, WebsocketBounds DEF Websocket!WebsocketAssumption, WsInv, WsTypes, Entries, CallerResult
<1>5. WsTypes'
  BY <1>1, <1>2, <1>3, <1>4 DEF WsInv, WsTypes
<1>6. Waiters'
  <2>1. ASSUME NEW c \in Caller, pc[c] # "idle", result'[c] = None
        PROVE  msgId[c] \in DOMAIN pending' /\ pending'[msgId[c]] = c
    BY <1>3, <1>4, <2>1, WebsocketBounds DEF Websocket!WebsocketAssumption, WsInv, Waiters, Entries
  <2> QED
    BY <1>2, <2>1 DEF Waiters
<1>7. Entries'
  BY <1>2, <1>3, <1>4 DEF WsInv, Entries
<1>8. Fresh' /\ Frames'
  BY <1>1, <1>2, <1>3 DEF WsInv, Fresh, Frames
<1>9. Senders'
  <2>1. \A c \in Caller : pc[c] = "sending" => result'[c] = result[c]
    BY <1>1, <1>4, WebsocketBounds DEF Websocket!WebsocketAssumption, WsInv, Frames
  <2> QED
    BY <1>1, <1>2, <2>1 DEF WsInv, Senders
<1> QED
  BY <1>5, <1>6, <1>7, <1>8, <1>9 DEF WsInv

----------------------------------------------------------------------------
(* The callers. *)

\* A fresh id: neither in the table nor with Home Assistant.
LEMMA SendCommandKeeps ==
  ASSUME WsInv, NEW c \in Caller, Websocket!SendCommand(c)
  PROVE  WsInv'
<1>1. UNCHANGED <<loop, connected, socketOpen, wire>> /\ pc[c] = "idle"
  BY DEF Websocket!SendCommand
<1>2. CASE connected
  <2> DEFINE k == idCounter + 1
  <2>1. /\ idCounter' = k /\ msgId' = [msgId EXCEPT ![c] = k] /\ pending' = Websocket!Put(pending, k, c)
        /\ pc' = [pc EXCEPT ![c] = "sending"] /\ result' = [result EXCEPT ![c] = None]
    BY <1>2 DEF Websocket!SendCommand
  <2>2. /\ k \in Nat /\ k > idCounter /\ k \notin DOMAIN pending /\ idCounter \in Nat
        /\ \A f \in wire : f[1] # k /\ f[1] \in Nat /\ f[2] \in Caller
    BY DEF WsInv, WsTypes, Entries, Frames
  <2> HIDE DEF k
  <2>3. /\ pending' = [i \in DOMAIN pending' |-> pending'[i]]
        /\ DOMAIN pending' = DOMAIN pending \cup {k} /\ pending'[k] = c
        /\ \A i \in DOMAIN pending : pending'[i] = pending[i]
    BY <2>1, <2>2 DEF Websocket!Put
  <2>4. WsTypes'
    <3>1. result' \in [Caller -> CallerResult]
      BY <2>1 DEF WsInv, WsTypes, CallerResult
    <3> QED
      BY <1>1, <2>1, <2>2, <2>3, <3>1 DEF WsInv, WsTypes
  <2>5. \A d \in Caller \ {c} : pc'[d] = pc[d] /\ msgId'[d] = msgId[d] /\ result'[d] = result[d]
    BY <2>1 DEF WsInv, WsTypes
  <2>6. pc'[c] = "sending" /\ msgId'[c] = k /\ result'[c] = None
    BY <2>1 DEF WsInv, WsTypes
  <2>7. Waiters'
    BY <2>3, <2>5, <2>6 DEF WsInv, Waiters
  <2>8. Entries'
    <3>1. \A i \in DOMAIN pending : pending[i] # c
      BY <1>1 DEF WsInv, Entries
    <3> QED
      BY <2>1, <2>2, <2>3, <2>5, <2>6, <3>1 DEF WsInv, Entries
  <2>9. Fresh' /\ Frames'
    <3>1. \A f \in wire : f[1] \in DOMAIN pending /\ pending[f[1]] # None => f[2] # c
      BY <1>1 DEF WsInv, Frames
    <3> QED
      BY <1>1, <1>2, <2>1, <2>2, <2>3, <2>5, <3>1 DEF WsInv, Fresh, Frames
  <2>10. Senders'
    BY <1>1, <1>2, <2>2, <2>5, <2>6 DEF WsInv, Fresh, Senders
  <2> QED
    BY <2>4, <2>7, <2>8, <2>9, <2>10 DEF WsInv
<1>3. CASE ~connected
  <2>1. result' = [result EXCEPT ![c] = "unreachable"] /\ UNCHANGED <<idCounter, msgId, pending, pc>>
    BY <1>3 DEF Websocket!SendCommand
  <2>2. \A i \in DOMAIN pending : pending[i] # c
    BY <1>1 DEF WsInv, Entries
  <2>3. result' \in [Caller -> CallerResult] /\ \A d \in Caller \ {c} : result'[d] = result[d]
    BY <2>1 DEF WsInv, WsTypes, CallerResult
  <2>4. WsTypes' /\ Waiters' /\ Entries'
    BY <1>1, <2>1, <2>2, <2>3 DEF WsInv, WsTypes, Waiters, Entries
  <2> QED
    BY <1>1, <2>1, <2>3, <2>4 DEF WsInv, Fresh, Frames, Senders
<1> QED
  BY <1>2, <1>3

LEMMA SentKeeps ==
  ASSUME WsInv, NEW c \in Caller, Websocket!Sent(c)
  PROVE  WsInv'
<1> DEFINE k == msgId[c]
<1>1. /\ pc[c] = "sending" /\ socketOpen /\ loop = "receiving" /\ result[c] = None
      /\ k \in DOMAIN pending /\ pending[k] = c /\ k \in Nat /\ k <= idCounter
  BY DEF Websocket!Sent, WsInv, WsTypes, Fresh, Senders, Waiters, Entries
<1>2. /\ UNCHANGED <<loop, connected, socketOpen, idCounter, pending, msgId, result>>
      /\ wire' = wire \cup {<<k, c>>} /\ pc' = [pc EXCEPT ![c] = "waiting"]
  BY DEF Websocket!Sent
<1>3. WsTypes' /\ pc'[c] = "waiting" /\ \A d \in Caller \ {c} : pc'[d] = pc[d]
  BY <1>1, <1>2 DEF WsInv, WsTypes
<1> HIDE DEF k
<1>4. Waiters' /\ Entries' /\ Fresh'
  BY <1>1, <1>2, <1>3 DEF WsInv, Waiters, Entries, Fresh
<1>5. Frames'
  <2>1. \A f \in wire : f[2] \in Caller
    BY DEF WsInv, WsTypes
  <2> QED
    BY <1>1, <1>2, <1>3, <2>1 DEF WsInv, Frames
<1>6. Senders'
  <2>1. \A d \in Caller \ {c} : pc[d] = "sending" => msgId[d] # k
    BY <1>1 DEF WsInv, Senders, Waiters
  <2> QED
    BY <1>1, <1>2, <1>3, <2>1 DEF WsInv, Senders
<1> QED
  BY <1>3, <1>4, <1>5, <1>6 DEF WsInv

\* A caller gives up, and its id is taken from the table.
LEMMA GivesUpKeeps ==
  ASSUME WsInv, NEW c \in Caller, Websocket!SendFails(c) \/ Websocket!TimesOut(c)
  PROVE  WsInv'
<1>1. /\ pc[c] # "idle" /\ pc' = [pc EXCEPT ![c] = "idle"] /\ pending' = Websocket!Without(pending, msgId[c])
      /\ UNCHANGED <<loop, connected, socketOpen, idCounter, wire, msgId>>
      /\ \E r \in {"unreachable", "timeout"} : result' = [result EXCEPT ![c] = r]
  BY DEF Websocket!SendFails, Websocket!TimesOut
<1>2. /\ pending' = [i \in DOMAIN pending' |-> pending'[i]]
      /\ DOMAIN pending' = DOMAIN pending \ {msgId[c]}
      /\ \A i \in DOMAIN pending' : pending'[i] = pending[i]
  BY <1>1, Removed
<1>3. /\ WsTypes' /\ pc'[c] = "idle" /\ result'[c] # None
      /\ \A d \in Caller \ {c} : pc'[d] = pc[d] /\ result'[d] = result[d]
  <2>1. PICK r \in {"unreachable", "timeout"} : result' = [result EXCEPT ![c] = r]
    BY <1>1
  <2>2. /\ result' \in [Caller -> CallerResult] /\ result'[c] = r
        /\ \A d \in Caller \ {c} : result'[d] = result[d]
    BY <2>1 DEF WsInv, WsTypes, CallerResult
  <2>3. /\ pc' \in [Caller -> {"idle", "sending", "waiting"}] /\ pc'[c] = "idle"
        /\ \A d \in Caller \ {c} : pc'[d] = pc[d]
    BY <1>1 DEF WsInv, WsTypes
  <2> QED
    BY <1>1, <1>2, <2>2, <2>3, WebsocketBounds DEF Websocket!WebsocketAssumption, WsInv, WsTypes
<1>4. \A i \in DOMAIN pending' : pending[i] # c
  BY <1>2 DEF WsInv, Entries
<1>5. Waiters'
  <2>1. ASSUME NEW d \in Caller \ {c}, pc[d] # "idle", result[d] = None, msgId[d] = msgId[c]
        PROVE  FALSE
    <3>1. loop = "receiving" /\ pending[msgId[c]] = d /\ msgId[c] \in DOMAIN pending
      BY <2>1 DEF WsInv, Waiters, Fresh
    <3>2. result[c] = None
      BY <3>1 DEF Websocket!SendFails, Websocket!TimesOut, WsInv, Senders
    <3> QED
      BY <1>1, <3>1, <3>2 DEF WsInv, Waiters
  <2> QED
    BY <1>1, <1>2, <1>3, <2>1 DEF WsInv, Waiters
<1>6. Entries' /\ Fresh'
  BY <1>1, <1>2, <1>3, <1>4 DEF WsInv, Entries, Fresh
<1>7. Frames'
  <2>1. ASSUME NEW f \in wire, f[1] \in DOMAIN pending'
        PROVE  pending'[f[1]] = None \/ (pending'[f[1]] = f[2] /\ pc'[f[2]] = "waiting")
    <3>1. f[2] \in Caller /\ f[1] \in DOMAIN pending /\ pending'[f[1]] = pending[f[1]] /\ pending[f[1]] # c
      BY <1>2, <1>4, <2>1 DEF WsInv, WsTypes
    <3>2. pending[f[1]] = None \/ (pending[f[1]] = f[2] /\ pc[f[2]] = "waiting")
      BY <3>1 DEF WsInv, Frames
    <3> QED
      BY <1>3, <3>1, <3>2
  <2>2. wire' = wire /\ idCounter' = idCounter /\ \A f \in wire : f[1] <= idCounter
    BY <1>1 DEF WsInv, Frames
  <2> QED
    BY <2>1, <2>2 DEF Frames
<1>8. Senders'
  BY <1>1, <1>3 DEF WsInv, Senders
<1> QED
  BY <1>3, <1>5, <1>6, <1>7, <1>8 DEF WsInv

\* A caller is cancelled: its entry, if it has one, becomes nobody's, and its command may
\* be with Home Assistant all the same.
LEMMA CancelledKeeps ==
  ASSUME WsInv, NEW c \in Caller, Websocket!Cancelled(c)
  PROVE  WsInv'
<1> DEFINE k == msgId[c]
<1>1. /\ pc[c] \in {"sending", "waiting"} /\ pc' = [pc EXCEPT ![c] = "idle"]
      /\ pending' = [i \in DOMAIN pending |-> IF pending[i] = c THEN None ELSE pending[i]]
      /\ result' = [result EXCEPT ![c] = "cancelled"]
      /\ UNCHANGED <<loop, connected, socketOpen, idCounter, msgId>>
      /\ \/ UNCHANGED wire
         \/ pc[c] = "sending" /\ socketOpen /\ wire' = wire \cup {<<k, c>>}
  BY DEF Websocket!Cancelled
<1>2. /\ WsTypes' /\ pc'[c] = "idle" /\ result'[c] = "cancelled" /\ result'[c] # None
      /\ \A d \in Caller \ {c} : pc'[d] = pc[d] /\ result'[d] = result[d]
  <2>1. /\ result' \in [Caller -> CallerResult] /\ result'[c] = "cancelled"
        /\ \A d \in Caller \ {c} : result'[d] = result[d]
    BY <1>1 DEF WsInv, WsTypes, CallerResult
  <2>2. /\ pc' \in [Caller -> {"idle", "sending", "waiting"}] /\ pc'[c] = "idle"
        /\ \A d \in Caller \ {c} : pc'[d] = pc[d]
    BY <1>1 DEF WsInv, WsTypes
  <2>3. wire' \subseteq Nat \X Caller /\ pending' = [i \in DOMAIN pending' |-> pending'[i]]
    BY <1>1 DEF WsInv, WsTypes
  <2> QED
    BY <1>1, <2>1, <2>2, <2>3, WebsocketBounds DEF Websocket!WebsocketAssumption, WsInv, WsTypes
<1>3. /\ DOMAIN pending' = DOMAIN pending
      /\ \A i \in DOMAIN pending : /\ pending'[i] # c
                                   /\ pending'[i] = pending[i] \/ (pending[i] = c /\ pending'[i] = None)
  BY <1>1, WebsocketBounds DEF Websocket!WebsocketAssumption
<1>4. Waiters'
  <2>1. ASSUME NEW d \in Caller \ {c}, pc[d] # "idle", result[d] = None
        PROVE  msgId[d] \in DOMAIN pending' /\ pending'[msgId[d]] = d
    BY <1>3, <2>1 DEF WsInv, Waiters
  <2> QED
    BY <1>1, <1>2, <2>1 DEF Waiters
<1>5. Entries' /\ Fresh'
  BY <1>1, <1>2, <1>3, WebsocketBounds DEF Websocket!WebsocketAssumption, WsInv, Entries, Fresh
\* A sender that can still be heard is in the table under its id.
<1>6. pc[c] = "sending" /\ socketOpen =>
        loop = "receiving" /\ k \in DOMAIN pending /\ pending[k] = c /\ k <= idCounter
  BY DEF WsInv, Senders, Fresh, Waiters, Entries
<1> HIDE DEF k
<1>7. Frames'
  <2>1. ASSUME NEW f \in wire
        PROVE  /\ f[1] <= idCounter
               /\ f[1] \in DOMAIN pending' =>
                    \/ pending'[f[1]] = None
                    \/ pending'[f[1]] = f[2] /\ pc'[f[2]] = "waiting"
    <3>1. f[2] \in Caller /\ f[1] <= idCounter
      BY DEF WsInv, WsTypes, Frames
    <3>2. ASSUME f[1] \in DOMAIN pending'
          PROVE  pending'[f[1]] = None \/ (pending'[f[1]] = f[2] /\ pc'[f[2]] = "waiting")
      <4>1. pending[f[1]] = None \/ (pending[f[1]] = f[2] /\ pc[f[2]] = "waiting")
        BY <1>3, <3>2 DEF WsInv, Frames
      <4>2. /\ pending'[f[1]] # c
            /\ pending'[f[1]] = pending[f[1]] \/ (pending[f[1]] = c /\ pending'[f[1]] = None)
        BY <1>3, <3>2
      <4> QED
        BY <1>2, <3>1, <4>1, <4>2
    <3> QED
      BY <3>1, <3>2
  <2>2. CASE UNCHANGED wire
    <3>1. wire' = wire /\ idCounter' = idCounter
      BY <1>1, <2>2
    <3> QED
      BY <2>1, <3>1 DEF Frames
  <2>3. CASE pc[c] = "sending" /\ socketOpen /\ wire' = wire \cup {<<k, c>>}
    <3>1. pending'[k] = None /\ k <= idCounter
      BY <1>3, <1>6, <2>3
    <3>2. idCounter' = idCounter
      BY <1>1
    <3>3. ASSUME NEW f \in wire'
          PROVE  /\ f[1] <= idCounter
                 /\ f[1] \in DOMAIN pending' =>
                      \/ pending'[f[1]] = None
                      \/ pending'[f[1]] = f[2] /\ pc'[f[2]] = "waiting"
      <4>1. f \in wire \/ f[1] = k
        BY <2>3
      <4> QED
        BY <2>1, <3>1, <4>1
    <3> QED
      BY <3>2, <3>3 DEF Frames
  <2> QED
    BY <1>1, <2>2, <2>3
<1>8. Senders'
  <2>1. ASSUME NEW d \in Caller \ {c}, pc[d] = "sending", loop = "receiving", socketOpen, pc[c] = "sending"
        PROVE  msgId[d] # k
    BY <1>6, <2>1 DEF WsInv, Senders, Waiters
  <2> QED
    BY <1>1, <1>2, <1>6, <2>1 DEF WsInv, Senders
<1> QED
  BY <1>2, <1>4, <1>5, <1>7, <1>8 DEF WsInv

LEMMA ReturnsKeeps ==
  ASSUME WsInv, NEW c \in Caller, Websocket!Returns(c)
  PROVE  WsInv'
<1>1. /\ result[c] # None /\ pc' = [pc EXCEPT ![c] = "idle"]
      /\ UNCHANGED <<loop, connected, socketOpen, idCounter, pending, wire, msgId, result>>
  BY DEF Websocket!Returns
<1>2. WsTypes' /\ pc'[c] = "idle" /\ \A d \in Caller \ {c} : pc'[d] = pc[d]
  BY <1>1 DEF WsInv, WsTypes
<1>3. \A i \in DOMAIN pending : pending[i] # c
  BY <1>1 DEF WsInv, Entries
<1>4. Waiters' /\ Entries' /\ Fresh' /\ Senders'
  BY <1>1, <1>2, <1>3 DEF WsInv, Waiters, Entries, Fresh, Senders
<1>5. Frames'
  <2>1. ASSUME NEW f \in wire, f[1] \in DOMAIN pending
        PROVE  pending[f[1]] = None \/ (pending[f[1]] = f[2] /\ pc'[f[2]] = "waiting")
    <3>1. f[2] \in Caller /\ pending[f[1]] # c
      BY <1>3, <2>1 DEF WsInv, WsTypes
    <3>2. pending[f[1]] = None \/ (pending[f[1]] = f[2] /\ pc[f[2]] = "waiting")
      BY <2>1 DEF WsInv, Frames
    <3> QED
      BY <1>2, <3>1, <3>2
  <2>2. /\ wire' = wire /\ idCounter' = idCounter /\ pending' = pending
        /\ \A f \in wire : f[1] <= idCounter
    BY <1>1 DEF WsInv, Frames
  <2> QED
    BY <2>1, <2>2 DEF Frames
<1> QED
  BY <1>2, <1>4, <1>5 DEF WsInv

LEMMA WsNext == WsInv /\ [Websocket!Next]_websocketVars => WsInv'
<1> SUFFICES ASSUME WsInv, [Websocket!Next]_websocketVars PROVE WsInv'
  OBVIOUS
<1>1. CASE UNCHANGED websocketVars
  BY <1>1 DEF websocketVars, WsInv, WsTypes, Waiters, Entries, Fresh, Frames, Senders
<1> QED
  BY <1>1, LoopKeeps, DisconnectKeeps, DispatchFrameKeeps, SendCommandKeeps, SentKeeps, GivesUpKeeps,
     CancelledKeeps, ReturnsKeeps
     DEF Websocket!Next

\* An answer reaches the caller that sent its command if that caller still waits,
\* and nobody otherwise, over any number of connections (_dispatch_frame).
THEOREM AnswersReachTheirCallers == MCSpec => []AnswersAreDelivered
<1>1. MCInit => WsInv
  BY WsInit DEF MCInit
<1>2. WsInv /\ [MCNext]_allVars => WsInv'
  <2>1. [MCNext]_allVars => [Websocket!Next]_websocketVars
    BY DEF MCNext, allVars, websocketVars
  <2> QED
    BY <2>1, WsNext
<1>3. WsInv => AnswersAreDelivered
  <2> SUFFICES ASSUME WsInv, NEW f \in wire
               PROVE  LET waits == pc[f[2]] = "waiting" /\ msgId[f[2]] = f[1] /\ result[f[2]] = None
                      IN  IF waits THEN f[1] \in DOMAIN pending /\ pending[f[1]] = f[2]
                                   ELSE f[1] \in DOMAIN pending => pending[f[1]] = None
    BY DEF AnswersAreDelivered, Websocket!AnswersAreDelivered
  <2>1. f[2] \in Caller
    BY DEF WsInv, WsTypes
  <2> QED
    BY <2>1 DEF WsInv, Waiters, Entries, Frames
<1> QED
  BY <1>1, <1>2, <1>3, PTL DEF MCSpec
=============================================================================
