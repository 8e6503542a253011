---------------------------- MODULE HaWebsocket ----------------------------
(***************************************************************************)
(* The commands that collectors and API handlers send over the one         *)
(* connection to Home Assistant.  Ids of commands start again with every   *)
(* connection; a table of ids leads an answer to the caller that waits.    *)
(* Subscriptions, which nothing uses, are left out.                        *)
(***************************************************************************)
EXTENDS Integers, FiniteSets

CONSTANTS
    Caller,         \* tasks that send commands, one at a time each
    MaxConns,       \* connections
    MaxIds,         \* commands of a connection
    None

WebsocketAssumption ==
    None \notin {"answer", "unreachable", "timeout", "cancelled"} /\ None \notin Caller

VARIABLES
    loop,           \* the run loop: off, backoff, handshake or receiving
    connected,      \* what send_command looks at
    socketOpen,     \* whether the current socket works
    conns,          \* connections so far
    idCounter,
    pending,        \* the caller that waits for the answer to an id, None when it left
    wire,           \* commands Home Assistant has on the current connection
    pc, msgId,      \* each caller and the id of its command
    result

vars == <<loop, connected, socketOpen, conns, idCounter, pending, wire, pc, msgId, result>>

Put(f, k, v) == [x \in DOMAIN f \cup {k} |-> IF x = k THEN v ELSE f[x]]
Without(f, k) == [x \in DOMAIN f \ {k} |-> f[x]]
NoIds == [x \in {} |-> None]

TypeOK ==
    /\ loop \in {"off", "backoff", "handshake", "receiving"}
    /\ connected \in BOOLEAN /\ socketOpen \in BOOLEAN
    /\ conns \in 0..MaxConns /\ idCounter \in 0..MaxIds
    /\ DOMAIN pending \subseteq 1..MaxIds
    /\ \A i \in DOMAIN pending : pending[i] \in Caller \cup {None}
    /\ wire \subseteq (1..MaxIds) \X Caller
    /\ pc \in [Caller -> {"idle", "sending", "waiting"}]
    /\ msgId \in [Caller -> 0..MaxIds]
    /\ result \in [Caller -> {None, "answer", "unreachable", "timeout", "cancelled"}]

Init ==
    /\ loop = "off" /\ connected = FALSE /\ socketOpen = FALSE
    /\ conns = 0 /\ idCounter = 0
    /\ pending = NoIds /\ wire = {}
    /\ pc = [c \in Caller |-> "idle"]
    /\ msgId = [c \in Caller |-> 0]
    /\ result = [c \in Caller |-> None]

-----------------------------------------------------------------------------
(* The run loop.                                                           *)

StartTask ==
    /\ loop = "off"
    /\ loop' = "backoff"
    /\ UNCHANGED <<connected, socketOpen, conns, idCounter, pending, wire, pc, msgId, result>>

\* At least a second after the last socket was closed: by then no send on it is
\* under way any more.
Connect ==
    /\ loop = "backoff" /\ conns < MaxConns
    /\ \A c \in Caller : pc[c] # "sending"
    /\ loop' = "handshake"
    /\ conns' = conns + 1
    /\ idCounter' = 0 /\ socketOpen' = TRUE /\ wire' = {}
    /\ UNCHANGED <<connected, pending, pc, msgId, result>>

\* auth_ok
Authenticated ==
    /\ loop = "handshake" /\ socketOpen
    /\ loop' = "receiving" /\ connected' = TRUE
    /\ UNCHANGED <<socketOpen, conns, idCounter, pending, wire, pc, msgId, result>>

\* The commands of the old connection are left in the table.
KeepPending == UNCHANGED <<result, pending>>

\* Every command that waits is told, and its id is free.
FailAllPending ==
    /\ result' = [c \in Caller |->
                    IF pc[c] # "idle" /\ result[c] = None /\ \E i \in DOMAIN pending : pending[i] = c
                    THEN "unreachable" ELSE result[c]]
    /\ pending' = NoIds

\* A failed connection, handshake or authentication, or stop_task.
Disconnect ==
    /\ \/ loop = "handshake" /\ loop' \in {"backoff", "off"}
       \/ loop = "receiving" /\ ~socketOpen /\ loop' = "backoff"
       \/ loop = "receiving" /\ loop' = "off"
    /\ connected' = FALSE /\ socketOpen' = FALSE /\ wire' = {}
    /\ FailAllPending
    /\ UNCHANGED <<conns, idCounter, pc, msgId>>

\* stop_task in the wait between two connections
StopInBackoff ==
    /\ loop = "backoff"
    /\ loop' = "off"
    /\ UNCHANGED <<connected, socketOpen, conns, idCounter, pending, wire, pc, msgId, result>>

\* The peer goes away; the run loop notices later.
SocketDies ==
    /\ socketOpen
    /\ socketOpen' = FALSE /\ wire' = {}
    /\ UNCHANGED <<loop, connected, conns, idCounter, pending, pc, msgId, result>>

\* An answer comes in, to a command that may have given up (`if not fut.done()`).
DispatchFrame ==
    /\ loop = "receiving" /\ socketOpen
    /\ \E f \in wire :
        /\ wire' = wire \ {f}
        /\ pending' = Without(pending, f[1])
        /\ result' = [c \in Caller |->
                         IF f[1] \in DOMAIN pending /\ pending[f[1]] = c /\ result[c] = None
                         THEN "answer" ELSE result[c]]
    /\ UNCHANGED <<loop, connected, socketOpen, conns, idCounter, pc, msgId>>

-----------------------------------------------------------------------------
(* send_command.                                                           *)

SendCommand(c) ==
    /\ pc[c] = "idle"
    /\ IF connected
       THEN /\ idCounter < MaxIds
            /\ idCounter' = idCounter + 1
            /\ msgId' = [msgId EXCEPT ![c] = idCounter']
            /\ pending' = Put(pending, idCounter', c)
            /\ pc' = [pc EXCEPT ![c] = "sending"]
            /\ result' = [result EXCEPT ![c] = None]
       ELSE /\ result' = [result EXCEPT ![c] = "unreachable"]
            /\ UNCHANGED <<idCounter, msgId, pending, pc>>
    /\ UNCHANGED <<loop, connected, socketOpen, conns, wire>>

\* The frame is written.
Sent(c) ==
    /\ pc[c] = "sending" /\ socketOpen
    /\ pc' = [pc EXCEPT ![c] = "waiting"]
    /\ wire' = wire \cup {<<msgId[c], c>>}
    /\ UNCHANGED <<loop, connected, socketOpen, conns, idCounter, pending, msgId, result>>

\* The socket is closed: whatever became of the command, the caller is told so.
SendFails(c) ==
    /\ pc[c] = "sending" /\ ~socketOpen
    /\ pc' = [pc EXCEPT ![c] = "idle"]
    /\ pending' = Without(pending, msgId[c])
    /\ result' = [result EXCEPT ![c] = "unreachable"]
    /\ UNCHANGED <<loop, connected, socketOpen, conns, idCounter, wire, msgId>>

\* The caller has its result.
Returns(c) ==
    /\ pc[c] = "waiting" /\ result[c] # None
    /\ pc' = [pc EXCEPT ![c] = "idle"]
    /\ UNCHANGED <<loop, connected, socketOpen, conns, idCounter, pending, wire, msgId, result>>

TimesOut(c) ==
    /\ pc[c] = "waiting" /\ result[c] = None
    /\ pc' = [pc EXCEPT ![c] = "idle"]
    /\ pending' = Without(pending, msgId[c])
    /\ result' = [result EXCEPT ![c] = "timeout"]
    /\ UNCHANGED <<loop, connected, socketOpen, conns, idCounter, wire, msgId>>

\* The caller is cancelled, as a collector is by its timeout, which is shorter than the
\* command's.  Only TimeoutError takes the id from the table: the entry stays, and nobody
\* waits for it.  A frame that was being written may be on its way.
Cancelled(c) ==
    /\ pc[c] \in {"sending", "waiting"}
    /\ pc' = [pc EXCEPT ![c] = "idle"]
    /\ pending' = [i \in DOMAIN pending |-> IF pending[i] = c THEN None ELSE pending[i]]
    /\ result' = [result EXCEPT ![c] = "cancelled"]
    /\ \/ UNCHANGED wire
       \/ pc[c] = "sending" /\ socketOpen /\ wire' = wire \cup {<<msgId[c], c>>}
    /\ UNCHANGED <<loop, connected, socketOpen, conns, idCounter, msgId>>

Next ==
    \/ StartTask \/ Connect \/ Authenticated \/ Disconnect \/ StopInBackoff \/ SocketDies
    \/ DispatchFrame
    \/ \E c \in Caller : SendCommand(c) \/ Sent(c) \/ SendFails(c) \/ Returns(c) \/ TimesOut(c)
                      \/ Cancelled(c)

Spec == Init /\ [][Next]_vars

-----------------------------------------------------------------------------

\* The table leads every answer to the caller that sent the command and waits for
\* it, and to nobody else: nothing that another connection left in it takes its place,
\* and an entry that is left of a caller that was cancelled is nobody's
\* (send_command, _dispatch_frame, _fail_all_pending).
AnswersAreDelivered ==
    \A f \in wire :
        LET waits == pc[f[2]] = "waiting" /\ msgId[f[2]] = f[1] /\ result[f[2]] = None
        IN  IF waits THEN f[1] \in DOMAIN pending /\ pending[f[1]] = f[2]
                     ELSE f[1] \in DOMAIN pending => pending[f[1]] = None
=============================================================================
