---------------------------- MODULE EventBroker ----------------------------
(***************************************************************************)
(* The event stream: the broker (api/sse.py) that hands the events of      *)
(* ticks and alerts to the requests for GET /events, and one tab that      *)
(* shows the latest (ui/src/lib/sse.ts).  Events are their numbers.        *)
(***************************************************************************)
EXTENDS Naturals, Sequences

CONSTANTS
    Conn,           \* connections that are not over yet
    Depth,          \* queue_maxsize
    Replay,         \* replay_capacity
    MaxSeq,         \* bound on the events
    MaxFailures,    \* bound on the failures that the tab counts
    Disconnect,     \* SseDisconnect
    None

\* What an instance assumes of the constants.
BrokerAssumption ==
    /\ Depth \in Nat \ {0} /\ Replay \in 0..Depth /\ MaxSeq \in Nat
    /\ Disconnect \notin Nat /\ None \notin Conn

VARIABLES
    seq, ring,                          \* _seq and _ring
    subscribed,                         \* connections whose queue is in _subscribers
    queue,
    conn,                               \* where the request of a connection is
    last,                               \* the event that was sent last on a connection
    missed,                             \* events that were gone from the ring before it subscribed
    source, status, failures, manual    \* the tab

broker == <<seq, ring, subscribed, queue>>
tab == <<source, status, failures, manual>>
vars == <<broker, conn, last, missed, tab>>

TypeOK ==
    /\ seq \in 0..MaxSeq /\ ring \in Seq(1..seq) /\ Len(ring) <= Replay
    /\ subscribed \subseteq Conn
    /\ queue \in [Conn -> Seq(1..seq \cup {Disconnect})]
    /\ \A c \in Conn : Len(queue[c]) <= Depth
    /\ conn \in [Conn -> {"free", "requested", "live", "left"}]
    /\ last \in [Conn -> 0..seq] /\ missed \in [Conn -> 0..seq]
    /\ source \in Conn \cup {None} /\ status \in {"idle", "connecting", "open", "error"}
    /\ failures \in 0..MaxFailures /\ manual \in BOOLEAN

Init ==
    /\ seq = 0 /\ ring = <<>> /\ subscribed = {}
    /\ queue = [c \in Conn |-> <<>>]
    /\ conn = [c \in Conn |-> "free"]
    /\ last = [c \in Conn |-> 0] /\ missed = [c \in Conn |-> 0]
    /\ source = None /\ status = "idle" /\ failures = 0 /\ manual = FALSE

-----------------------------------------------------------------------------
(* The broker, whose lock makes each of these steps one.                   *)

Full == {c \in subscribed : Len(queue[c]) = Depth}

\* A queue that is full loses its oldest event, and no word about it.
DeliveredToAll(c) ==
    CASE c \in Full -> Append(Tail(queue[c]), seq + 1)
      [] c \in subscribed \ Full -> Append(queue[c], seq + 1)
      [] OTHER -> queue[c]

\* A queue that is full loses its oldest event for the news that there will be no more.
Delivered(c) ==
    CASE c \in Full -> Append(Tail(queue[c]), Disconnect)
      [] c \in subscribed \ Full -> Append(queue[c], seq + 1)
      [] OTHER -> queue[c]

Publish ==
    /\ seq < MaxSeq
    /\ seq' = seq + 1
    /\ ring' = LET r == Append(ring, seq + 1)
               IN  IF Len(r) > Replay THEN Tail(r) ELSE r
    /\ queue' = [c \in Conn |-> Delivered(c)]
    /\ subscribed' = subscribed \ Full
    /\ UNCHANGED <<conn, last, missed, tab>>

\* No event is published between the replay and the joining.
Subscribe(c) ==
    /\ conn[c] = "requested"
    /\ conn' = [conn EXCEPT ![c] = "live"]
    /\ queue' = [queue EXCEPT ![c] = ring]
    /\ subscribed' = subscribed \cup {c}
    /\ missed' = [missed EXCEPT ![c] = seq - Len(ring)]
    /\ UNCHANGED <<seq, ring, last, tab>>

\* gen yields an event to a client that reads it.
Send(c) ==
    /\ conn[c] = "live" /\ queue[c] # <<>> /\ Head(queue[c]) # Disconnect
    /\ queue' = [queue EXCEPT ![c] = Tail(@)]
    /\ last' = [last EXCEPT ![c] = Head(queue[c])]
    /\ UNCHANGED <<seq, ring, subscribed, conn, missed, tab>>

\* The generator of a client that left is finalized some time later.
Discard(c) ==
    /\ conn[c] = "left"
    /\ conn' = [conn EXCEPT ![c] = "free"]
    /\ subscribed' = subscribed \ {c}
    /\ queue' = [queue EXCEPT ![c] = <<>>]
    /\ last' = [last EXCEPT ![c] = 0]
    /\ missed' = [missed EXCEPT ![c] = 0]
    /\ UNCHANGED <<seq, ring, tab>>

-----------------------------------------------------------------------------
(* The tab.                                                                *)

\* The source that was open is closed for the new one.
Opens(c) ==
    /\ conn[c] = "free"
    /\ conn' = [d \in Conn |-> IF d = c THEN "requested" ELSE IF d = source THEN "left" ELSE conn[d]]
    /\ source' = c /\ status' = "connecting"

Mount(c) ==
    /\ status = "idle" /\ Opens(c)
    /\ UNCHANGED <<broker, last, missed, failures, manual>>

\* After the backoff.
Retry(c) ==
    /\ status = "error" /\ failures > 0 /\ Opens(c)
    /\ UNCHANGED <<broker, last, missed, failures, manual>>

Reconnect(c) ==
    /\ status # "idle" /\ Opens(c)
    /\ failures' = 0 /\ manual' = TRUE
    /\ UNCHANGED <<broker, last, missed>>

Opened ==
    /\ status = "connecting" /\ conn[source] = "live"
    /\ status' = "open" /\ failures' = 0 /\ manual' = FALSE
    /\ UNCHANGED <<broker, conn, last, missed, source>>

\* One failure after the user's own attempt is not counted, and not retried.
SourceFails ==
    /\ source' = None /\ status' = "error" /\ manual' = FALSE
    /\ failures' = IF manual \/ failures = MaxFailures THEN failures ELSE failures + 1

\* The connection breaks, or the broker gives it up; the client takes both for an error.
Breaks ==
    /\ source # None
    /\ conn' = [conn EXCEPT ![source] = "left"]
    /\ SourceFails
    /\ UNCHANGED <<broker, last, missed>>

KickedOut(c) ==
    /\ conn[c] = "live" /\ queue[c] # <<>> /\ Head(queue[c]) = Disconnect
    /\ conn' = [conn EXCEPT ![c] = "left"]
    /\ SourceFails
    /\ UNCHANGED <<broker, last, missed>>

Next ==
    \/ Publish \/ Opened \/ Breaks
    \/ \E c \in Conn : \/ Subscribe(c) \/ Send(c) \/ Discard(c) \/ KickedOut(c)
                       \/ Mount(c) \/ Retry(c) \/ Reconnect(c)

Spec == Init /\ [][Next]_vars

-----------------------------------------------------------------------------

\* What was sent on a connection and what waits for it are consecutive, from the oldest
\* event that could be replayed to the newest; a connection that gets no more events will
\* be told so (publish, subscribe).
EventsAreConsecutive ==
    \A c \in Conn : conn[c] = "live" =>
        IF c \in subscribed
        THEN /\ \A i \in DOMAIN queue[c] : queue[c][i] = seq - Len(queue[c]) + i
             /\ seq - Len(queue[c]) = IF last[c] = 0 THEN missed[c] ELSE last[c]
        ELSE queue[c] # <<>> /\ queue[c][Len(queue[c])] = Disconnect
=============================================================================
