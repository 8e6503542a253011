---------------------------- MODULE ApiSessions ----------------------------
(***************************************************************************)
(* The clients of Pi-hole and DSM (Synology), which log in and reuse a     *)
(* session id, and those of Home Assistant and the UniFi controller, which *)
(* send a key with every request.  Collectors and API handlers call a      *)
(* client at the same time.  The service forgets sessions when it likes.   *)
(***************************************************************************)
EXTENDS Integers, FiniteSets

CONSTANTS
    Caller,         \* tasks that use the client
    MaxSids,        \* sessions the service hands out
    MaxLosses,      \* sessions it forgets
    None

NoSid == 0

VARIABLES
    client,         \* whose client this is
    sid,            \* the session id the client holds
    issued,         \* the last id handed out
    valid,          \* ids the service accepts
    authLock,       \* the caller that holds the lock of logins
    closing,        \* the id that is being logged out
    pc,             \* where each caller is
    call,           \* the call it makes
    losses          \* sessions forgotten so far

vars == <<client, sid, issued, valid, authLock, closing, pc, call, losses>>

\* stream: the gravity rebuild.  retry: logged in again.  failed: the id that was
\* refused, as read when the refusal came in.  sent: the id that went out.
Idle == [stream |-> FALSE, retry |-> FALSE, failed |-> NoSid, sent |-> NoSid,
         since |-> 0, result |-> None]

HasSession == client \in {"pihole", "synology"}

-----------------------------------------------------------------------------

\* reset: a connection that breaks in mid-answer.
Faults == {"refused", "slow", "reset", "too many", "failed"}

\* What the service says to a request that carries session id s.  expired and
\* denied are answers with status 200 and an error inside.
Answers(s) ==
    Faults \cup
    (IF HasSession /\ s \notin valid
     THEN IF client = "pihole" THEN {"unauthorized", "expired"} ELSE {"expired"}
     ELSE {"fine", "denied", "garbled"} \cup (IF HasSession THEN {} ELSE {"unauthorized"}))

\* Only failures to connect and timeouts are caught.
Transport(a) ==
    CASE a = "refused" -> "unreachable"
      [] a = "slow" -> "timeout"
      [] a = "reset" -> "raised"
      [] OTHER -> "none"

\* Pi-hole: an answer that is not JSON passes here and fails in the caller (_get).
ClassifyResponse(a) ==
    CASE a \in {"unauthorized", "expired"} -> "needs_reauth"
      [] a = "too many" -> "rate_limited"
      [] a = "failed" -> "http_error"
      [] a \in {"denied", "garbled"} -> "bad_response"
      [] OTHER -> "ok"

\* The rebuild of gravity looks at the status only; what is streamed is its log.
GravityUpdate(a) ==
    CASE a = "unauthorized" -> "needs_reauth"
      [] a = "too many" -> "rate_limited"
      [] a = "failed" -> "http_error"
      [] OTHER -> "ok"

\* DSM answers errors with status 200 and a code.
DoGet(a) ==
    CASE a = "expired" -> "needs_reauth"
      [] a = "denied" -> "api_error"
      [] a = "too many" -> "rate_limited"
      [] a = "failed" -> "http_error"
      [] a = "garbled" -> "bad_response"
      [] OTHER -> "ok"

UnifiRequest(a) ==
    CASE a = "unauthorized" -> "auth"
      [] a = "too many" -> "rate_limited"
      [] a = "failed" -> "http_error"
      [] a = "garbled" -> "bad_response"
      [] OTHER -> "ok"

\* Home Assistant: 429 is a status like any other.
HaRequest(a) ==
    CASE a = "unauthorized" -> "auth"
      [] a \in {"too many", "failed"} -> "http_error"
      [] a = "garbled" -> "bad_response"
      [] OTHER -> "ok"

Classify(a, stream) ==
    IF Transport(a) # "none" THEN Transport(a)
    ELSE CASE client = "pihole" /\ stream -> GravityUpdate(a)
           [] client = "pihole" -> ClassifyResponse(a)
           [] client = "synology" -> DoGet(a)
           [] client = "unifi" -> UnifiRequest(a)
           [] OTHER -> HaRequest(a)

LoginErrors == {"unreachable", "timeout", "raised", "rate_limited", "bad_response", "auth"}

-----------------------------------------------------------------------------

TypeOK ==
    /\ client \in {"pihole", "synology", "unifi", "ha"}
    /\ sid \in 0..issued /\ issued \in 0..MaxSids /\ valid \subseteq 1..issued
    /\ authLock \in Caller \cup {None}
    /\ closing \in 0..issued
    /\ pc \in [Caller -> {"idle", "ensure", "login", "send", "sent", "ended"}]
    /\ call \in [Caller -> [stream : BOOLEAN, retry : BOOLEAN, failed : 0..issued,
                           sent : 0..issued, since : 0..losses,
                           result : {None, "ok", "api_error", "http_error"} \cup LoginErrors]]
    /\ losses \in 0..MaxLosses

Init ==
    /\ client \in {"pihole", "synology", "unifi", "ha"}
    /\ sid = NoSid /\ issued = 0 /\ valid = {}
    /\ authLock = None
    /\ closing = NoSid
    /\ pc = [c \in Caller |-> "idle"]
    /\ call = [c \in Caller |-> Idle]
    /\ losses = 0

Ends(c, r) ==
    /\ pc' = [pc EXCEPT ![c] = "ended"]
    /\ call' = [call EXCEPT ![c] = [Idle EXCEPT !.since = call[c].since, !.result = r]]

\* A new call logs in first when the client holds no session.
Request(c, stream) ==
    /\ pc[c] \in {"idle", "ended"}
    /\ stream => client = "pihole"
    /\ pc' = [pc EXCEPT ![c] = IF HasSession /\ sid = NoSid THEN "ensure" ELSE "send"]
    /\ call' = [call EXCEPT ![c] = [Idle EXCEPT !.stream = stream, !.since = losses]]
    /\ UNCHANGED <<client, sid, issued, valid, authLock, closing, losses>>

\* A caller that had to wait takes any session.
EnsureAnySession(c) ==
    /\ pc[c] = "ensure"
    /\ authLock = None
    /\ IF sid # NoSid
       THEN pc' = [pc EXCEPT ![c] = "send"] /\ UNCHANGED authLock
       ELSE pc' = [pc EXCEPT ![c] = "login"] /\ authLock' = c
    /\ UNCHANGED <<client, sid, issued, valid, closing, call, losses>>

\* With the lock: another caller may have logged in meanwhile.
EnsureSession(c) ==
    /\ pc[c] = "ensure"
    /\ authLock = None
    /\ IF sid # NoSid /\ sid # call[c].failed
       THEN pc' = [pc EXCEPT ![c] = "send"] /\ UNCHANGED authLock
       ELSE pc' = [pc EXCEPT ![c] = "login"] /\ authLock' = c
    /\ UNCHANGED <<client, sid, issued, valid, closing, call, losses>>

Login(c) ==
    /\ pc[c] = "login"
    /\ authLock' = None
    /\ \/ /\ issued < MaxSids
          /\ issued' = issued + 1
          /\ sid' = issued' /\ valid' = valid \cup {issued'}
          /\ pc' = [pc EXCEPT ![c] = "send"]
          /\ UNCHANGED call
       \/ /\ \E r \in LoginErrors : Ends(c, r)
          /\ UNCHANGED <<sid, issued, valid>>
    /\ UNCHANGED <<client, closing, losses>>

\* The request carries the id the client holds at that moment.
DoRequest(c) ==
    /\ pc[c] = "send"
    /\ pc' = [pc EXCEPT ![c] = "sent"]
    /\ call' = [call EXCEPT ![c].sent = sid]
    /\ UNCHANGED <<client, sid, issued, valid, authLock, closing, losses>>

\* One refusal is answered with a login and a second attempt.
Respond(c) ==
    /\ pc[c] = "sent"
    /\ \E a \in Answers(call[c].sent) :
        LET outcome == Classify(a, call[c].stream)
        IN  IF outcome # "needs_reauth" THEN Ends(c, outcome)
            ELSE IF call[c].retry THEN Ends(c, "auth")
            ELSE /\ pc' = [pc EXCEPT ![c] = "ensure"]
                 /\ call' = [call EXCEPT ![c].retry = TRUE, ![c].failed = sid]
    /\ UNCHANGED <<client, sid, issued, valid, authLock, closing, losses>>

\* The service forgets a session.
Expire(s) ==
    /\ losses < MaxLosses
    /\ valid' = valid \ {s}
    /\ losses' = losses + 1
    /\ UNCHANGED <<client, sid, issued, authLock, closing, pc, call>>

\* Logout at shutdown; errors do not matter.
CloseStarts ==
    /\ sid # NoSid /\ closing = NoSid
    /\ closing' = sid
    /\ UNCHANGED <<client, sid, issued, valid, authLock, pc, call, losses>>

CloseEnds ==
    /\ closing # NoSid
    /\ losses < MaxLosses
    /\ closing' = NoSid /\ sid' = NoSid
    /\ valid' \in {valid, valid \ {closing}}
    /\ losses' = losses + 1
    /\ UNCHANGED <<client, issued, authLock, pc, call>>

Next ==
    \/ \E c \in Caller :
        \/ \E stream \in BOOLEAN : Request(c, stream)
        \/ EnsureSession(c) \/ Login(c) \/ DoRequest(c) \/ Respond(c)
    \/ \E s \in valid : Expire(s)
    \/ CloseStarts
    \/ CloseEnds

Spec == Init /\ [][Next]_vars

-----------------------------------------------------------------------------

\* A call ends with "unauthorized after re-auth" only if a session was lost while
\* it ran: an id that was stale before is replaced behind its back, whatever the
\* other callers do (_request, _get).
OneLossIsHidden ==
    \A c \in Caller : HasSession /\ pc[c] = "sent" /\ call[c].retry /\ call[c].sent \notin valid
        => losses > call[c].since
=============================================================================
