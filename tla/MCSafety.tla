------------------------------ MODULE MCSafety ------------------------------
(* Components whose properties are invariants, for TLC: every collector,     *)
(* each with answers enough for its calls; a client of each kind; startup    *)
(* and shutdown; a subprocess plugin; pages of logs, the live tail, the      *)
(* event stream and the log writer; the files of fixes.  A behaviour is one  *)
(* of one component (part).  The names of AutoFix are those of the part      *)
(* "limits", with the bounds of Safety.cfg: a clock, a rate limit, a         *)
(* cooldown and a crash.                                                     *)
EXTENDS AutoFix, TLC

CONSTANTS
    Part,                       \* the components that are run
    Down, Odd, Unasked, Item, Plugin,
    Breakable,                  \* collectors that may fail to register
    r1, a1,
    Caller, MaxSids, MaxLosses,                         \* the part "sessions"
    Proc, MaxOutput, MinInterval, Durations,            \* the part "plugins"
    LogLine, MaxInstant, MaxPageSize,                   \* the part "pages"
    Req, MaxConnections, MaxPerSecond, MaxDuration,
    MaxErrors, TailFailures, TailTime, TailLines,       \* the part "tail"
    Conn, Depth, Replay, MaxSeq, Disconnect,             \* the part "events"
    Capacity, BatchSize, Written,                       \* the part "writer"
    FixRun, FixBook, Pass, KeepLastN, MaxAge, MaxDays   \* the part "files"

VARIABLES
    part,
    plugin, answers, got, fetched, registry, names, streak, quarantined, events,
    client, sid, issued, valid, authLock, closing, spc, call, losses,
    config, step, phase, degraded, registered, dockerClient, given, open, alive, ticking,
    caller, manifest, loaded, elapsed, run, proc, reader, reported,
    at, pageSize, cursor, shown,
    tailNow, log, active, req, session, enabled, status, failures, source, check, opened,
    seq, ring, subscribed, queue, conn, last, missed, eventSource, eventStatus, eventFailures, manual,
    lines, pending, flusher, batch, stored, dropped, failed, stop, early,
    days, fixPc, fixBook, dry, claimed, path, note, pruned, prunes, written, removed, before, living,
    outlived, found, intents, verdicts, restarts, pass, fixCrashes

collectorVars == <<plugin, answers, got, fetched, registry, names, streak, quarantined, events>>
sessionVars == <<client, sid, issued, valid, authLock, closing, spc, call, losses>>
lifespanVars == <<config, step, phase, degraded, registered, dockerClient, given, open, alive,
                  ticking>>
pluginVars == <<caller, manifest, loaded, elapsed, run, proc, reader, reported>>
pageVars == <<at, pageSize, cursor, shown>>
tailVars == <<tailNow, log, active, req, session, enabled, status, failures, source, check, opened>>
eventVars == <<seq, ring, subscribed, queue, conn, last, missed, eventSource, eventStatus,
               eventFailures, manual>>
writerVars == <<lines, pending, flusher, batch, stored, dropped, failed, stop, early>>
filesVars == <<days, fixPc, fixBook, dry, claimed, path, note, pruned, prunes, written, removed, before,
               living, outlived, found, intents, verdicts, restarts, pass, fixCrashes>>
allVars == <<part, vars, collectorVars, sessionVars, lifespanVars, pluginVars, pageVars,
             tailVars, eventVars, writerVars, filesVars>>

Items(first, second) == [i \in Item |-> IF i = 1 THEN first ELSE second]

\* The more calls, the fewer answers of each.
MCOffered(n) ==
    {Down} \cup
    CASE n = 1 -> {Odd} \cup [Item -> {<<>>, <<0, 1>>, <<1, -1>>, <<-1, 0>>, <<1, 1>>}]
      [] n = 2 -> {Odd, Items(<<1, 1>>, <<1, 1>>), Items(<<-1, 0>>, <<1, 0>>), Items(<<0, 1>>, <<>>)}
      [] n = 3 -> {Odd, Items(<<1, 1>>, <<1, 1>>), Items(<<1, 0>>, <<0, -1>>)}
      [] OTHER -> {Items(<<1, 1>>, <<0, -1>>)}

\* Two events between the calls of a collector that makes two.
MCEvents(n) == IF n = 2 THEN 2 ELSE 1

Collecting == INSTANCE CollectorsProofs WITH Offered <- MCOffered, Cap <- 1, Threshold <- 2,
    MaxEvents <- MCEvents, world <- answers, run <- fetched

ASSUME CollectorBounds == Collecting!CollectorsAssumption

Sessions == INSTANCE ApiSessions WITH pc <- spc

Process == INSTANCE Lifespan

ASSUME LifespanBounds == Process!LifespanAssumption

Plugins == INSTANCE PluginRuns WITH MaxLines <- MaxOutput, now <- elapsed

Pages == INSTANCE LogPages

ASSUME PagesBounds == Pages!PagesAssumption

Following == INSTANCE LiveTail WITH MaxFailures <- TailFailures, MaxTime <- TailTime, MaxLines <- TailLines,
    now <- tailNow

ASSUME TailBounds == Following!TailAssumption

Stream == INSTANCE EventBroker WITH MaxFailures <- 1,
    source <- eventSource, status <- eventStatus, failures <- eventFailures

ASSUME StreamBounds == Stream!BrokerAssumption

Writer == INSTANCE LogWriter WITH MaxLines <- Written, queue <- pending

ASSUME WriterBounds == Writer!WriterAssumption

Files == INSTANCE RunFiles WITH Run <- FixRun, Runbook <- FixBook, MaxTime <- MaxDays,
    clock <- days, pc <- fixPc, book <- fixBook, started <- claimed, crashes <- fixCrashes

ASSUME FilesBounds == Files!FilesAssumption

\* Either time passes or the monitor crashes; a dry run or intents in a behaviour of
\* one run only.
Small ==
    /\ days + fixCrashes <= 1
    /\ \/ \A r \in FixRun : ~dry[r] /\ intents[r] = None
       \/ \A r \in FixRun \ {1} : fixPc[r] = "new"

\* The alert matches the one runbook.
Matched == a1 :> {r1}

\* The components that do not move start in one state.
MCInit ==
    /\ part \in Part
    /\ Collecting!Init
    /\ part # "collectors" =>
        plugin = "ha_up" /\ answers = [k \in DOMAIN answers |-> Down]
    /\ Sessions!Init /\ (part # "sessions" => client = "ha")
    /\ Process!Init /\ (part # "lifespan" => config = {} /\ degraded = {})
    /\ Plugins!Init
    /\ part # "plugins" =>
        caller = "test" /\ manifest = [interval |-> 1, timeout |-> 1, executable |-> TRUE]
    /\ Pages!Init /\ (part # "pages" => pageSize = 1 /\ \A l \in LogLine : at[l] = 1)
    /\ Following!Init
    /\ Stream!Init /\ Writer!Init /\ Files!Init
    /\ Init /\ (part # "limits" => autofixEnabled)

MCNext ==
    \/ part = "limits" /\ Next
       /\ UNCHANGED <<part, collectorVars, sessionVars, lifespanVars, pluginVars, pageVars, tailVars,
                      eventVars, writerVars, filesVars>>
    \/ part = "collectors" /\ Collecting!Next
       /\ UNCHANGED <<part, vars, sessionVars, lifespanVars, pluginVars, pageVars, tailVars,
                      eventVars, writerVars, filesVars>>
    \/ part = "sessions" /\ Sessions!Next
       /\ UNCHANGED <<part, vars, collectorVars, lifespanVars, pluginVars, pageVars, tailVars,
                      eventVars, writerVars, filesVars>>
    \/ part = "lifespan" /\ Process!Next
       /\ UNCHANGED <<part, vars, collectorVars, sessionVars, pluginVars, pageVars, tailVars,
                      eventVars, writerVars, filesVars>>
    \/ part = "plugins" /\ Plugins!Next
       /\ UNCHANGED <<part, vars, collectorVars, sessionVars, lifespanVars, pageVars, tailVars,
                      eventVars, writerVars, filesVars>>
    \/ part = "pages" /\ Pages!Next
       /\ UNCHANGED <<part, vars, collectorVars, sessionVars, lifespanVars, pluginVars, tailVars,
                      eventVars, writerVars, filesVars>>
    \/ part = "tail" /\ Following!Next
       /\ UNCHANGED <<part, vars, collectorVars, sessionVars, lifespanVars, pluginVars, pageVars,
                      eventVars, writerVars, filesVars>>
    \/ part = "events" /\ Stream!Next
       /\ UNCHANGED <<part, vars, collectorVars, sessionVars, lifespanVars, pluginVars, pageVars,
                      tailVars, writerVars, filesVars>>
    \/ part = "writer" /\ Writer!Next
       /\ UNCHANGED <<part, vars, collectorVars, sessionVars, lifespanVars, pluginVars, pageVars,
                      tailVars, eventVars, filesVars>>
    \/ part = "files" /\ Files!Next /\ Small'
       /\ UNCHANGED <<part, vars, collectorVars, sessionVars, lifespanVars, pluginVars, pageVars,
                      tailVars, eventVars, writerVars>>
    \/ part = "files" /\ (\A r \in FixRun : fixPc[r] \in {"new", "done", "lost"})
       /\ UNCHANGED allVars                                  \* no fix is under way
    \/ part = "writer" /\ flusher = "done" /\ UNCHANGED allVars
    \/ part = "pages" /\ ~cursor.more /\ UNCHANGED allVars    \* nothing is left to load

MCSpec == MCInit /\ [][MCNext]_allVars

\* Tasks and run ids are interchangeable.
Interchangeable == Permutations(Task) \cup Permutations(RunId)

----------------------------------------------------------------------------

\* A service that answers nothing is noticed (the ok of every collector), and a run that
\* finds everything as it should be leaves no gauge that shows the service down.
HealthIsShown ==
    part = "collectors" => Collecting!OutageIsNoticed /\ Collecting!RecoveryIsSeen

\* What a call brings is written also when other calls of the run fail.
CallsAreIndependent == part = "collectors" => Collecting!CallsAreIndependent

\* A session that was lost before a call is replaced behind its back (_request).
OneLossIsHidden == part = "sessions" => Sessions!OneLossIsHidden

\* A client is open while something works with it, and everything is stopped in the
\* end (lifespan.py).
UsersHaveTheirClients == part = "lifespan" => Process!UsersHaveTheirClients

\* "Load older" shows every line once, also lines of one instant (pagination.py), so does
\* the live tail with what it does not count as dropped (tail_service.py), the event
\* stream skips nothing without a word (sse.py), and the log writer loses no line that it
\* does not count (vl_writer.py).
LinesAreExact ==
    /\ part = "pages" => Pages!PagesAreExact
    /\ part = "tail" => Following!TailIsExact
    /\ part = "events" => Stream!EventsAreConsecutive
    /\ part = "writer" => Writer!LinesAreAccountedFor

\* A plugin's run is reported ok only if its process said so and exited with 0, and
\* all its metrics are recorded (subprocess_runner.py).
SuccessIsEarned == part = "plugins" => Plugins!SuccessIsEarned

\* What is stored with a fix is its own, the rotator keeps the newest transcripts and
\* audits the others, and intents are decided one by one (_resolve_transcript,
\* _rotate_locked, _execute_intents).
RunFilesAreSound ==
    part = "files" => /\ Files!FilesAreAttributed
                      /\ Files!NewestAreKept
                      /\ Files!PrunesAreAudited
                      /\ Files!IntentsAreDecided
=============================================================================
