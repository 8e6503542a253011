------------------------------ MODULE MCDocker ------------------------------
(* The services that the monitor works with, for TLC: docker (ComposeAction, *)
(* with the names it has there, DockerProbes, ContainerHealth, ImageUpdates) *)
(* and Home Assistant (HaWebsocket).  A behaviour is one of one of them      *)
(* (part) while the others stay in their initial state.                      *)
EXTENDS ComposeAction

CONSTANTS
    Skip,
    Key, MaxChanges, MaxLosses,
    MaxTime, Retention, MaxRows, MaxIds, MaxEvents,
    Caller, MaxConns, MaxCommands

VARIABLES
    part,
    docker, stream, worker, file, parsed, owned, probes, sugg, deciding, listed, tasks, changes, losses,
    clock, real, gathered, row, synced, crash, incident, crashes, incidents, crashTotal, starts, happened,
    kind, present, imageId, src, since, context, pulled, registry, limited, imageRow, buildRow, job,
    compose, building, imageChanges,
    loop, connected, socketOpen, conns, idCounter, pending, wire, pc, msgId, result

Probes == INSTANCE DockerProbes
Health == INSTANCE ContainerHealth
Images == INSTANCE ImageUpdates WITH changes <- imageChanges
Websocket == INSTANCE HaWebsocket WITH MaxIds <- MaxCommands

ASSUME WebsocketBounds == Websocket!WebsocketAssumption

probeVars == <<docker, stream, worker, file, parsed, owned, probes, sugg, deciding, listed, tasks,
               changes, losses>>
healthVars == <<clock, real, gathered, row, synced, crash, incident, crashes, incidents, crashTotal,
                starts, happened>>
imageVars == <<kind, present, imageId, src, since, context, pulled, registry, limited, imageRow,
               buildRow, job, compose, building, imageChanges>>
websocketVars == <<loop, connected, socketOpen, conns, idCounter, pending, wire, pc, msgId, result>>
allVars == <<part, vars, probeVars, healthVars, imageVars, websocketVars>>

MCInit ==
    /\ part \in {"compose", "probes", "health", "images", "websocket"}
    /\ Init /\ Probes!Init /\ Health!Init /\ Images!Init /\ Websocket!Init
    /\ part # "images" => kind = "built"

MCNext ==
    \/ part = "compose" /\ Next /\ UNCHANGED <<part, probeVars, healthVars, imageVars, websocketVars>>
    \/ part = "probes" /\ Probes!Next /\ UNCHANGED <<part, vars, healthVars, imageVars, websocketVars>>
    \/ part = "health" /\ Health!Next /\ UNCHANGED <<part, vars, probeVars, imageVars, websocketVars>>
    \/ part = "images" /\ Images!Next /\ UNCHANGED <<part, vars, probeVars, healthVars, websocketVars>>
    \/ part = "websocket" /\ Websocket!Next /\ UNCHANGED <<part, vars, probeVars, healthVars, imageVars>>

\* The fairness of each component, while it is the one that moves.
MCFairness ==
    /\ \A a \in Action : WF_vars(part = "compose" /\ TaskStep(a))
    /\ \A c \in Container : SF_probeVars(part = "probes" /\ Probes!ScanInspect(c))
    /\ \A w \in Probes!Worker : WF_probeVars(part = "probes" /\ Probes!Upsert(w))
    /\ WF_probeVars(part = "probes" /\ (Probes!EventInspect \/ Probes!DestroyEvent))
    /\ WF_probeVars(part = "probes" /\ Probes!ReadFiles)
    /\ WF_probeVars(part = "probes" /\ Probes!ApplyFiles)
    /\ WF_probeVars(part = "probes" /\ \E kept \in SUBSET Key : Probes!Accept(kept))
    /\ WF_probeVars(part = "probes" /\ Probes!ListWanted)
    /\ WF_probeVars(part = "probes" /\ Probes!Reconcile)
    /\ WF_healthVars(part = "health" /\ Health!Tick)
    /\ WF_healthVars(part = "health" /\ Health!Inspect(TRUE))
    /\ WF_healthVars(part = "health" /\ Health!WriteTargets)
    /\ WF_healthVars(part = "health" /\ (Health!ListCrashed \/ Health!InsertCrash))
    /\ WF_healthVars(part = "health" /\ (Health!ListUnhealthy \/ Health!InsertIncident))

    /\ \A j \in {"image", "build"} : SF_imageVars(part = "images" /\ Images!Tick(j))
    /\ SF_imageVars(part = "images" /\ Images!ReadAndHash("build"))
    /\ WF_imageVars(part = "images" /\ Images!ReadAndHash("refresh"))
    /\ SF_imageVars(part = "images" /\ ~limited /\ Images!Fetches("image", registry))
    /\ WF_imageVars(part = "images" /\ \E latest \in Images!Fetched : Images!Fetches("refresh", latest))
    /\ WF_imageVars(part = "images" /\ Images!RateLimitPasses)
    /\ \A j \in Images!Job : WF_imageVars(part = "images" /\ Images!Write(j))
    /\ WF_imageVars(part = "images" /\ (Images!Refresh \/ Images!UpStarts \/ Images!UpEnds))

MCSpec == MCInit /\ [][MCNext]_allVars /\ MCFairness

----------------------------------------------------------------------------

\* Types of the components.
TypesOK == TypeOK /\ Probes!TypeOK /\ Health!TypeOK /\ Images!TypeOK /\ Websocket!TypeOK

\* Once changes stop, probes and probe tasks are those that files and labels ask for.
ProbesConverge == part = "probes" => Probes!ProbesConverge

\* One healthcheck incident per unhealthy spell (container_healthcheck_reconciler.py).
IncidentsAreSpells == Health!IncidentsAreSpells

\* An answer of Home Assistant reaches the caller that waits for it (websocket.py).
AnswersAreDelivered == Websocket!AnswersAreDelivered

\* A container that crashes and stays down is counted (container_crash_reconciler.py).
CrashesAreCounted == part = "health" => Health!CrashesAreCounted

\* Once nothing changes any more, the update badge of the container is right
\* (image_update_collector.py, local_build_update_collector.py).
BadgesSettle == part = "images" => Images!BadgesSettle
=============================================================================
