------------------------------ MODULE Lifespan ------------------------------
(***************************************************************************)
(* Startup and shutdown of the process (lifespan.py): the order in which   *)
(* clients are opened and background tasks started, stopped and closed,    *)
(* with collectors that tick from the start of the scheduler on and        *)
(* requests that are served in between.                                    *)
(***************************************************************************)
EXTENDS Naturals, Sequences, FiniteSets

CONSTANTS
    Breakable,      \* collectors that may fail to register
    None

VARIABLES
    config,         \* which of docker, Home Assistant and the drain are configured
    step,           \* steps of Boot or of Shutdown that are done
    phase,          \* boot, up, stopping, down or aborted
    degraded,       \* collectors that failed to register
    registered,
    dockerClient,   \* app.state.docker_socket_client
    given,          \* the docker client that each collector was given
    open,           \* clients that are open
    alive,          \* background tasks and those of requests
    ticking         \* collectors whose run is under way

vars == <<config, step, phase, degraded, registered, dockerClient, given, open, alive, ticking>>

Option == {"docker", "home_assistant", "drain"}

-----------------------------------------------------------------------------
(* The collectors, in the order in which they register.                    *)

HostAndLogs == {"noop", "host", "self_disk", "watched_dir_size", "synology_mount_health",
                "log_stream_budget", "log_error_rate", "vl_health"}

Reconcilers == {"tail_metrics", "cron_discoverer", "heartbeat_state", "cron_run_reconciler",
                "container_crash_reconciler", "container_healthcheck_reconciler",
                "karma_outcome_reconciler", "redaction_audit"}

\* The two that read the docker socket are left out where docker is off.
DockerAndUpdates(c) ==
    (IF "docker" \in c THEN {"docker_socket", "docker_discoverer"} ELSE {}) \cup
    {"docker_probes_supervisor", "image_update_checker", "local_build_update_checker",
     "new_signature", "silence_detection"}

\* The collectors of an integration register one by one behind its name.
Integrations == {"homeassistant", "ssh", "unifi", "pihole", "unbound_stats", "synology",
                 "subprocess"}

Builtins(c) == HostAndLogs \cup Reconcilers \cup DockerAndUpdates(c)

\* A collector that cannot register is skipped.
LoadAll(c, broken) == (Builtins(c) \cup Integrations) \ broken

\* Everything a run gets from ctx_factory.
ContextClients == {"engine", "http", "unifi_http", "synology_http"}

\* Collectors that get the docker client put into them before the scheduler starts.
OfDocker == {"docker_socket", "docker_discoverer", "docker_probes_supervisor", "unbound_stats"}
OfUpdates == {"image_update_checker", "local_build_update_checker"}
Docked == OfDocker \cup OfUpdates

\* docker_socket brings a client of its own, and those after it get that one.
WireDocker(loaded, client) ==
    IF "docker_socket" \in loaded THEN "docker_of_collectors" ELSE client

-----------------------------------------------------------------------------
(* The order of things.  A step opens a client, starts a task, or does the *)
(* work of its own name.                                                   *)

Client == {"engine", "http", "unifi_http", "synology_http", "docker_of_actions",
           "docker_of_collectors"}

\* What an instance assumes of the constants.
LifespanAssumption == None \notin Client

Core == <<"engine", "migrations", "secrets_refresh">>
Loading == <<"register", "persist">>
Clients == <<"http", "unifi_http", "synology_http">>
Writers == <<"ha_websocket", "ha_registry", "log_flusher", "clear_quarantine">>
DockerActions == <<"build_sources", "docker_of_actions">>
Loops == <<"docker_events", "probe_loops", "image_events", "override_loader">>
FirstRuns == <<"drain", "first_runs", "transcript_rotation">>
Rendering == <<"alertmanager", "vector", "user_rules">>

\* Mutant: what writes over HTTP starts before the clients are open.
WritersFirst == Core \o Loading \o Writers \o Clients \o DockerActions \o <<"wire", "scheduler">> \o
                Loops \o FirstRuns \o Rendering

Boot == Core \o Loading \o Clients \o Writers \o DockerActions \o <<"wire", "scheduler">> \o
        Loops \o FirstRuns \o Rendering

StopTasks == <<"drain", "override_loader", "build_sources", "compose", "probe_loops",
               "docker_events", "image_events", "auto_fix", "transcript_rotation",
               "ha_registry", "ha_websocket", "scheduler", "secrets_refresh", "log_flusher">>
Logouts == <<"pihole_logout", "pihole_rw_logout", "synology_logout">>
CloseClients == <<"http", "unifi_http", "synology_http", "docker", "engine">>

Shutdown == StopTasks \o Logouts \o CloseClients

\* What a task or a logout works with.  The image refresh of a compose action asks
\* a registry.
Uses(t) ==
    CASE t \in {"secrets_refresh"} -> {"engine"}
      [] t = "drain" -> {"engine", "http"}
      [] t = "log_flusher" -> {"http"}
      [] t \in {"override_loader", "docker_events", "auto_fix", "transcript_rotation"} ->
            {"engine", dockerClient}
      [] t = "image_events" -> {dockerClient}
      [] t = "probe_loops" ->
            {"engine", "http"} \cup ({given["docker_probes_supervisor"]} \ {None})
      [] t = "compose" -> {"engine", "http", "docker_of_actions"} \cup
            ({given[c] : c \in OfUpdates} \ {None})
      [] t \in {"pihole_logout", "pihole_rw_logout"} -> {"http"}
      [] t = "synology_logout" -> {"synology_http"}
      [] OTHER -> {}

UsesOfTick(c) == ContextClients \cup (IF c \in Docked THEN {given[c]} \ {None} ELSE {})

\* Whether a step of the boot is taken at all.
Enabled(s) ==
    CASE s = "docker_of_actions" -> "docker" \in config
      [] s \in {"ha_websocket", "ha_registry"} -> "home_assistant" \in config
      [] s = "docker_events" -> "docker_discoverer" \in registered
      [] s = "probe_loops" -> "docker_probes_supervisor" \in registered
      [] s = "image_events" ->
            dockerClient # None /\ "docker" \in config /\ "image_update_checker" \in registered
      [] s = "override_loader" -> "docker" \in config
      [] s = "drain" -> "drain" \in config
      [] s = "transcript_rotation" -> dockerClient # None
      [] OTHER -> TRUE

BackgroundTask == {"secrets_refresh", "ha_websocket", "ha_registry", "log_flusher", "build_sources",
         "docker_events", "probe_loops", "image_events", "override_loader", "drain",
         "transcript_rotation", "scheduler"}
OfRequests == {"compose", "auto_fix"}

TypeOK ==
    /\ config \subseteq Option
    /\ phase \in {"boot", "up", "stopping", "down", "aborted"}
    /\ step \in 0..Len(Boot)
    /\ degraded \subseteq Breakable
    /\ registered \subseteq Builtins(Option) \cup Integrations
    /\ dockerClient \in Client \cup {None}
    /\ given \in [Docked -> Client \cup {None}]
    /\ open \subseteq Client
    /\ alive \subseteq BackgroundTask \cup OfRequests
    /\ ticking \subseteq registered

Init ==
    /\ config \in SUBSET Option
    /\ step = 0 /\ phase = "boot"
    /\ degraded \in {{}} \cup {{c} : c \in Breakable}
    /\ registered = {}
    /\ dockerClient = None
    /\ given = [c \in Docked |-> None]
    /\ open = {} /\ alive = {} /\ ticking = {}

-----------------------------------------------------------------------------
(* Boot.                                                                   *)

Opens(s) ==
    /\ open' = open \cup {s}
    /\ dockerClient' = IF s = "docker_of_actions" THEN s ELSE dockerClient
    /\ UNCHANGED <<registered, given, alive>>

Register ==
    /\ registered' = LoadAll(config, degraded)
    /\ UNCHANGED <<dockerClient, given, open, alive>>

\* In one go, with nothing awaited.
Wire ==
    LET client == WireDocker(registered, dockerClient)
    IN  /\ dockerClient' = client
        /\ open' = open \cup ({client} \ {None})
        /\ given' = [c \in Docked |-> IF c \in registered THEN client ELSE None]
        /\ UNCHANGED <<registered, alive>>

\* The probe loops exist only if some container has a probe.
Begins(s) ==
    /\ alive' \in {alive \cup {s}} \cup (IF s = "probe_loops" THEN {alive} ELSE {})
    /\ UNCHANGED <<registered, dockerClient, given, open>>

Advance ==
    IF step + 1 = Len(Boot) THEN step' = 0 /\ phase' = "up"
    ELSE step' = step + 1 /\ UNCHANGED phase

BootStep ==
    LET s == Boot[step + 1]
    IN  /\ phase = "boot"
        /\ \/ Enabled(s) /\ s \in Client /\ Opens(s)
           \/ s = "register" /\ Register
           \/ s = "wire" /\ Wire
           \/ Enabled(s) /\ s \in BackgroundTask /\ Begins(s)
           \/ /\ ~Enabled(s) \/ s \notin Client \cup {"register", "wire"} \cup BackgroundTask
              /\ UNCHANGED <<registered, dockerClient, given, open, alive>>
        /\ Advance
        /\ UNCHANGED <<config, degraded, ticking>>

\* No master key, no migrations or no list of collectors: the process ends.
CriticalAbort ==
    /\ phase = "boot"
    /\ Boot[step + 1] \in {"engine", "migrations", "persist"}
    /\ phase' = "aborted" /\ step' = 0
    /\ open' = {} /\ alive' = {}
    /\ UNCHANGED <<config, degraded, registered, dockerClient, given, ticking>>

-----------------------------------------------------------------------------
(* What runs meanwhile.                                                    *)

TickStarts(c) ==
    /\ "scheduler" \in alive /\ c \in registered
    /\ ticking = {}
    /\ ticking' = {c}
    /\ UNCHANGED <<config, step, phase, degraded, registered, dockerClient, given, open, alive>>

\* A run of the supervisor starts the loops of containers that have none.
TickEnds(c) ==
    /\ c \in ticking
    /\ ticking' = ticking \ {c}
    /\ alive' \in {alive} \cup
        (IF c = "docker_probes_supervisor" THEN {alive \cup {"probe_loops"}} ELSE {})
    /\ UNCHANGED <<config, step, phase, degraded, registered, dockerClient, given, open>>

\* An action on a container, or the alert that starts a fix.
RequestStarts(t) ==
    /\ phase = "up"
    /\ t = "compose" => "docker_of_actions" \in open
    /\ t = "auto_fix" => dockerClient # None
    /\ alive' = alive \cup {t}
    /\ UNCHANGED <<config, step, phase, degraded, registered, dockerClient, given, open, ticking>>

RequestEnds(t) ==
    /\ t \in alive
    /\ alive' = alive \ {t}
    /\ UNCHANGED <<config, step, phase, degraded, registered, dockerClient, given, open, ticking>>

-----------------------------------------------------------------------------
(* Shutdown.                                                               *)

StopRequested ==
    /\ phase = "up"
    /\ phase' = "stopping" /\ step' = 0
    /\ UNCHANGED <<config, degraded, registered, dockerClient, given, open, alive, ticking>>

\* Every step waits until what it stops has ended; the scheduler also cancels the
\* runs that are under way.
ShutdownStep ==
    LET s == Shutdown[step + 1]
    IN  /\ phase = "stopping"
        /\ alive' = alive \ {s}
        /\ ticking' = IF s = "scheduler" THEN {} ELSE ticking
        /\ open' = open \ (IF s = "docker" THEN {dockerClient} ELSE {s})
        /\ IF step + 1 = Len(Shutdown) THEN phase' = "down" /\ step' = 0
           ELSE step' = step + 1 /\ UNCHANGED phase
        /\ UNCHANGED <<config, degraded, registered, dockerClient, given>>

Ended == phase \in {"down", "aborted"} /\ UNCHANGED vars

Next ==
    \/ BootStep \/ CriticalAbort
    \/ \E c \in registered : TickStarts(c) \/ TickEnds(c)
    \/ \E t \in OfRequests : RequestStarts(t) \/ RequestEnds(t)
    \/ StopRequested \/ ShutdownStep
    \/ Ended

Spec == Init /\ [][Next]_vars

-----------------------------------------------------------------------------

\* Nothing works with a client before it is there or after it was closed, and in the
\* end nothing is left.  Two things are: probe loops that a run of the supervisor
\* starts after they were stopped, and the docker client of actions, which the one of
\* docker_socket replaces in app.state.
UsersHaveTheirClients ==
    LET late == IF phase \in {"stopping", "down"} THEN {"probe_loops"} ELSE {}
        left == IF "docker_socket" \in registered THEN {"docker_of_actions"} ELSE {}
    IN  /\ \A t \in alive \ late : Uses(t) \subseteq open
        /\ \A c \in ticking : UsesOfTick(c) \subseteq open
        /\ phase = "stopping" /\ (\E i \in DOMAIN Logouts : Logouts[i] = Shutdown[step + 1])
            => Uses(Shutdown[step + 1]) \subseteq open
        /\ phase = "down" => alive \subseteq late /\ open \subseteq left
=============================================================================
