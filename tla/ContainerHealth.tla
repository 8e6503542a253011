-------------------------- MODULE ContainerHealth ---------------------------
(***************************************************************************)
(* Crashes and healthcheck incidents of one container: the collector that  *)
(* mirrors the daemon into targets_docker                                  *)
(* (metrics/docker_socket_collector.py, targets_repository.py) and the two *)
(* reconcilers that turn its rows into enrichment rows, counters and       *)
(* alerts (container_crash_reconciler.py,                                  *)
(* container_healthcheck_reconciler.py and their repositories).            *)
(***************************************************************************)
EXTENDS Integers, FiniteSets

CONSTANTS
    MaxTime,     \* bound on the clock, in ticks of the collectors
    Retention,   \* crash and healthcheck log retention
    MaxRows,     \* max_rows_per_container
    MaxIds,      \* bound on recreations
    MaxEvents,   \* bound on what happens to the container
    None

VARIABLES
    clock,
    real,        \* the container as the daemon has it
    gathered,    \* what the collector's tick inspected, None between ticks
    row,         \* targets and targets_docker
    synced,      \* time of the last collector tick
    crash,       \* the key the crash reconciler works on, None between ticks
    incident,    \* the key the healthcheck reconciler works on
    crashes,     \* container_crash_enrichments: keys kept
    incidents,   \* container_healthcheck_enrichments: keys kept
    crashTotal,  \* increments of homelab_container_crash_total by key, up to 2
    starts,      \* observed starts of unhealthy spells
    happened     \* events so far

vars == <<clock, real, gathered, row, synced, crash, incident, crashes, incidents, crashTotal, starts, happened>>

\* 0001-01-01T00:00:00Z
Zero == 0

Init ==
    /\ clock = 1
    /\ real = [id |-> 1, status |-> "running", exit |-> 0, finished |-> Zero, health |-> "healthy"]
    /\ gathered = None /\ row = None /\ synced = 0
    /\ crash = None /\ incident = None
    /\ crashes = {} /\ incidents = {} /\ starts = {} /\ happened = 0
    /\ crashTotal = [k \in 1..(MaxTime + MaxIds) |-> 0]

----------------------------------------------------------------------------
(* The daemon.  Timestamps of two stops differ. *)

Happens == happened < MaxEvents /\ happened' = happened + 1

\* _CRASH_STATES: a dead container is one that docker could not remove.
Stopped == {"exited", "dead"}

Stop(code, known) ==
    /\ Happens /\ real.status = "running" /\ real.finished < clock
    /\ \E status \in Stopped :
          real' = [real EXCEPT !.status = status, !.exit = code, !.health = None,
                               !.finished = IF known THEN clock ELSE Zero]
    /\ UNCHANGED <<clock, gathered, row, synced, crash, incident, crashes, incidents, crashTotal, starts>>

Start ==
    /\ Happens /\ real.status = "exited"
    /\ real' = [real EXCEPT !.status = "running", !.exit = 0, !.health = "healthy"]
    /\ UNCHANGED <<clock, gathered, row, synced, crash, incident, crashes, incidents, crashTotal, starts>>

Recreate ==
    /\ Happens /\ real.id < MaxIds
    /\ real' = [id |-> real.id + 1, status |-> "running", exit |-> 0, finished |-> Zero, health |-> "healthy"]
    /\ UNCHANGED <<clock, gathered, row, synced, crash, incident, crashes, incidents, crashTotal, starts>>

HealthChanges ==
    /\ Happens /\ real.status = "running"
    /\ real' = [real EXCEPT !.health = IF @ = "healthy" THEN "unhealthy" ELSE "healthy"]
    /\ UNCHANGED <<clock, gathered, row, synced, crash, incident, crashes, incidents, crashTotal, starts>>

Tick ==
    /\ clock < MaxTime
    /\ clock' = clock + 1
    /\ UNCHANGED <<real, gathered, row, synced, crash, incident, crashes, incidents, crashTotal, starts, happened>>

----------------------------------------------------------------------------
(* DockerSocketCollector.run *)

\* An inspect that fails leaves the container out of the records.  Ticks are
\* apart in time and may fail until the clock reaches its bound.
Inspect(ok) ==
    /\ gathered = None /\ (synced < clock \/ (clock = MaxTime /\ ok))
    /\ gathered' = IF ok THEN {real} ELSE {}
    /\ UNCHANGED <<clock, real, row, synced, crash, incident, crashes, incidents, crashTotal, starts, happened>>

\* Mutant: every unhealthy tick is an edge.
EdgeAlways(r) == r.health = "unhealthy"
\* is_healthcheck_edge; the prior value survives a recreation.
Edge(r) == r.health = "unhealthy" /\ (row = None \/ row.health # "unhealthy")

\* upsert_docker_container_conn
Upserted(r) ==
    [id |-> r.id, status |-> r.status, exit |-> r.exit, finished |-> r.finished, health |-> r.health,
     changed |-> IF Edge(r) THEN clock ELSE IF row = None THEN None ELSE row.changed]

\* One transaction; mark_missing_except_conn for a container not in records.
WriteTargets ==
    /\ gathered # None
    /\ \/ \E r \in gathered :
            /\ row' = Upserted(r)
            /\ starts' = IF r.health = "unhealthy" /\ (row = None \/ row.health # "unhealthy")
                         THEN starts \cup {clock} ELSE starts
       \/ /\ gathered = {}
          /\ row' = IF row = None THEN None ELSE [row EXCEPT !.status = "missing"]
          /\ UNCHANGED starts
    /\ gathered' = None /\ synced' = clock
    /\ UNCHANGED <<clock, real, crash, incident, crashes, incidents, crashTotal, happened>>

----------------------------------------------------------------------------
(* The reconcilers: list the rows, fetch a window of logs, insert, prune. *)

\* Mutant: docker's "dead" only.
CrashedIfDead(r) == r # None /\ r.status = "dead" /\ r.exit # 0
Crashed(r) == r # None /\ r.status \in Stopped /\ r.exit # 0

\* finished_at, or "unknown:<container id>", which sorts above every time.
CrashKey(r) == IF r.finished = Zero THEN MaxTime + r.id ELSE r.finished

\* Older than the cutoff, or beyond the newest MaxRows.
Pruned(keys) ==
    LET young == {k \in keys : k >= clock - Retention}
    IN  {k \in young : Cardinality({j \in young : j > k}) < MaxRows}

\* A tick without a crash goes on to prune.
ListCrashed ==
    /\ crash = None
    /\ IF Crashed(row) THEN crash' = CrashKey(row) /\ UNCHANGED crashes
                       ELSE crashes' = Pruned(crashes) /\ UNCHANGED crash
    /\ UNCHANGED <<clock, real, gathered, row, synced, incident, incidents, crashTotal, starts, happened>>

\* INSERT OR IGNORE.
Inserted(keys, key) == keys \cup {key}

\* insert returns True.
NewCrash == crash \notin crashes

\* The counter is written for a new row; then the prune, before which no other writer
\* touches the table.
InsertCrash ==
    /\ crash # None
    /\ crashes' = Pruned(Inserted(crashes, crash))
    /\ crashTotal' = IF ~NewCrash THEN crashTotal
                     ELSE [crashTotal EXCEPT ![crash] = IF @ < 2 THEN @ + 1 ELSE @]
    /\ crash' = None
    /\ UNCHANGED <<clock, real, gathered, row, synced, incident, incidents, starts, happened>>

Unhealthy(r) == r # None /\ r.health = "unhealthy" /\ r.changed # None

ListUnhealthy ==
    /\ incident = None
    /\ IF Unhealthy(row) THEN incident' = row.changed /\ UNCHANGED incidents
                         ELSE incidents' = Pruned(incidents) /\ UNCHANGED incident
    /\ UNCHANGED <<clock, real, gathered, row, synced, crash, crashes, crashTotal, starts, happened>>

InsertIncident ==
    /\ incident # None
    /\ incidents' = Pruned(Inserted(incidents, incident))
    /\ incident' = None
    /\ UNCHANGED <<clock, real, gathered, row, synced, crash, crashes, crashTotal, starts, happened>>

----------------------------------------------------------------------------

Next ==
    \/ \E code \in 0..1, known \in BOOLEAN : Stop(code, known)
    \/ Start \/ Recreate \/ HealthChanges \/ Tick
    \/ (\E ok \in BOOLEAN : Inspect(ok)) \/ WriteTargets
    \/ ListCrashed \/ InsertCrash
    \/ ListUnhealthy \/ InsertIncident

\* The collectors' ticks go on, and inspects fail only now and then.
Fairness ==
    /\ WF_vars(Tick) /\ WF_vars(Inspect(TRUE)) /\ WF_vars(WriteTargets)
    /\ WF_vars(ListCrashed \/ InsertCrash)
    /\ WF_vars(ListUnhealthy \/ InsertIncident)

Spec == Init /\ [][Next]_vars /\ Fairness

TypeOK ==
    /\ clock \in 1..MaxTime /\ synced \in 0..MaxTime
    /\ real.id \in 1..MaxIds /\ real.finished \in 0..MaxTime
    /\ crashes \subseteq 1..(MaxTime + MaxIds) /\ incidents \subseteq 1..MaxTime
    /\ crash \in 1..(MaxTime + MaxIds) \cup {None} /\ incident \in 1..MaxTime \cup {None}

\* One incident per unhealthy spell: each is anchored where the collector first
\* saw the container unhealthy, although ticks that miss the container,
\* recreations and a reconciler working on an older row come in between.
IncidentsAreSpells == incidents \subseteq starts

\* A container that crashes and stays down is counted.
CrashesAreCounted ==
    \A t \in 1..MaxTime :
        real.status \in Stopped /\ real.exit # 0 /\ real.finished = t /\ t < MaxTime
            ~> crashTotal[t] > 0 \/ real.finished # t \/ real.status \notin Stopped
=============================================================================
