---------------------------- MODULE DockerProbes ----------------------------
(***************************************************************************)
(* What is probed in the docker containers.  Three writers share the table *)
(* probe_targets: the discoverer, from container labels                    *)
(* (plugins/discoverers/docker_discoverer.py, an event stream and a        *)
(* periodic scan), the loader of override files (docker/override_loader.py)*)
(* and the operator (routers/docker.py), who also decides on suggestions.  *)
(* The supervisor (metrics/probe_supervisor.py) runs a task per container. *)
(***************************************************************************)
EXTENDS Naturals, Sequences, FiniteSets

CONSTANTS
    Container,    \* container names; names are the logical keys
    Key,          \* (kind, name) of a probe
    MaxChanges,   \* bound on what docker, files and operator do
    MaxLosses,    \* bound on breaks of the event stream
    None

VARIABLES
    docker,     \* the daemon: the incarnation (container id) and labels of each name
    stream,     \* events sent and not yet handled
    worker,     \* what the scan and the event loop inspected last
    file,       \* the override file of each container
    parsed,     \* the loader's parsed files, None between two refreshes
    owned,      \* docker_override_ownership
    probes,     \* probe_targets
    sugg,       \* suggestions of kind docker_container_discovered
    deciding,   \* an accept between its check and its transaction
    listed,     \* what the supervisor's tick read, None between two ticks
    tasks,      \* _per_container_tasks
    changes, losses

dockerVars == <<docker, stream, worker>>
overrideVars == <<file, parsed, owned>>
superVars == <<listed, tasks>>
vars == <<dockerVars, overrideVars, superVars, probes, sugg, deciding, changes, losses>>

Worker == {"scan", "events"}
Source == {"label", "file_override", "discovered_accepted", "manual"}

\* Labels: None without usable homelab-monitor labels (or with a collision or
\* a disabled profile), else the keys whose labels parse.
Labels == SUBSET Key \cup {None}
\* An override file: absent or malformed, or its probes, none when disabled.
Override == SUBSET Key \cup {None}

Gone == [id |-> 0, labels |-> None]

Init ==
    /\ docker = [c \in Container |-> Gone] /\ stream = <<>>
    /\ worker = [w \in Worker |-> None]
    /\ file = [c \in Container |-> None] /\ parsed = None /\ owned = {}
    /\ probes = [c \in Container |-> [k \in Key |-> None]]
    /\ sugg = [c \in Container |-> [state |-> None, id |-> 0]]
    /\ deciding = None /\ listed = None /\ tasks = {}
    /\ changes = 0 /\ losses = 0

----------------------------------------------------------------------------
(* probe_targets *)

\* upsert_probe_target_conn: an existing row keeps its enabled flag.
Upserted(row, source, on) ==
    [source |-> source, enabled |-> IF row = None THEN on ELSE row.enabled, hidden |-> FALSE]

\* The upserts of kept, then mark_missing_except_conn.  New rows of on are enabled.
Replaced(rows, kept, source, on) ==
    [k \in Key |-> IF k \in kept THEN Upserted(rows[k], source, k \in on)
                   ELSE IF rows[k] = None THEN None ELSE [rows[k] EXCEPT !.hidden = TRUE]]

Runs(row) == row # None /\ row.enabled /\ ~row.hidden

----------------------------------------------------------------------------
(* The daemon and the files: what may change from outside. *)

Change == changes < MaxChanges /\ changes' = changes + 1
Unhandled == Len(stream) < 2 * MaxChanges

\* A new container under the name c; one that was there is destroyed after.
Create(c, l) ==
    /\ Change /\ Unhandled
    /\ docker' = [docker EXCEPT ![c] = [id |-> changes', labels |-> l]]
    /\ stream' = stream \o <<[action |-> "create", name |-> c, id |-> changes']>>
                        \o IF docker[c] = Gone THEN <<>>
                           ELSE <<[action |-> "destroy", name |-> c, id |-> docker[c].id]>>
    /\ UNCHANGED <<worker, overrideVars, superVars, probes, sugg, deciding, losses>>

Destroy(c) ==
    /\ Change /\ Unhandled /\ docker[c] # Gone
    /\ docker' = [docker EXCEPT ![c] = Gone]
    /\ stream' = Append(stream, [action |-> "destroy", name |-> c, id |-> docker[c].id])
    /\ UNCHANGED <<worker, overrideVars, superVars, probes, sugg, deciding, losses>>

EditFile(c, f) ==
    /\ Change
    /\ file' = [file EXCEPT ![c] = f]
    /\ UNCHANGED <<dockerVars, parsed, owned, superVars, probes, sugg, deciding, losses>>

----------------------------------------------------------------------------
(* DockerDiscoverer *)

\* The scan inspects any container that is there.
ScanInspect(c) ==
    /\ worker["scan"] = None /\ docker[c] # Gone
    /\ worker' = [worker EXCEPT !["scan"] = [name |-> c, seen |-> docker[c]]]
    /\ UNCHANGED <<docker, stream, overrideVars, superVars, probes, sugg, deciding, changes, losses>>

\* A create event is answered by an inspect of its id, which fails when the
\* container is gone.
EventInspect ==
    /\ worker["events"] = None /\ stream # <<>> /\ Head(stream).action = "create"
    /\ LET e == Head(stream) IN
       worker' = IF docker[e.name].id = e.id
                 THEN [worker EXCEPT !["events"] = [name |-> e.name, seen |-> docker[e.name]]]
                 ELSE worker
    /\ stream' = Tail(stream)
    /\ UNCHANGED <<docker, overrideVars, superVars, probes, sugg, deciding, changes, losses>>

\* mark_container_gone_conn
MarkedGone(s, e) ==
    IF s.state = "pending" /\ s.id = e.id THEN [s EXCEPT !.state = "container_gone"] ELSE s

DestroyEvent ==
    /\ worker["events"] = None /\ stream # <<>> /\ Head(stream).action = "destroy"
    /\ sugg' = [sugg EXCEPT ![Head(stream).name] = MarkedGone(@, Head(stream))]
    /\ stream' = Tail(stream)
    /\ UNCHANGED <<docker, worker, overrideVars, superVars, probes, deciding, changes, losses>>

\* insert_or_update_docker_suggestion_conn
Suggested(s, id) ==
    [state |-> IF s.state \in {None, "container_gone"} THEN "pending" ELSE s.state, id |-> id]

\* Checked in the transaction that writes.
LabelsApply(c) == c \notin owned

\* _upsert_suggestion: a container without usable labels is suggested; the
\* labels of another become its probes, unless a file owns it.
Upsert(w) ==
    /\ worker[w] # None
    /\ LET c == worker[w].name  seen == worker[w].seen IN
       IF seen.labels = None
       THEN /\ sugg' = [sugg EXCEPT ![c] = Suggested(@, seen.id)]
            /\ UNCHANGED probes
       ELSE /\ probes' = IF LabelsApply(c)
                         THEN [probes EXCEPT ![c] = Replaced(@, seen.labels, "label", Key)]
                         ELSE probes
            /\ UNCHANGED sugg
    /\ worker' = [worker EXCEPT ![w] = None]
    /\ UNCHANGED <<docker, stream, overrideVars, superVars, deciding, changes, losses>>

\* The stream breaks and reconnects after a backoff: events are lost.
StreamBreaks ==
    /\ losses < MaxLosses /\ stream # <<>>
    /\ stream' = <<>> /\ losses' = losses + 1
    /\ UNCHANGED <<docker, worker, overrideVars, superVars, probes, sugg, deciding, changes>>

----------------------------------------------------------------------------
(* OverrideLoader.refresh_once *)

ReadFiles ==
    /\ parsed = None
    /\ parsed' = file
    /\ UNCHANGED <<dockerVars, file, owned, superVars, probes, sugg, deciding, changes, losses>>

Parsed == {c \in Container : parsed[c] # None}
Released == owned \ Parsed

\* One transaction, after an await on the docker socket.  A file can have its probes
\* switched off; that counts for new rows only.
ApplyFiles ==
    /\ parsed # None
    /\ \E on \in SUBSET Key :
          probes' = [c \in Container |->
              CASE c \in Released -> Replaced(probes[c], {}, "file_override", {})
                [] c \in Parsed   -> Replaced(probes[c], parsed[c], "file_override", on)
                [] OTHER          -> probes[c]]
    /\ owned' = Parsed
    /\ parsed' = None
    /\ UNCHANGED <<dockerVars, file, superVars, sugg, deciding, changes, losses>>

----------------------------------------------------------------------------
(* The operator. *)

\* create_probe_target; the container must be known, hidden or not.
CreateProbe(c, k) ==
    /\ Change /\ docker[c] # Gone
    /\ probes' = [probes EXCEPT ![c][k] = Upserted(@, "manual", TRUE)]
    /\ UNCHANGED <<dockerVars, overrideVars, superVars, sugg, deciding, losses>>

Toggle(c, k) ==
    /\ Change /\ probes[c][k] # None
    /\ probes' = [probes EXCEPT ![c][k].enabled = ~@]
    /\ UNCHANGED <<dockerVars, overrideVars, superVars, sugg, deciding, losses>>

DeleteProbe(c, k) ==
    /\ Change /\ probes[c][k] # None
    /\ probes' = [probes EXCEPT ![c][k] = None]
    /\ UNCHANGED <<dockerVars, overrideVars, superVars, sugg, deciding, losses>>

\* 409 for what was ignored or is gone; then an await on the docker socket.
AcceptCheck(c) ==
    /\ Change /\ deciding = None /\ sugg[c].state = "pending"
    /\ deciding' = c
    /\ UNCHANGED <<dockerVars, overrideVars, superVars, probes, sugg, losses>>

\* Also customize_suggestion, whose probes are the operator's.
Accept(kept) ==
    /\ deciding # None
    /\ sugg' = [sugg EXCEPT ![deciding].state = "accepted"]
    /\ probes' = [probes EXCEPT ![deciding] =
          [k \in Key |-> IF k \in kept THEN Upserted(@[k], "discovered_accepted", TRUE) ELSE @[k]]]
    /\ deciding' = None
    /\ UNCHANGED <<dockerVars, overrideVars, superVars, changes, losses>>

Ignore(c) ==
    /\ Change /\ sugg[c].state \notin {None, "ignored"}
    /\ sugg' = [sugg EXCEPT ![c].state = "ignored"]
    /\ UNCHANGED <<dockerVars, overrideVars, superVars, probes, deciding, losses>>

----------------------------------------------------------------------------
(* ProbeSupervisor.run *)

\* Mutant: disabled and hidden probes count.
WantedIfKnown == {c \in Container : \E k \in Key : probes[c][k] # None}
\* list_distinct_container_names_with_enabled_probes
Wanted == {c \in Container : \E k \in Key : Runs(probes[c][k])}

ListWanted ==
    /\ listed = None
    /\ listed' = Wanted
    /\ UNCHANGED <<dockerVars, overrideVars, tasks, probes, sugg, deciding, changes, losses>>

\* Spawn what is wanted, cancel and await what is not.
Reconcile ==
    /\ listed # None
    /\ tasks' = listed
    /\ listed' = None
    /\ UNCHANGED <<dockerVars, overrideVars, probes, sugg, deciding, changes, losses>>

----------------------------------------------------------------------------

Discover == EventInspect \/ DestroyEvent \/ \E w \in Worker : Upsert(w)

Next ==
    \/ \E c \in Container :
          \/ \E l \in Labels : Create(c, l)
          \/ \E f \in Override : EditFile(c, f)
          \/ \E k \in Key : CreateProbe(c, k) \/ Toggle(c, k) \/ DeleteProbe(c, k)
          \/ Destroy(c) \/ ScanInspect(c) \/ AcceptCheck(c) \/ Ignore(c)
    \/ Discover \/ StreamBreaks \/ ReadFiles \/ ApplyFiles
    \/ \E kept \in SUBSET Key : Accept(kept)
    \/ ListWanted \/ Reconcile

\* The scan and the two other periodic tasks run again and again and reach
\* every container; handlers go on.
Fairness ==
    /\ \A c \in Container : SF_vars(ScanInspect(c))
    /\ \A w \in Worker : WF_vars(Upsert(w))
    /\ WF_vars(EventInspect \/ DestroyEvent)
    /\ WF_vars(ReadFiles) /\ WF_vars(ApplyFiles) /\ WF_vars(\E kept \in SUBSET Key : Accept(kept))
    /\ WF_vars(ListWanted) /\ WF_vars(Reconcile)

Spec == Init /\ [][Next]_vars /\ Fairness

----------------------------------------------------------------------------

TypeOK ==
    /\ \A c \in Container : docker[c].id \in 0..MaxChanges /\ docker[c].labels \in Labels
    /\ file \in [Container -> Override] /\ owned \subseteq Container
    /\ \A c \in Container, k \in Key :
          probes[c][k] \in [source : Source, enabled : BOOLEAN, hidden : BOOLEAN] \cup {None}
    /\ \A c \in Container : sugg[c].state \in {None, "pending", "accepted", "ignored", "container_gone"}
    /\ deciding \in Container \cup {None}
    /\ listed \in SUBSET Container \cup {None} /\ tasks \subseteq Container

\* While a file owns a container, none of its active probes comes from a
\* label, however the two writers and the edits of the files interleave.
FilesReplaceLabels ==
    \A c \in owned, k \in Key :
        probes[c][k] # None /\ ~probes[c][k].hidden => probes[c][k].source # "label"

\* What runs on each container once nothing changes any more.
Configured(c) ==
    LET Visible == {k \in Key : probes[c][k] # None /\ ~probes[c][k].hidden} IN
    /\ file[c] # None => Visible = file[c]
    /\ file[c] = None /\ docker[c].labels # None => Visible = docker[c].labels

Noticed(c) ==
    docker[c] # Gone /\ docker[c].labels = None =>
        sugg[c].state \in {"pending", "accepted", "ignored"}

\* Once changes stop, the probes are those of the file, else of the labels, the
\* supervisor has a task for exactly the containers with probes to run, and a
\* container without labels is suggested, or the operator decided on it, although
\* events are lost and late ones withdraw suggestions.
ProbesConverge == <>[](/\ tasks = {c \in Container : \E k \in Key : Runs(probes[c][k])}
                        /\ owned = {c \in Container : file[c] # None}
                        /\ \A c \in Container : Configured(c)
                        /\ \A x \in Container : Noticed(x))
=============================================================================
