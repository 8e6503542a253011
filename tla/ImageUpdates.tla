---------------------------- MODULE ImageUpdates ----------------------------
(***************************************************************************)
(* The update badges of one container: image_update_state, which compares  *)
(* the digest of its image with the registry, and docker_build_hashes,     *)
(* which compares its sources with those the monitor saw when it first saw *)
(* the image.  The collectors of both run in one concurrency group; the    *)
(* refresh after a pull or a rebuild of the operator does not wait for     *)
(* them.                                                                   *)
(***************************************************************************)
EXTENDS Integers

CONSTANTS MaxChanges, None, Skip

Job == {"image", "build", "refresh"}
NoDigest == 0
Fine == "fine"

VARIABLES
    kind,           \* pulled, or built from sources by compose
    present,        \* whether docker lists the container
    imageId,        \* its image
    src,            \* the content of the sources, as their hash tells it
    since,          \* for the property: what src was since the image is there
    context,        \* what a hash of the sources meets
    pulled, registry, \* digests of the image and of its tag in the registry
    limited,        \* the registry is not asked for a while
    imageRow, buildRow,
    job,            \* the ticks and the refresh
    compose,        \* the operator's action: off, first (pull or build), up, refresh
    building,       \* the digest that it pulls
    changes

world == <<kind, present, imageId, src, since, context, pulled, registry>>
vars == <<world, limited, imageRow, buildRow, job, compose, building, changes>>

Content == 1..3     \* bound on the contents that the sources can have

Off == [pc |-> "off", present |-> FALSE, id |-> 0, digest |-> NoDigest, payload |-> Skip]

TypeOK ==
    /\ kind \in {"pulled", "built"} /\ present \in BOOLEAN
    /\ imageId \in 1..(MaxChanges + 1) /\ src \in since /\ since \subseteq Content
    /\ context \in {Fine, "context_missing", "context_too_large", "permission_denied"}
    /\ pulled \in 0..registry /\ registry \in 1..(MaxChanges + 1)
    /\ limited \in BOOLEAN
    /\ imageRow # None => imageRow.local \in 0..registry /\ imageRow.update \in BOOLEAN
    /\ buildRow # None => buildRow.baseline \in {0} \cup Content /\ buildRow.id \in 0..imageId
    /\ DOMAIN job = Job
    /\ \A j \in Job : job[j].pc \in {"off", "listed", "ready"}
    /\ compose \in {"off", "first", "up", "refresh"} /\ building \in 0..(MaxChanges + 1)
    /\ changes \in 0..MaxChanges

Init ==
    /\ kind \in {"pulled", "built"}
    /\ present = TRUE /\ imageId = 1
    /\ src = 1 /\ since = {1} /\ context = Fine
    /\ registry = 1 /\ pulled = IF kind = "pulled" THEN 1 ELSE NoDigest
    /\ limited = FALSE
    /\ imageRow = None /\ buildRow = None
    /\ job = [j \in Job |-> Off]
    /\ compose = "off" /\ building = 0
    /\ changes = 0

-----------------------------------------------------------------------------
(* The collectors and the refresh.                                         *)

Starts(j) ==
    job' = [job EXCEPT ![j] = [Off EXCEPT !.pc = "listed", !.present = present, !.id = imageId,
                                          !.digest = pulled]]

\* The two collectors take turns.  A tick whose list_containers fails, or whose
\* compose file cannot be read, changes nothing.
Tick(j) ==
    /\ j = "image" \/ (j = "build" /\ kind = "built")
    /\ job["image"].pc = "off" /\ job["build"].pc = "off"
    /\ Starts(j)
    /\ UNCHANGED <<world, limited, imageRow, buildRow, compose, building, changes>>

\* The refresh finds nothing while the container is not there.
Refresh ==
    /\ compose = "refresh" /\ job["refresh"].pc = "off"
    /\ IF present THEN Starts("refresh") /\ UNCHANGED compose
                  ELSE compose' = "off" /\ UNCHANGED job
    /\ UNCHANGED <<world, limited, imageRow, buildRow, building, changes>>

IsImage(j) == j = "image" \/ (j = "refresh" /\ kind = "pulled")

\* What fetch_latest_digest may return: an error, or the digest of the tag.
Fetched == {registry, NoDigest}

\* Only a digest that is known and not the latest is an update; a failed check is none.
DigestPayload(local, latest) ==
    [local |-> local, latest |-> latest, failed |-> latest = NoDigest,
     update |-> latest # NoDigest /\ local # NoDigest /\ local # latest]

\* A tick skips a registry that is close to its limit or told it to wait; the
\* image may have gone since the container was listed.
FetchDigestPayload(j, latest, local) ==
    /\ IsImage(j) /\ job[j].pc = "listed"
    /\ local \in {job[j].digest} \cup (IF job[j].id = imageId THEN {} ELSE {NoDigest})
    /\ job' = [job EXCEPT ![j].pc = "ready",
                  ![j].payload = IF ~job[j].present \/ (j = "image" /\ limited) THEN Skip
                                 ELSE DigestPayload(local, latest)]
    /\ limited' \in {limited} \cup (IF kind = "pulled" /\ ~limited THEN {TRUE} ELSE {})
    /\ UNCHANGED <<world, imageRow, buildRow, compose, building, changes>>

RateLimitPasses ==
    /\ limited
    /\ limited' = FALSE
    /\ UNCHANGED <<world, imageRow, buildRow, job, compose, building, changes>>

Base(row) == IF row = None THEN 0 ELSE row.baseline
BaseId(row) == IF row = None THEN 0 ELSE row.id

\* A new image keeps the baseline of the first one.
KeepBaseline(row, id, reset) == ~reset /\ row # None

\* The baseline is kept while the image is the one it was taken with.
SameImage(row, id, reset) == ~reset /\ row # None /\ row.id = id

\* compute_source_hash gives up on too many or unreadable files.
Exceeded == IF context \in {"context_too_large", "permission_denied"} THEN context ELSE None

\* The row after the sources were looked at.
BuildUpsertPayload(row, id, reset) ==
    CASE context = "context_missing" ->
            [baseline |-> Base(row), id |-> BaseId(row), update |-> FALSE, error |-> context]
      [] Exceeded # None ->
            [baseline |-> Base(row), id |-> BaseId(row), update |-> TRUE, error |-> Exceeded]
      [] context = Fine /\ SameImage(row, id, reset) ->
            [baseline |-> row.baseline, id |-> row.id,
             update |-> row.baseline # 0 /\ row.baseline # src, error |-> None]
      [] OTHER -> [baseline |-> src, id |-> id, update |-> FALSE, error |-> None]

\* The rows are read and the sources hashed.
ReadAndHash(j) ==
    /\ ~IsImage(j) /\ job[j].pc = "listed"
    /\ job' = [job EXCEPT ![j].pc = "ready",
                  ![j].payload = IF job[j].present
                                 THEN BuildUpsertPayload(buildRow, job[j].id, j = "refresh")
                                 ELSE Skip]
    /\ UNCHANGED <<world, limited, imageRow, buildRow, compose, building, changes>>

\* A tick deletes the row of a container it did not list.
Reconciled(j, row) ==
    IF job[j].payload # Skip THEN job[j].payload
    ELSE IF j # "refresh" /\ ~job[j].present THEN None ELSE row

UpsertState(j) == imageRow' = Reconciled(j, imageRow) /\ UNCHANGED buildRow
UpsertHashes(j) == buildRow' = Reconciled(j, buildRow) /\ UNCHANGED imageRow

Write(j) ==
    /\ job[j].pc = "ready"
    /\ IF IsImage(j) THEN UpsertState(j) ELSE UpsertHashes(j)
    /\ job' = [job EXCEPT ![j] = Off]
    /\ compose' = IF j = "refresh" THEN "off" ELSE compose
    /\ UNCHANGED <<world, limited, building, changes>>

\* The scheduler gives up on a tick.
TickTimesOut(j) ==
    /\ j # "refresh" /\ job[j].pc = "listed"
    /\ job' = [job EXCEPT ![j] = Off]
    /\ UNCHANGED <<world, limited, imageRow, buildRow, compose, building, changes>>

-----------------------------------------------------------------------------
(* The container and its sources, and the operator.                        *)

\* docker compose pull or build
ActionStarts ==
    /\ compose = "off" /\ changes < MaxChanges
    /\ changes' = changes + 1
    /\ compose' = "first"
    /\ building' = registry
    /\ UNCHANGED <<world, limited, imageRow, buildRow, job>>

\* docker compose up --force-recreate
UpStarts ==
    /\ compose = "first"
    /\ \/ compose' = "up" /\ present' = FALSE
       \/ compose' = "off" /\ UNCHANGED present
    /\ UNCHANGED <<kind, imageId, src, since, context, pulled, registry,
                   limited, imageRow, buildRow, job, building, changes>>

NewImage(digest) ==
    /\ present' = TRUE
    /\ imageId' = imageId + 1
    /\ since' = {src}
    /\ pulled' = IF kind = "built" THEN pulled ELSE digest

UpEnds ==
    /\ compose = "up"
    /\ compose' = "refresh"
    /\ NewImage(building)
    /\ UNCHANGED <<kind, src, context, registry, limited, imageRow, buildRow, job, building, changes>>

\* Changes from outside: an edit, which may bring back an earlier content, a new digest of
\* the tag, a rebuild or pull and recreate by hand, a container that goes or comes, sources
\* that cannot be hashed.
Outside ==
    /\ changes < MaxChanges
    /\ changes' = changes + 1
    /\ compose # "up"
    /\ \/ /\ src' \in Content \ {src} /\ since' = since \cup {src'}
          /\ UNCHANGED <<present, imageId, context, pulled, registry>>
       \/ registry' = registry + 1 /\ UNCHANGED <<present, imageId, src, since, context, pulled>>
       \/ NewImage(registry) /\ UNCHANGED <<src, context, registry>>
       \/ present' = ~present /\ UNCHANGED <<imageId, src, since, context, pulled, registry>>
       \/ /\ context' \in {Fine, "context_missing", "context_too_large", "permission_denied"} \ {context}
          /\ UNCHANGED <<present, imageId, src, since, pulled, registry>>
    /\ UNCHANGED <<kind, limited, imageRow, buildRow, job, compose, building>>

Fetches(j, latest) == FetchDigestPayload(j, latest, job[j].digest)

Next ==
    \/ \E j \in Job : Tick(j) \/ ReadAndHash(j) \/ Write(j) \/ TickTimesOut(j)
    \/ Refresh
    \/ \E j \in Job : \E latest \in Fetched : \E local \in 0..registry :
        FetchDigestPayload(j, latest, local)
    \/ RateLimitPasses
    \/ ActionStarts \/ UpStarts \/ UpEnds
    \/ Outside

\* Ticks come again and again and are not always cut; the registry answers and
\* does not always limit; a started action and its refresh go on.
Fairness ==
    /\ SF_vars(Tick("image")) /\ SF_vars(Tick("build"))
    /\ SF_vars(ReadAndHash("build")) /\ WF_vars(ReadAndHash("refresh"))
    /\ SF_vars(~limited /\ Fetches("image", registry)) /\ WF_vars(RateLimitPasses)
    /\ WF_vars(\E latest \in Fetched : Fetches("refresh", latest))
    /\ \A j \in Job : WF_vars(Write(j))
    /\ WF_vars(Refresh)
    /\ WF_vars(UpStarts) /\ WF_vars(UpEnds)

Spec == Init /\ [][Next]_vars /\ Fairness

-----------------------------------------------------------------------------

\* Once nothing changes any more, and whatever a tick that was overtaken by a refresh has
\* written, the badge of a pulled image is right unless its check failed, the badge of a
\* built one says whether the sources differ from those of some moment since the image is
\* there, so that it has none if they were not edited since, and a container that is gone
\* has no row.
BadgesSettle ==
    <>[](IF ~present THEN imageRow = None /\ buildRow = None
         ELSE IF kind = "pulled"
         THEN imageRow # None /\ (imageRow.failed \/ (imageRow.update <=> pulled # registry))
         ELSE context = Fine => /\ buildRow # None
                                /\ buildRow.baseline \in since
                                /\ buildRow.update <=> buildRow.baseline # src)
=============================================================================
