----------------------------- MODULE Collectors -----------------------------
(***************************************************************************)
(* One collector, run over and over by the scheduler, with the service it  *)
(* asks and the registry it writes to.  The service changes its answers at *)
(* any time, also between two calls of a run; the scheduler may give up on *)
(* a run at any call, and what it has written by then stays.               *)
(***************************************************************************)
EXTENDS HaCollectors, PiholeCollectors, UnifiCollectors, SynologyCollectors, HostCollectors

CONSTANTS
    Plugin,         \* the collectors that are run
    Offered(_),     \* the answers tried of a service with that many calls
    Threshold,      \* failures in a row that quarantine a collector
    MaxEvents(_)    \* changes of a service with that many calls, and runs that take
                    \* too long

VARIABLES
    plugin,         \* the collector
    world,          \* what the service answers to each call
    got,            \* what the last or current run was answered
    run,            \* what it comes to so far (Metrics: Collected)
    registry,       \* the series that are scraped
    names,          \* the label names each family was first written with
    streak,         \* failed runs in a row
    quarantined,
    events

vars == <<plugin, world, got, run, registry, names, streak, quarantined, events>>

\* The collectors that there are.
Collector ==
   {"ha_up", "ha_battery", "ha_sensor_value", "ha_safety_sensors", "ha_update",
    "ha_entity_available", "ha_cadence", "ha_config_entry", "ha_repairs",
    "ha_persistent_notification", "pihole_blocking", "pihole_config", "pihole_dns_health",
    "pihole_dns_split", "pihole_ftl_health", "pihole_ftl_messages", "pihole_gravity",
    "pihole_version", "pihole_upstreams", "pihole_stats_summary", "unbound_stats",
    "pihole_clients", "unifi_controller_up", "unifi_vpn_teleport", "unifi_threat",
    "unifi_networkconf", "unifi_wan", "unifi_device", "unifi_client_stats",
    "unifi_client_dpi", "synology_storage", "synology_pool", "synology_utilization",
    "synology_ups", "synology_updates", "synology_system", "synology_events",
    "synology_cameras", "synology_license", "synology_security", "synology_replication",
    "synology_backup", "host", "watched_dir_size", "synology_mount_health",
    "log_stream_budget", "log_error_rate", "vl_health", "uptime_host", "synology_probe"}

\* Neither no answer nor an answer in which all is well can be mistaken for a call
\* that was not made.
CollectorsAssumption ==
    /\ Plugin \subseteq Collector
    /\ Down # Unasked
    /\ [i \in Item |-> <<1, 1>>] # Unasked

Result(p, a) ==
    CASE p = "ha_up" -> HaUp(a)
      [] p = "ha_battery" -> HaBattery(a)
      [] p = "ha_sensor_value" -> HaSensorValue(a)
      [] p = "ha_safety_sensors" -> HaSafetySensors(a)
      [] p = "ha_update" -> HaUpdate(a)
      [] p = "ha_entity_available" -> HaEntityAvailable(a)
      [] p = "ha_cadence" -> HaCadence(a)
      [] p = "ha_config_entry" -> HaConfigEntry(a)
      [] p = "ha_repairs" -> HaRepairs(a)
      [] p = "ha_persistent_notification" -> HaPersistentNotification(a)
      [] p = "pihole_blocking" -> PiholeBlocking(a)
      [] p = "pihole_config" -> PiholeConfig(a)
      [] p = "pihole_dns_health" -> PiholeDnsHealth(a)
      [] p = "pihole_dns_split" -> PiholeDnsSplit(a)
      [] p = "pihole_ftl_health" -> PiholeFtlHealth(a)
      [] p = "pihole_ftl_messages" -> PiholeFtlMessages(a)
      [] p = "pihole_gravity" -> PiholeGravity(a)
      [] p = "pihole_version" -> PiholeVersion(a)
      [] p = "pihole_upstreams" -> PiholeUpstreams(a)
      [] p = "pihole_stats_summary" -> PiholeStatsSummary(a)
      [] p = "unbound_stats" -> UnboundStats(a)
      [] p = "pihole_clients" -> PiholeClients(a)
      [] p = "unifi_controller_up" -> UnifiControllerUp(a)
      [] p = "unifi_vpn_teleport" -> UnifiVpnTeleport(a)
      [] p = "unifi_threat" -> UnifiAlarms(a)
      [] p = "unifi_networkconf" -> UnifiNetworkconf(a)
      [] p = "unifi_wan" -> UnifiWan(a)
      [] p = "unifi_device" -> UnifiDevice(a)
      [] p = "unifi_client_stats" -> UnifiClientStats(a)
      [] p = "unifi_client_dpi" -> UnifiClientDpi(a)
      [] p = "synology_storage" -> SynologyStorage(a)
      [] p = "synology_pool" -> SynologyPool(a)
      [] p = "synology_utilization" -> SynologyUtilization(a)
      [] p = "synology_ups" -> SynologyUps(a)
      [] p = "synology_updates" -> SynologyUpdates(a)
      [] p = "synology_system" -> SynologySystem(a)
      [] p = "synology_events" -> SynologyEvents(a)
      [] p = "synology_cameras" -> SynologyCameras(a)
      [] p = "synology_license" -> SynologyLicense(a)
      [] p = "synology_security" -> SynologySecurity(a)
      [] p = "synology_replication" -> SynologyReplication(a)
      [] p = "synology_backup" -> SynologyBackup(a)
      [] p = "host" -> HostCollector(a)
      [] p = "watched_dir_size" -> WatchedDirSize(a)
      [] p = "synology_mount_health" -> SynologyMountHealth(a)
      [] p = "log_stream_budget" -> LogStreamBudget(a)
      [] p = "log_error_rate" -> LogErrorRate(a)
      [] p = "vl_health" -> VlHealth(a)
      [] p = "uptime_host" -> UptimeProbe(a)
      [] p = "synology_probe" -> SynologyProbe(a)

\* No collector makes more than six calls.
Fresh == [k \in 1..6 |-> Unasked]
Calls == [p \in Plugin |-> Result(p, Fresh).calls]

\* A run that has not been answered yet.
Started == Collected(DOMAIN world, FALSE, NoSeries)

Complete == Done(run.calls, got)

Init ==
    /\ plugin \in Plugin
    /\ world \in [Calls[plugin] -> Offered(Cardinality(Calls[plugin]))]
    /\ got = Fresh
    /\ run = Started
    /\ registry = NoSeries
    /\ names = NoSeries
    /\ streak = 0 /\ quarantined = FALSE
    /\ events = 0

ServiceChanges(k, r) ==
    /\ events < MaxEvents(Cardinality(DOMAIN world))
    /\ events' = events + 1
    /\ world' = [world EXCEPT ![k] = r]
    /\ UNCHANGED <<plugin, got, run, registry, names, streak, quarantined>>

\* The budget of failures of the scheduler (Scheduler).
Count(ok) ==
    /\ streak' = IF ok THEN 0 ELSE streak + 1
    /\ quarantined' = (streak' >= Threshold)

\* The next call of the run, or the first of the next run, with what is
\* written after it.  The last call ends the run.
Fetch ==
    LET asked == IF Complete THEN Fresh ELSE got
        calls == IF Complete THEN DOMAIN world ELSE run.calls
        k == CHOOSE n \in calls :
                /\ asked[n] = Unasked
                /\ \A m \in calls : m < n => asked[m] # Unasked
    IN  /\ ~quarantined
        /\ got' = [asked EXCEPT ![k] = world[k]]
        /\ run' = Result(plugin, got')
        /\ registry' = WriteGauges(registry, names, run'.out)
        /\ names' = GetOrCreate(names, run'.out)
        /\ IF Done(run'.calls, got') THEN Count(run'.ok) ELSE UNCHANGED <<streak, quarantined>>
        /\ UNCHANGED <<plugin, world, events>>

\* The scheduler gives up on the call that is under way: a failed run.
TimesOut ==
    /\ ~quarantined
    /\ events < MaxEvents(Cardinality(DOMAIN world))
    /\ events' = events + 1
    /\ got' = Fresh /\ run' = Started
    /\ Count(FALSE)
    /\ UNCHANGED <<plugin, world, registry, names>>

\* The operator puts a quarantined collector back (Scheduler).
Retry ==
    /\ quarantined
    /\ quarantined' = FALSE /\ streak' = 0 /\ got' = Fresh /\ run' = Started
    /\ UNCHANGED <<plugin, world, registry, names, events>>

Next ==
    \/ \E k \in DOMAIN world : \E r \in Offered(Cardinality(DOMAIN world)) : ServiceChanges(k, r)
    \/ Fetch
    \/ TimesOut
    \/ Retry

Spec == Init /\ [][Next]_vars

-----------------------------------------------------------------------------

\* The collectors that cannot tell that a service is gone: a directory that is
\* not there is an empty directory (watched_dir_size.py).
Blind == {"watched_dir_size"}

\* A gauge that says whether a service works, at 0.
ShownDown ==
    \E s \in DOMAIN registry :
        /\ s[1] \in {"ha_up", "vl_up", "synology_mount_up", "pihole_up", "dns_resolution_up",
                     "unifi_up", "unifi_teleport_up", "ssh_up"}
        /\ registry[s] = 0

Fine(r) == 1 \in Present(r) /\ \A i \in Present(r) : r[i] = <<1, 1>>

\* The families with labels that are there or not, depending on the answer: the
\* registry keeps the names of the first write and drops the others.
Ragged == {"synology_ups_info", "synology_info", "synology_dsm_update_info",
           "synology_package_info"}

\* A run that is answered nothing is noticed: a gauge shows the service down, or
\* the run counts as failed, and in the end the collector is quarantined, which
\* raises an alert (the ok of every collector).
OutageIsNoticed ==
    Complete /\ (\A k \in DOMAIN got : got[k] \in {Down, Unasked}) =>
        plugin \in Blind \/ ShownDown \/ streak > 0

\* A run that finds everything as it should be counts as a success and leaves no
\* gauge that shows the service down, whatever the runs before it found or left
\* half done.
RecoveryIsSeen ==
    Complete /\ ~quarantined /\ (\A k \in DOMAIN world : Fine(got[k])) => streak = 0 /\ ~ShownDown

\* A run in which call k is answered r and every other call goes well.
Otherwise(k, r) ==
    LET well == [i \in Item |-> <<1, 1>>]
    IN  Result(plugin, [n \in 1..6 |-> IF n = k THEN r
                                      ELSE IF n \in DOMAIN world THEN well ELSE Unasked])

\* The collectors that need two calls for one of their numbers.
Joint == {"log_stream_budget"}

\* What a call brings is written also when other calls of the run fail, unless
\* those calls are only made after it.
CallsAreIndependent ==
    Complete /\ plugin \notin Joint =>
        LET written == FamiliesOf(registry) IN
        \A k \in {n \in DOMAIN world : Answered(got[n])} :
            LET without == Otherwise(k, Down)
                brings == FamiliesOf(Otherwise(k, got[k]).out) \ FamiliesOf(without.out)
            IN  without.calls = DOMAIN world => brings \subseteq written

=============================================================================
