-------------------------- MODULE CollectorsProofs --------------------------
(***************************************************************************)
(* Proofs about Collectors, for every set of the collectors there are, any *)
(* answers of the services and any number of changes of them, runs that    *)
(* time out and retries.                                                   *)
(*                                                                         *)
(* Of each collector it is shown which calls it makes, which gauges of its *)
(* service it writes and what they say (ResultsKnown), and that what an    *)
(* answer brings does not depend on the others (ResultsApart).  The        *)
(* registry outlives a run: it has only gauges of the one collector, with  *)
(* the label names they were first written with, so that no later write of *)
(* them is dropped (Consistent), and after the last call they are those of *)
(* the run that ends (CollectorEnds).                                      *)
(***************************************************************************)
EXTENDS Collectors, TLAPS

\* The families that say whether a service works.
Gauge == {"ha_up", "vl_up", "synology_mount_up", "pihole_up", "dns_resolution_up",
                     "unifi_up", "unifi_teleport_up", "ssh_up"}

\* Series of other families only.
Plain(f) == \A s \in DOMAIN f : s[1] \notin Gauge

LEMMA JoinedSeries == ASSUME NEW p PROVE DOMAIN Joined(p) = (DOMAIN p[1]) \cup (DOMAIN p[2])
  BY DEF Joined

LEMMA JoinedDomain == ASSUME NEW f, NEW g PROVE DOMAIN (f ++ g) = (DOMAIN f) \cup (DOMAIN g)
  BY JoinedSeries DEF ++

\* What is built of other families has no gauge.
LEMMA PlainRules ==
    /\ \A f, g : Plain(f) /\ Plain(g) => Plain(f ++ g)
    /\ \A f, l, v : f \notin Gauge => Plain(With(f, l, v))
    /\ \A F, v : (\A f \in F : f \notin Gauge) => Plain(Series(F, v))
    /\ \A f, S : Plain(DroppedSeries(f, S))
    /\ Plain(NoSeries)
  <1>1. \A f, g : Plain(f) /\ Plain(g) => Plain(f ++ g)
    BY JoinedDomain DEF Plain
  <1>2. \A f, l, v : f \notin Gauge => Plain(With(f, l, v))
    BY DEF Plain, With, Single
  <1>3. \A F, v : (\A f \in F : f \notin Gauge) => Plain(Series(F, v))
    BY DEF Plain, Series
  <1>4. \A f, S : Plain(DroppedSeries(f, S))
    BY <1>2 DEF DroppedSeries, Gauge
  <1>5. Plain(NoSeries)
    BY DEF Plain, NoSeries
  <1> QED BY <1>1, <1>2, <1>3, <1>4, <1>5

\* An ordinary result
Sound(calls, a, r) ==
    /\ r.ok => \E k \in calls : Answered(a[k])
    /\ (\A k \in calls : Fine(a[k])) => r.ok

Ordinary(calls, a, r) == Plain(r.out) /\ Sound(calls, a, r)

LEMMA FineIsOk == ASSUME NEW r, Fine(r) PROVE IsOk(r) /\ Answered(r)
  BY DEF Fine, Present, IsOk, Answered

\* The collectors without a gauge of the service.
LEMMA HaOrdinary ==
    ASSUME NEW a
    PROVE  /\ Ordinary({1}, a, HaBattery(a))
           /\ Ordinary({1}, a, HaSensorValue(a))
           /\ Ordinary({1}, a, HaSafetySensors(a))
           /\ Ordinary({1}, a, HaUpdate(a))
           /\ Ordinary({1}, a, HaEntityAvailable(a))
           /\ Ordinary({1}, a, HaCadence(a))
           /\ Ordinary({1}, a, HaConfigEntry(a))
           /\ Ordinary({1}, a, HaRepairs(a))
           /\ Ordinary({1}, a, HaPersistentNotification(a))
  <1> USE PlainRules, FineIsOk DEF Ordinary, Sound, Collected, Polled, When, Answered, IsOk, EmitFamily, EmitUsable, For, Gauge
  <1>1. Ordinary({1}, a, HaBattery(a)) /\ Ordinary({1}, a, HaSensorValue(a))
    BY DEF HaBattery, HaSensorValue
  <1>2. Ordinary({1}, a, HaSafetySensors(a)) /\ Ordinary({1}, a, HaUpdate(a))
    BY DEF HaSafetySensors, HaUpdate
  <1>3. Ordinary({1}, a, HaEntityAvailable(a))
    BY DEF HaEntityAvailable, ParseErrors, One
  <1>4. Ordinary({1}, a, HaCadence(a))
    BY DEF HaCadence, ParseErrors, One
  <1>5. Ordinary({1}, a, HaConfigEntry(a))
    BY DEF HaConfigEntry
  <1>6. Ordinary({1}, a, HaRepairs(a)) /\ Ordinary({1}, a, HaPersistentNotification(a))
    BY DEF HaRepairs, HaPersistentNotification, ListedAsOne
  <1> QED BY <1>1, <1>2, <1>3, <1>4, <1>5, <1>6

LEMMA PiholeOrdinary ==
    ASSUME NEW a
    PROVE  /\ Ordinary({1}, a, PiholeBlocking(a))
           /\ Ordinary({1}, a, PiholeConfig(a))
           /\ Ordinary({1, 2}, a, PiholeFtlHealth(a))
           /\ Ordinary({1}, a, PiholeFtlMessages(a))
           /\ Ordinary({1, 2}, a, PiholeGravity(a))
           /\ Ordinary({1}, a, PiholeVersion(a))
           /\ Ordinary({1}, a, PiholeUpstreams(a))
           /\ Ordinary({1}, a, PiholeStatsSummary(a))
           /\ Ordinary({1}, a, UnboundStats(a))
           /\ Ordinary(1..6, a, PiholeClients(a))
  <1> USE PlainRules DEF Collected, Polled, When, Took, One, EmitFamily, For, Gauge
  <1>0. \A F, r : (\A f \in F : f \notin Gauge) => Plain(Numbers(F, r)) /\ Plain(EachOf(F, r)) /\ Plain(Constant(F, r))
    BY DEF Numbers, EachOf, Constant
  <1>1. Plain(PiholeBlocking(a).out) /\ Plain(PiholeConfig(a).out)
    BY DEF PiholeBlocking, PiholeConfig
  <1>2. Plain(PiholeFtlHealth(a).out)
    BY <1>0 DEF PiholeFtlHealth, EmitFtl, EmitDatabase
  <1>3. Plain(PiholeFtlMessages(a).out)
    BY DEF PiholeFtlMessages, CountByType
  <1>4. Plain(PiholeGravity(a).out)
    BY <1>0 DEF PiholeGravity, EmitAdlist, EmitGravityAge
  <1>5. Plain(PiholeVersion(a).out) /\ Plain(PiholeUpstreams(a).out)
    BY <1>0 DEF PiholeVersion, PiholeUpstreams, Each
  <1>6. Plain(PiholeStatsSummary(a).out)
    BY <1>0 DEF PiholeStatsSummary, EmitTotals
  <1>7. Plain(UnboundStats(a).out)
    BY <1>0 DEF UnboundStats, UnboundDefaults, UnboundExtended
  <1>8. Plain(PiholeClients(a).out)
    <2>1. Plain(ClientSeries(a))
      BY DEF ClientSeries
    <2>2. \A r : Plain(EmitDomains("pihole_top_permitted_domain", r))
      BY DEF EmitDomains
    <2>3. \A r : Plain(EmitDomains("pihole_top_blocked_domain", r))
      BY DEF EmitDomains
    <2> QED BY <2>1, <2>2, <2>3 DEF PiholeClients
  <1>9. Sound({1}, a, PiholeBlocking(a))
    BY FineIsOk DEF Sound, PiholeBlocking, IsOk, Answered, Listed, OneFetch, CoEqual, Polled,
       Done
  <1>10. Sound({1}, a, PiholeConfig(a))
    BY FineIsOk DEF Sound, PiholeConfig, IsOk, Answered, Listed, OneFetch, CoEqual, Polled, Done
  <1>11. Sound({1, 2}, a, PiholeFtlHealth(a))
    BY FineIsOk DEF Sound, PiholeFtlHealth, IsOk, Answered, Listed, OneFetch, CoEqual, Polled,
       Done
  <1>12. Sound({1}, a, PiholeFtlMessages(a))
    BY FineIsOk DEF Sound, PiholeFtlMessages, IsOk, Answered, Listed, OneFetch, CoEqual,
       Polled, Done
  <1>13. Sound({1, 2}, a, PiholeGravity(a))
    BY FineIsOk DEF Sound, PiholeGravity, IsOk, Answered, Listed, OneFetch, CoEqual, Polled,
       Done
  <1>14. Sound({1}, a, PiholeVersion(a))
    BY FineIsOk DEF Sound, PiholeVersion, IsOk, Answered, Listed, OneFetch, CoEqual, Polled,
       Done
  <1>15. Sound({1}, a, PiholeUpstreams(a))
    BY FineIsOk DEF Sound, PiholeUpstreams, IsOk, Answered, Listed, OneFetch, CoEqual, Polled,
       Done
  <1>16. Sound({1}, a, PiholeStatsSummary(a))
    BY FineIsOk DEF Sound, PiholeStatsSummary, IsOk, Answered, Listed, OneFetch, CoEqual,
       Polled, Done
  <1>17. Sound({1}, a, UnboundStats(a))
    <2>1. Fine(a[1]) => Usable(a[1]) # {}
      BY DEF Fine, Usable, First, Bad
    <2>2. IsOk(ParseUnboundStats(a[1])) => IsOk(a[1])
      BY DEF ParseUnboundStats, IsOk
    <2>3. IsOk(a[1]) /\ Usable(a[1]) # {} => IsOk(ParseUnboundStats(a[1]))
      BY DEF ParseUnboundStats
    <2>4. UnboundStats(a).ok = IsOk(ParseUnboundStats(a[1]))
      BY DEF UnboundStats
    <2> QED BY <2>1, <2>2, <2>3, <2>4, FineIsOk DEF Sound, IsOk, Answered
  <1>18. Sound(1..6, a, PiholeClients(a))
    BY FineIsOk DEF Sound, PiholeClients, IsOk, Answered, Listed, OneFetch, CoEqual, Polled,
       Done
  <1> QED BY <1>0, <1>1, <1>2, <1>3, <1>4, <1>5, <1>6, <1>7, <1>8, <1>9, <1>10, <1>11, <1>12,
             <1>13, <1>14, <1>15, <1>16, <1>17, <1>18 DEF Ordinary

LEMMA UnifiOrdinary ==
    ASSUME NEW a
    PROVE  /\ Ordinary({1}, a, UnifiAlarms(a))
           /\ Ordinary({1}, a, UnifiNetworkconf(a))
           /\ Ordinary({1}, a, UnifiWan(a))
           /\ Ordinary({1}, a, UnifiDevice(a))
           /\ Ordinary({1}, a, UnifiClientStats(a))
           /\ Ordinary({1}, a, UnifiClientDpi(a))
  <1> USE PlainRules DEF Collected, When, ApiTook, Listed, One, EmitFamily, For, Gauge
  <1>0. \A F, r : (\A f \in F : f \notin Gauge) => Plain(Numbers(F, r)) /\ Plain(EachOf(F, r)) /\ Plain(Constant(F, r))
    BY DEF Numbers, EachOf, Constant
  <1>1. Plain(UnifiAlarms(a).out)
    BY DEF UnifiAlarms
  <1>2. Plain(UnifiNetworkconf(a).out)
    BY DEF UnifiNetworkconf
  <1>3. Plain(UnifiWan(a).out)
    BY <1>0 DEF UnifiWan, EmitWwwMetrics, EmitFailoverMetrics, EmitSpeedtestMetrics
  <1>4. Plain(UnifiDevice(a).out)
    <2>1. Plain(EmitDeviceLevel(a[1]))
      BY DEF EmitDeviceLevel
    <2>2. Plain(EmitPortMetrics(a[1]))
      BY DEF EmitPortMetrics
    <2>3. Plain(EmitRadioMetrics(a[1])) /\ Plain(EmitOutletMetrics(a[1]))
      BY DEF EmitRadioMetrics, EmitOutletMetrics
    <2> QED BY <2>1, <2>2, <2>3 DEF UnifiDevice
  <1>5. Plain(UnifiClientStats(a).out)
    BY ZenonT(30) DEF UnifiClientStats, EmitCapped, EmitRollups
  <1>6. Plain(UnifiClientDpi(a).out)
    BY DEF UnifiClientDpi
  <1>7. Sound({1}, a, UnifiAlarms(a))
    BY FineIsOk DEF Sound, UnifiAlarms, IsOk, Answered, Listed, OneFetch, CoEqual, Polled, Done
  <1>8. Sound({1}, a, UnifiNetworkconf(a))
    BY FineIsOk DEF Sound, UnifiNetworkconf, IsOk, Answered, Listed, OneFetch, CoEqual, Polled,
       Done
  <1>9. Sound({1}, a, UnifiWan(a))
    BY FineIsOk DEF Sound, UnifiWan, IsOk, Answered, Listed, OneFetch, CoEqual, Polled, Done
  <1>10. Sound({1}, a, UnifiDevice(a))
    BY FineIsOk DEF Sound, UnifiDevice, IsOk, Answered, Listed, OneFetch, CoEqual, Polled, Done
  <1>11. Sound({1}, a, UnifiClientStats(a))
    BY FineIsOk DEF Sound, UnifiClientStats, IsOk, Answered, Listed, OneFetch, CoEqual, Polled,
       Done
  <1>12. Sound({1}, a, UnifiClientDpi(a))
    BY FineIsOk DEF Sound, UnifiClientDpi, IsOk, Answered, Listed, OneFetch, CoEqual, Polled,
       Done
  <1> QED BY <1>0, <1>1, <1>2, <1>3, <1>4, <1>5, <1>6, <1>7, <1>8, <1>9, <1>10, <1>11,
             <1>12 DEF Ordinary

LEMMA SynologyOrdinary ==
    ASSUME NEW a
    PROVE  /\ Ordinary({1}, a, SynologyStorage(a))
           /\ Ordinary({1}, a, SynologyPool(a))
           /\ Ordinary({1}, a, SynologyUtilization(a))
           /\ Ordinary({1, 2}, a, SynologyUps(a))
           /\ Ordinary({1, 2, 3}, a, SynologyUpdates(a))
           /\ Ordinary({1, 2, 3}, a, SynologySystem(a))
           /\ Ordinary({1, 2}, a, SynologyEvents(a))
           /\ Ordinary({1, 2}, a, SynologyCameras(a))
           /\ Ordinary({1, 2}, a, SynologyLicense(a))
           /\ Ordinary({1, 2}, a, SynologySecurity(a))
           /\ Ordinary({1, 2, 3}, a, SynologyReplication(a))
           /\ Ordinary({1, 2}, a, SynologyBackup(a))
  <1> USE PlainRules DEF Collected, When, FetchOrResult, OneFetch, CoEqual, EmitFamily, EmitFamilies, EmitScalars, For, Gauge
  <1>1. Plain(SynologyStorage(a).out)
    BY DEF SynologyStorage, ParseVolume, ParseDisk
  <1>2. Plain(SynologyPool(a).out)
    BY DEF SynologyPool, ParsePool, ParseRaid
  <1>3. Plain(SynologyUtilization(a).out)
    BY DEF SynologyUtilization, ParseCpu, ParseMemory, ParseNfs, Rates, UtilizationDisks,
           UtilizationSpace, UtilizationNetwork
  <1>4. Plain(SynologyUps(a).out)
    <2>1. Plain(ParseUps(a[1]))
      BY DEF ParseUps
    <2>2. Plain(ParseHealth(a[2]))
      BY DEF ParseHealth
    <2> QED BY <2>1, <2>2 DEF SynologyUps
  <1>5. Plain(SynologyUpdates(a).out)
    BY DEF SynologyUpdates, ParseUpgrade, ParsePackages
  <1>6. Plain(SynologySystem(a).out)
    BY DEF SynologySystem, ParseSystemInfo, ParseFanspeed, ParseNeedReboot
  <1>7. Plain(SynologyEvents(a).out)
    BY DEF SynologyEvents, ParseEvents, ParseRecordings
  <1>8. Plain(SynologyCameras(a).out)
    <2>1. Plain(ParseCameras(a[1]))
      BY ZenonT(30) DEF ParseCameras
    <2>2. Plain(ParseStationInfo(a[2]))
      BY DEF ParseStationInfo
    <2> QED BY <2>1, <2>2 DEF SynologyCameras
  <1>9. Plain(SynologyLicense(a).out)
    BY DEF SynologyLicense, ParseLicense, ParseHomemode
  <1>10. Plain(SynologySecurity(a).out)
    BY ZenonT(30) DEF SynologySecurity, ParseSecurity, ParseConnection
  <1>11. Plain(SynologyReplication(a).out)
    BY DEF SynologyReplication, ParseShareSnapshots
  <1>12. Plain(SynologyBackup(a).out)
    <2>1. Plain(ParseJob(a[1]))
      BY DEF ParseJob
    <2> QED BY <2>1 DEF SynologyBackup
  <1>13. Sound({1}, a, SynologyStorage(a))
    BY FineIsOk DEF Sound, SynologyStorage, IsOk, Answered, Listed, OneFetch, CoEqual, Polled,
       Done
  <1>14. Sound({1}, a, SynologyPool(a))
    BY FineIsOk DEF Sound, SynologyPool, IsOk, Answered, Listed, OneFetch, CoEqual, Polled, Done
  <1>15. Sound({1}, a, SynologyUtilization(a))
    BY FineIsOk DEF Sound, SynologyUtilization, IsOk, Answered, Listed, OneFetch, CoEqual,
       Polled, Done
  <1>16. Sound({1, 2}, a, SynologyUps(a))
    BY FineIsOk DEF Sound, SynologyUps, IsOk, Answered, Listed, OneFetch, CoEqual, Polled, Done
  <1>17. Sound({1, 2, 3}, a, SynologyUpdates(a))
    BY FineIsOk DEF Sound, SynologyUpdates, IsOk, Answered, Listed, OneFetch, CoEqual, Polled,
       Done
  <1>18. Sound({1, 2, 3}, a, SynologySystem(a))
    BY FineIsOk DEF Sound, SynologySystem, IsOk, Answered, Listed, OneFetch, CoEqual, Polled,
       Done
  <1>19. Sound({1, 2}, a, SynologyEvents(a))
    BY FineIsOk DEF Sound, SynologyEvents, IsOk, Answered, Listed, OneFetch, CoEqual, Polled,
       Done
  <1>20. Sound({1, 2}, a, SynologyCameras(a))
    BY FineIsOk DEF Sound, SynologyCameras, IsOk, Answered, Listed, OneFetch, CoEqual, Polled,
       Done
  <1>21. Sound({1, 2}, a, SynologyLicense(a))
    BY FineIsOk DEF Sound, SynologyLicense, IsOk, Answered, Listed, OneFetch, CoEqual, Polled,
       Done
  <1>22. Sound({1, 2}, a, SynologySecurity(a))
    BY FineIsOk DEF Sound, SynologySecurity, IsOk, Answered, Listed, OneFetch, CoEqual, Polled,
       Done
  <1>23. Sound({1, 2, 3}, a, SynologyReplication(a))
    BY FineIsOk DEF Sound, SynologyReplication, IsOk, Answered, Listed, OneFetch, CoEqual,
       Polled, Done
  <1>24. Sound({1, 2}, a, SynologyBackup(a))
    BY FineIsOk DEF Sound, SynologyBackup, IsOk, Answered, Listed, OneFetch, CoEqual, Polled,
       Done
  <1> QED BY <1>1, <1>2, <1>3, <1>4, <1>5, <1>6, <1>7, <1>8, <1>9, <1>10, <1>11, <1>12, <1>13,
             <1>14, <1>15, <1>16, <1>17, <1>18, <1>19, <1>20, <1>21, <1>22, <1>23, <1>24
             DEF Ordinary

LEMMA HostOrdinary ==
    ASSUME NEW a
    PROVE  /\ Ordinary({1, 2, 3}, a, HostCollector(a))
           /\ Ordinary({1, 2}, a, LogStreamBudget(a))
           /\ Ordinary({1}, a, LogErrorRate(a))
           /\ Plain(WatchedDirSize(a).out)
  <1> USE PlainRules DEF Collected, When, One, For, Gauge
  <1>1. Plain(HostCollector(a).out)
    BY DEF HostCollector, EmitDiskMountpoint, CollectMachine, CollectDevices
  <1>2. Plain(LogStreamBudget(a).out)
    BY DEF LogStreamBudget, Done
  <1>3. Plain(LogErrorRate(a).out)
    BY DEF LogErrorRate
  <1>4. Plain(WatchedDirSize(a).out)
    BY DEF WatchedDirSize
  <1>5. Sound({1, 2, 3}, a, HostCollector(a))
    <2>1. Fine(a[3]) => \A i \in Present(a[3]) : First(a[3], i) # Bad
      BY DEF Fine, First, Bad
    <2>2. HostCollector(a).ok <=> /\ \A k \in 1..3 : a[k] # Unasked
                                  /\ a[1] # Down /\ IsOk(a[3])
                                  /\ ~\E i \in Present(a[3]) : First(a[3], i) = Bad
      BY DEF HostCollector, Done
    <2> QED BY <2>1, <2>2, FineIsOk DEF Sound, IsOk, Answered
  <1>6. Sound({1, 2}, a, LogStreamBudget(a))
    BY FineIsOk DEF Sound, LogStreamBudget, IsOk, Answered, Listed, OneFetch, CoEqual, Polled,
       Done
  <1>7. Sound({1}, a, LogErrorRate(a))
    BY FineIsOk DEF Sound, LogErrorRate, IsOk, Answered, Listed, OneFetch, CoEqual, Polled, Done
  <1> QED BY <1>1, <1>2, <1>3, <1>4, <1>5, <1>6, <1>7 DEF Ordinary

\* The one gauge of a run, and its value.
Shows(f, s, v) == s \in DOMAIN f /\ f[s] = v /\ \A t \in DOMAIN f : t[1] \in Gauge => t = s

\* Series of other families that are written with a gauge leave it as it is.
LEMMA ShowsRules ==
    /\ \A f, l, v : Shows(With(f, l, v), <<f, l>>, v)
    /\ \A f, g, s, v : Shows(f, s, v) /\ Plain(g) => Shows(f ++ g, s, v)
    /\ \A f, g, s, v : Plain(f) /\ Shows(g, s, v) /\ s[1] \in Gauge => Shows(f ++ g, s, v)
    /\ \A f, g, s, t, v, w : Shows(f, s, v) /\ Shows(g, t, w) /\ s # t /\ s[1] \in Gauge /\ t[1] \in Gauge =>
          /\ {s, t} \subseteq DOMAIN (f ++ g)
          /\ (f ++ g)[s] = v /\ (f ++ g)[t] = w
          /\ \A x \in DOMAIN (f ++ g) : x[1] \in Gauge => x \in {s, t}
    /\ \A f, g, s, v, w : Shows(f, s, v) /\ Shows(g, s, w) => Shows(f ++ g, s, v)
  <1>1. \A p, s : s \in DOMAIN p[1] => Joined(p)[s] = p[1][s]
    BY DEF Joined
  <1>2. \A p, s : s \notin DOMAIN p[1] /\ s \in DOMAIN p[2] => Joined(p)[s] = p[2][s]
    BY DEF Joined
  <1>3. \A f, g, s : s \in DOMAIN f => (f ++ g)[s] = f[s]
    BY <1>1 DEF ++
  <1>4. \A f, g, s : s \notin DOMAIN f /\ s \in DOMAIN g => (f ++ g)[s] = g[s]
    BY <1>2 DEF ++
  <1>5. \A f, g, s : s \in DOMAIN (f ++ g) <=> s \in DOMAIN f \/ s \in DOMAIN g
    BY JoinedDomain, ZenonT(30)
  <1>6. \A f, l, v : Shows(With(f, l, v), <<f, l>>, v)
    BY DEF Shows, With, Single
  <1>7. \A f, g, s, v : Shows(f, s, v) /\ Plain(g) => Shows(f ++ g, s, v)
    BY <1>3, <1>5 DEF Shows, Plain
  <1>8. \A f, g, s, v : Plain(f) /\ Shows(g, s, v) /\ s[1] \in Gauge => Shows(f ++ g, s, v)
    BY <1>4, <1>5 DEF Shows, Plain
  <1>9. \A f, g, s, t, v, w : Shows(f, s, v) /\ Shows(g, t, w) /\ s # t /\ s[1] \in Gauge /\ t[1] \in Gauge =>
          /\ {s, t} \subseteq DOMAIN (f ++ g)
          /\ (f ++ g)[s] = v /\ (f ++ g)[t] = w
          /\ \A x \in DOMAIN (f ++ g) : x[1] \in Gauge => x \in {s, t}
    BY <1>3, <1>4, <1>5 DEF Shows
  <1>10. \A f, g, s, v, w : Shows(f, s, v) /\ Shows(g, s, w) => Shows(f ++ g, s, v)
    BY <1>3, <1>5 DEF Shows
  <1> QED BY <1>6, <1>7, <1>8, <1>9, <1>10

\* A result whose gauges are U: at 0 if nothing is answered, and none at 0 if all is well.
Tells(U, calls, a, r) ==
    /\ \A s \in DOMAIN r.out : s[1] \in Gauge => s \in U
    /\ Done(calls, a) => U \subseteq DOMAIN r.out
    /\ Done(calls, a) /\ (\A k \in calls : a[k] \in {Down, Unasked}) => ~r.ok \/ \E s \in U : r.out[s] = 0
    /\ (\A k \in calls : Fine(a[k])) => r.ok /\ \A s \in U : r.out[s] # 0

\* A result with one gauge that is 1 if and only if the run went well
LEMMA OneGauge ==
    ASSUME NEW calls, NEW a, NEW r, NEW s, NEW up \in BOOLEAN,
           Shows(r.out, s, Bit(up)), r.ok \in BOOLEAN,
           Done(calls, a) /\ (\A k \in calls : a[k] \in {Down, Unasked}) => ~up \/ ~r.ok,
           (\A k \in calls : Fine(a[k])) => r.ok /\ up
    PROVE  Tells({s}, calls, a, r)
  BY DEF Tells, Shows, Bit

\* The collectors with a gauge, one by one.
LEMMA HaUpTells == ASSUME NEW a PROVE Tells({<<"ha_up", NoLabels>>}, {1}, a, HaUp(a))
  <1>1. Shows(HaUp(a).out, <<"ha_up", NoLabels>>, Bit(IsOk(a[1])))
    BY ShowsRules DEF HaUp, Collected, One
  <1>2. HaUp(a).ok = TRUE
    BY DEF HaUp, Collected
  <1>3. IsOk(a[1]) \in BOOLEAN /\ ~IsOk(Down) /\ ~IsOk(Unasked)
    BY DEF IsOk
  <1>4. Fine(a[1]) => IsOk(a[1])
    BY FineIsOk
  <1> QED BY <1>1, <1>2, <1>3, <1>4, OneGauge

LEMMA VlHealthTells == ASSUME NEW a PROVE Tells({<<"vl_up", NoLabels>>}, {1}, a, VlHealth(a))
  <1>1. Shows(VlHealth(a).out, <<"vl_up", NoLabels>>, Bit(IsOk(a[1])))
    BY ShowsRules, PlainRules DEF VlHealth, Collected, One, Gauge
  <1>2. VlHealth(a).ok = TRUE
    BY DEF VlHealth, Collected
  <1>3. IsOk(a[1]) \in BOOLEAN /\ ~IsOk(Down) /\ ~IsOk(Unasked)
    BY DEF IsOk
  <1>4. Fine(a[1]) => IsOk(a[1])
    BY FineIsOk
  <1> QED BY <1>1, <1>2, <1>3, <1>4, OneGauge

LEMMA ProbeShows ==
    ASSUME NEW up \in Gauge, NEW result, NEW seconds, NEW labels, NEW outcome,
           result \notin Gauge, seconds \notin Gauge
    PROVE  Shows(ProbeSeries(up, result, seconds, labels, outcome), <<up, labels>>, Bit(outcome = "ok"))
  BY ShowsRules, PlainRules DEF ProbeSeries, When

\* An address that resolves well counts as resolved.
LEMMA FineResolves ==
    /\ \A r : Fine(r) => ResolveA(r) = "ok"
    /\ ResolveA(Down) # "ok" /\ ResolveA(Unasked) # "ok"
  <1>1. ASSUME NEW r, Fine(r) PROVE ResolveA(r) = "ok"
    <2>1. r # Down /\ r # Odd /\ 1 \in Present(r) /\ 1 \in Usable(r) /\ First(r, 1) = 1
      BY <1>1 DEF Fine, Present, IsOk, Usable, First, Bad
    <2> QED BY <2>1 DEF ResolveA, ParseResponse
  <1>2. ResolveA(Down) # "ok"
    BY DEF ResolveA
  <1>3. ResolveA(Unasked) # "ok"
    <2>1. 1 \notin Present(Unasked) /\ 1 \notin Usable(Unasked)
      BY DEF Present, Usable, IsOk
    <2>2. ParseResponse(Unasked) = "timeout"
      BY <2>1 DEF ParseResponse
    <2>3. CASE Unasked = Down
      BY <1>2, <2>3
    <2>4. CASE Unasked # Down /\ Unasked = Odd
      BY <2>4 DEF ResolveA
    <2>5. CASE Unasked # Down /\ Unasked # Odd
      BY <2>2, <2>5 DEF ResolveA
    <2> QED BY <2>3, <2>4, <2>5
  <1> QED BY <1>1, <1>2, <1>3

LEMMA DnsHealthTells == ASSUME NEW a PROVE Tells({<<"pihole_up", NoLabels>>}, {1}, a, PiholeDnsHealth(a))
  <1>1. Shows(PiholeDnsHealth(a).out, <<"pihole_up", NoLabels>>, Bit(ResolveA(a[1]) = "ok"))
    BY ProbeShows DEF PiholeDnsHealth, Collected, Gauge
  <1>2. PiholeDnsHealth(a).ok = (ResolveA(a[1]) = "ok")
    BY DEF PiholeDnsHealth, Collected
  <1> DEFINE up == ResolveA(a[1]) = "ok"
  <1>3. up \in BOOLEAN
    OBVIOUS
  <1>4. a[1] \in {Down, Unasked} => ~up
    BY FineResolves
  <1>5. Fine(a[1]) => up
    BY FineResolves
  <1>6. Shows(PiholeDnsHealth(a).out, <<"pihole_up", NoLabels>>, Bit(up)) /\ PiholeDnsHealth(a).ok = up
    BY <1>1, <1>2
  <1> HIDE DEF up
  <1> QED BY <1>3, <1>4, <1>5, <1>6, OneGauge

LEMMA ControllerTells ==
    ASSUME NEW a
    PROVE  Tells({<<"unifi_up", NoLabels>>}, {1}, a, UnifiControllerUp(a))
  <1> DEFINE up == SysinfoReason(a[1]) = "ok"
  <1>1. Shows(UnifiControllerUp(a).out, <<"unifi_up", NoLabels>>, Bit(up))
    BY ShowsRules, PlainRules DEF UnifiControllerUp, ApiTook, When, UpWithReason, One,
       Collected, Gauge
  <1>2. UnifiControllerUp(a).ok = up
    BY DEF UnifiControllerUp, Collected
  <1>3. up \in BOOLEAN
    OBVIOUS
  <1>4. a[1] \in {Down, Unasked} => ~up
    BY DEF SysinfoReason, Present, IsOk
  <1>5. Fine(a[1]) => up
    <2> SUFFICES ASSUME Fine(a[1]) PROVE up
      OBVIOUS
    <2>1. a[1] # Down /\ a[1] # Odd /\ Present(a[1]) # {} /\ Present(a[1]) \ Usable(a[1]) = {}
      BY DEF Fine, Present, IsOk, Usable, First, Bad
    <2> QED BY <2>1 DEF SysinfoReason
  <1> HIDE DEF up
  <1> QED BY <1>1, <1>2, <1>3, <1>4, <1>5, OneGauge

LEMMA TeleportTells ==
    ASSUME NEW a
    PROVE  Tells({<<"unifi_teleport_up", NoLabels>>}, {1}, a, UnifiVpnTeleport(a))
  <1> DEFINE up == TeleportReason(a[1]) = "ok"
  <1>1. Shows(UnifiVpnTeleport(a).out, <<"unifi_teleport_up", NoLabels>>, Bit(up))
    BY ShowsRules, PlainRules DEF UnifiVpnTeleport, ApiTook, When, UpWithReason, One,
       Collected, Gauge
  <1>2. UnifiVpnTeleport(a).ok = up
    BY DEF UnifiVpnTeleport, Collected
  <1>3. up \in BOOLEAN
    OBVIOUS
  <1>4. a[1] \in {Down, Unasked} => ~up
    BY DEF TeleportReason, Present, IsOk
  <1>5. Fine(a[1]) => up
    <2> SUFFICES ASSUME Fine(a[1]) PROVE up
      OBVIOUS
    <2>1. /\ a[1] # Down /\ a[1] # Odd /\ Present(a[1]) # {}
          /\ \A i \in Present(a[1]) : First(a[1], i) # Bad /\ Second(a[1], i) # Bad
      BY DEF Fine, Present, IsOk, First, Second, Bad
    <2> QED BY <2>1 DEF TeleportReason
  <1> HIDE DEF up
  <1> QED BY <1>1, <1>2, <1>3, <1>4, <1>5, OneGauge

LEMMA SshTells ==
    ASSUME NEW a, NEW name, NEW b \in BOOLEAN, NEW metrics, Plain(metrics), Fine(a[1]) => b
    PROVE  Tells({<<"ssh_up", [target |-> name]>>}, {1}, a, SshProbe(name, b, metrics, a[1]))
  <1> DEFINE up == IsOk(a[1]) /\ b
             r == SshProbe(name, b, metrics, a[1])
  <1>1. Shows(r.out, <<"ssh_up", [target |-> name]>>, Bit(up))
    BY ShowsRules, PlainRules DEF SshProbe, When, Collected, Gauge
  <1>2. r.ok = IsOk(a[1])
    BY DEF SshProbe, Collected
  <1>3. up \in BOOLEAN /\ r.ok \in BOOLEAN
    BY <1>2 DEF IsOk
  <1>4. a[1] \in {Down, Unasked} => ~up
    BY DEF IsOk
  <1>5. Fine(a[1]) => up /\ r.ok
    BY <1>2, FineIsOk
  <1> HIDE DEF up, r
  <1>6. Tells({<<"ssh_up", [target |-> name]>>}, {1}, a, r)
    BY <1>1, <1>3, <1>4, <1>5, OneGauge
  <1> QED BY <1>6 DEF r

LEMMA UptimeTells ==
    ASSUME NEW a
    PROVE  Tells({<<"ssh_up", [target |-> "host"]>>}, {1}, a, UptimeProbe(a))
  <1> DEFINE m == IF 1 \in Usable(a[1]) THEN With("ssh_uptime_seconds", [target |-> "host"], First(a[1], 1))
                               ELSE NoSeries
  <1>1. Plain(m)
    BY PlainRules DEF Gauge
  <1>2. Fine(a[1]) => 1 \in Usable(a[1])
    BY DEF Fine, Usable, First, Bad
  <1> HIDE DEF m
  <1>3. UptimeProbe(a) = SshProbe("host", 1 \in Usable(a[1]), m, a[1])
    BY DEF UptimeProbe, m
  <1> DEFINE b == 1 \in Usable(a[1])
  <1>4. b \in BOOLEAN /\ (Fine(a[1]) => b) /\ UptimeProbe(a) = SshProbe("host", b, m, a[1])
    BY <1>2, <1>3
  <1> HIDE DEF b
  <1> QED BY <1>1, <1>4, SshTells

LEMMA SynologyProbeTells ==
    ASSUME NEW a
    PROVE  Tells({<<"ssh_up", [target |-> "synology"]>>}, {1}, a, SynologyProbe(a))
  <1> DEFINE r == a[1]
             m == ParseUptime(r) ++ ParseSmartBlock(r) ++ ParseMdstat(r) ++ ParseHwmon(r)
  <1>0. \A F : (\A f \in F : f \notin Gauge) => Plain(Numbers(F, r))
    BY PlainRules DEF Numbers, When, Constant
  <1>1. Plain(ParseUptime(r)) /\ Plain(ParseHwmon(r))
    BY <1>0, PlainRules DEF ParseUptime, ParseHwmon, When, One, Gauge
  <1>2. Plain(ParseSmartBlock(r)) /\ Plain(ParseMdstat(r))
    BY PlainRules DEF ParseSmartBlock, ParseMdstat, When, Gauge
  <1>3. Plain(m)
    BY <1>1, <1>2, PlainRules
  <1>4. Fine(a[1]) => 1 \in Usable(a[1])
    BY DEF Fine, Usable, First, Bad
  <1>5. SynologyProbe(a) = SshProbe("synology", 1 \in Usable(a[1]), m, a[1])
    BY DEF SynologyProbe
  <1> DEFINE b == 1 \in Usable(a[1])
  <1> HIDE DEF m
  <1>6. b \in BOOLEAN /\ (Fine(a[1]) => b) /\ SynologyProbe(a) = SshProbe("synology", b, m, a[1])
    BY <1>4, <1>5
  <1> HIDE DEF b
  <1> QED BY <1>3, <1>6, SshTells

\* A result with two gauges.
LEMMA TwoGauges ==
    ASSUME NEW calls, NEW a, NEW r, NEW s, NEW t, NEW up \in BOOLEAN, NEW ut \in BOOLEAN,
           {s, t} \subseteq DOMAIN r.out,
           r.out[s] = Bit(up), r.out[t] = Bit(ut),
           \A x \in DOMAIN r.out : x[1] \in Gauge => x \in {s, t},
           Done(calls, a) /\ (\A k \in calls : a[k] \in {Down, Unasked}) => ~up,
           (\A k \in calls : Fine(a[k])) => r.ok /\ up /\ ut
    PROVE  Tells({s, t}, calls, a, r)
  BY DEF Tells, Bit

LEMMA DnsSplitTells ==
    ASSUME NEW a
    PROVE  Tells({<<"dns_resolution_up", [path |-> "pihole"]>>, <<"dns_resolution_up", [path |-> "direct"]>>},
                 {1, 2}, a, PiholeDnsSplit(a))
  <1> DEFINE s == <<"dns_resolution_up", [path |-> "pihole"]>>
             t == <<"dns_resolution_up", [path |-> "direct"]>>
             up == ResolveA(a[1]) = "ok"
             ut == ResolveA(a[2]) = "ok"
             E(path, r) == ProbeSeries("dns_resolution_up", "dns_resolution_probe_result",
                        "dns_resolution_seconds", [path |-> path], ResolveA(r))
             r == PiholeDnsSplit(a)
             done == Done({1, 2}, a)
  <1>1. s # t /\ s[1] \in Gauge /\ t[1] \in Gauge
    <2>1. [path |-> "pihole"] # [path |-> "direct"]
      <3>1. [path |-> "pihole"].path # [path |-> "direct"].path
        OBVIOUS
      <3> QED BY <3>1
    <2> QED BY <2>1 DEF Gauge
  <1>2. Shows(E("pihole", a[1]), s, Bit(up)) /\ Shows(E("direct", a[2]), t, Bit(ut))
    BY ProbeShows DEF Gauge
  <1>3. up \in BOOLEAN /\ ut \in BOOLEAN
    OBVIOUS
  <1>4. (\A k \in {1, 2} : a[k] \in {Down, Unasked}) => ~up
    BY FineResolves
  <1>5. (\A k \in {1, 2} : Fine(a[k])) => up /\ ut
    BY FineResolves
  <1>6. 1..2 = {1, 2}
    OBVIOUS
  <1>7. r.ok = (done /\ up /\ ut)
    BY <1>6 DEF PiholeDnsSplit, Collected
  <1>8. r.out = IF done THEN E("pihole", a[1]) ++ E("direct", a[2]) ELSE NoSeries
    BY <1>6 DEF PiholeDnsSplit, Collected, When
  <1>9. (\A k \in {1, 2} : Fine(a[k])) => done
    BY FineIsOk DEF Done, IsOk
  <1> HIDE DEF s, t, up, ut, E, r, done
  <1>10. CASE done
    <2>1. /\ {s, t} \subseteq DOMAIN r.out
          /\ r.out[s] = Bit(up) /\ r.out[t] = Bit(ut)
          /\ \A x \in DOMAIN r.out : x[1] \in Gauge => x \in {s, t}
      BY <1>1, <1>2, <1>8, <1>10, ShowsRules
    <2>2. Tells({s, t}, {1, 2}, a, r)
      BY <2>1, <1>3, <1>4, <1>5, <1>7, <1>10, TwoGauges
    <2> QED BY <2>2 DEF s, t, r
  <1>11. CASE ~done
    <2>1. DOMAIN r.out = {}
      BY <1>8, <1>11 DEF NoSeries
    <2>2. Tells({s, t}, {1, 2}, a, r)
      BY <2>1, <1>9, <1>11 DEF Tells, done
    <2> QED BY <2>2 DEF s, t, r
  <1> QED BY <1>10, <1>11

LEMMA MountTells ==
    ASSUME NEW a
    PROVE  Tells({<<"synology_mount_up", [mount |-> 1]>>, <<"synology_mount_up", [mount |-> 2]>>},
                 {1, 2}, a, SynologyMountHealth(a))
  <1> DEFINE s(k) == <<"synology_mount_up", [mount |-> k]>>
             By(f, k, v) == With(f, [mount |-> k], v)
             Of(k, r) == When(IsOk(r), By("synology_mount_up", k, 1) ++ By("synology_mount_free_bytes", k, 1)
                              ++ By("synology_mount_total_bytes", k, 1))
                ++ When(r \notin {Unasked, Odd}, By("synology_mount_probe_seconds", k, 1))
                ++ By("synology_mount_up", k, 0)
             r == SynologyMountHealth(a)
             up == IsOk(a[1])
             ut == IsOk(a[2])
  <1>1. ASSUME NEW k, NEW x PROVE Shows(Of(k, x), s(k), Bit(IsOk(x)))
    <2>1. /\ Shows(By("synology_mount_up", k, 1), s(k), 1) /\ Shows(By("synology_mount_up", k, 0), s(k), 0)
          /\ Plain(By("synology_mount_free_bytes", k, 1)) /\ Plain(By("synology_mount_total_bytes", k, 1))
          /\ Plain(By("synology_mount_probe_seconds", k, 1))
      BY ShowsRules, PlainRules DEF Gauge
    <2>2. Shows(By("synology_mount_up", k, 1) ++ By("synology_mount_free_bytes", k, 1)
                              ++ By("synology_mount_total_bytes", k, 1), s(k), 1)
      BY <2>1, ShowsRules
    <2>3. Plain(When(x \notin {Unasked, Odd}, By("synology_mount_probe_seconds", k, 1)))
      BY <2>1, PlainRules DEF When
    <2>4. s(k)[1] \in Gauge
      BY DEF Gauge
    <2> HIDE DEF By, s
    <2>5. CASE IsOk(x)
      BY <2>1, <2>2, <2>3, <2>4, <2>5, ShowsRules DEF When, Bit
    <2>6. CASE ~IsOk(x)
      BY <2>1, <2>3, <2>4, <2>6, ShowsRules, PlainRules DEF When, Bit
    <2> QED BY <2>5, <2>6
  <1>2. s(1) # s(2) /\ s(1)[1] \in Gauge /\ s(2)[1] \in Gauge
    <2>1. [mount |-> 1] # [mount |-> 2]
      <3>1. [mount |-> 1].mount # [mount |-> 2].mount
        OBVIOUS
      <3> QED BY <3>1
    <2> QED BY <2>1 DEF Gauge
  <1>3. r.out = Of(1, a[1]) ++ When(a[1] # Unasked, Of(2, a[2])) /\ r.ok = TRUE
    BY DEF SynologyMountHealth, Collected
  <1>4. up \in BOOLEAN /\ ut \in BOOLEAN /\ ~IsOk(Down) /\ ~IsOk(Unasked)
    BY DEF IsOk
  <1>5. \A k \in {1, 2} : Fine(a[k]) => IsOk(a[k]) /\ a[k] # Unasked
    BY FineIsOk DEF IsOk
  <1>6. Shows(Of(1, a[1]), s(1), Bit(up)) /\ Shows(Of(2, a[2]), s(2), Bit(ut))
    BY <1>1
  <1> HIDE DEF Of, s, r
  <1>7. CASE a[1] # Unasked
    <2>1. /\ {s(1), s(2)} \subseteq DOMAIN r.out
          /\ r.out[s(1)] = Bit(up) /\ r.out[s(2)] = Bit(ut)
          /\ \A x \in DOMAIN r.out : x[1] \in Gauge => x \in {s(1), s(2)}
      BY <1>2, <1>3, <1>6, <1>7, ShowsRules DEF When
    <2>2. (\A k \in {1, 2} : a[k] \in {Down, Unasked}) => ~up
      BY <1>4
    <2>3. (\A k \in {1, 2} : Fine(a[k])) => r.ok /\ up /\ ut
      BY <1>3, <1>5
    <2> HIDE DEF up, ut
    <2>4. up \in BOOLEAN /\ ut \in BOOLEAN
      BY <1>4 DEF up, ut
    <2> DEFINE x == s(1)
               y == s(2)
    <2>5. /\ {x, y} \subseteq DOMAIN r.out
          /\ r.out[x] = Bit(up) /\ r.out[y] = Bit(ut)
          /\ \A z \in DOMAIN r.out : z[1] \in Gauge => z \in {x, y}
      BY <2>1
    <2> HIDE DEF x, y
    <2>6. Tells({x, y}, {1, 2}, a, r)
      BY <2>2, <2>3, <2>4, <2>5, TwoGauges
    <2> QED BY <2>6 DEF x, y, s, r
  <1>8. CASE a[1] = Unasked
    <2>1. \A x \in DOMAIN r.out : x[1] \in Gauge => x = s(1)
      <3>1. r.out = Of(1, a[1]) ++ NoSeries
        BY <1>3, <1>8 DEF When
      <3>2. Shows(r.out, s(1), Bit(up))
        BY <3>1, <1>6, ShowsRules, PlainRules
      <3> QED BY <3>2 DEF Shows
    <2>2. ~Done({1, 2}, a) /\ ~Fine(a[1])
      BY <1>5, <1>8 DEF Done
    <2>3. Tells({s(1), s(2)}, {1, 2}, a, r)
      BY <2>1, <2>2 DEF Tells
    <2> QED BY <2>3 DEF s, r
  <1> QED BY <1>7, <1>8

\* The collectors without a gauge of the service, by the number of their calls.
Once == {"ha_battery", "ha_sensor_value", "ha_safety_sensors", "ha_update",
        "ha_entity_available", "ha_cadence", "ha_config_entry", "ha_repairs",
        "ha_persistent_notification", "pihole_blocking", "pihole_config", "pihole_ftl_messages",
        "pihole_version", "pihole_upstreams", "pihole_stats_summary", "unbound_stats",
        "unifi_threat", "unifi_networkconf", "unifi_wan", "unifi_device", "unifi_client_stats",
        "unifi_client_dpi", "synology_storage", "synology_pool", "synology_utilization",
        "log_error_rate"}

Twice == {"pihole_ftl_health", "pihole_gravity", "synology_ups", "synology_events",
          "synology_cameras", "synology_license", "synology_security", "synology_backup",
          "log_stream_budget"}

Thrice == {"synology_updates", "synology_system", "synology_replication", "host"}

\* The gauges of a collector.
Up(p) ==
    CASE p = "ha_up" -> {<<"ha_up", NoLabels>>}
      [] p = "vl_health" -> {<<"vl_up", NoLabels>>}
      [] p = "pihole_dns_health" -> {<<"pihole_up", NoLabels>>}
      [] p = "unifi_controller_up" -> {<<"unifi_up", NoLabels>>}
      [] p = "unifi_vpn_teleport" -> {<<"unifi_teleport_up", NoLabels>>}
      [] p = "uptime_host" -> {<<"ssh_up", [target |-> "host"]>>}
      [] p = "synology_probe" -> {<<"ssh_up", [target |-> "synology"]>>}
      [] p = "pihole_dns_split" -> {<<"dns_resolution_up", [path |-> "pihole"]>>,
                                    <<"dns_resolution_up", [path |-> "direct"]>>}
      [] p = "synology_mount_health" -> {<<"synology_mount_up", [mount |-> 1]>>,
                                         <<"synology_mount_up", [mount |-> 2]>>}
      [] OTHER -> {}

\* The calls of a run in which each of them is made.
CallsOf(p) ==
    CASE p \in Twice \cup {"pihole_dns_split", "synology_mount_health", "watched_dir_size"} -> {1, 2}
      [] p \in Thrice -> {1, 2, 3}
      [] p = "pihole_clients" -> 1..6
      [] OTHER -> {1}

LEMMA OrdinaryResults ==
    ASSUME NEW a
    PROVE  /\ \A p \in Once : Ordinary({1}, a, Result(p, a))
           /\ \A p \in Twice : Ordinary({1, 2}, a, Result(p, a))
           /\ \A p \in Thrice : Ordinary({1, 2, 3}, a, Result(p, a))
           /\ Ordinary(1..6, a, Result("pihole_clients", a))
  <1>1. \A p \in {"ha_battery", "ha_sensor_value", "ha_safety_sensors", "ha_update",
        "ha_entity_available", "ha_cadence", "ha_config_entry", "ha_repairs",
        "ha_persistent_notification"} : Ordinary({1}, a, Result(p, a))
    BY HaOrdinary DEF Result
  <1>2. \A p \in {"pihole_blocking", "pihole_config", "pihole_ftl_messages",
        "pihole_version", "pihole_upstreams", "pihole_stats_summary", "unbound_stats"} :
            Ordinary({1}, a, Result(p, a))
    BY PiholeOrdinary DEF Result
  <1>3. \A p \in {"unifi_threat", "unifi_networkconf", "unifi_wan", "unifi_device", "unifi_client_stats",
        "unifi_client_dpi"} : Ordinary({1}, a, Result(p, a))
    BY UnifiOrdinary DEF Result
  <1>4. \A p \in {"synology_storage", "synology_pool", "synology_utilization"} :
            Ordinary({1}, a, Result(p, a))
    BY SynologyOrdinary DEF Result
  <1>5. \A p \in {"synology_ups", "synology_events",
          "synology_cameras", "synology_license", "synology_security", "synology_backup"} :
            Ordinary({1, 2}, a, Result(p, a))
    BY SynologyOrdinary DEF Result
  <1>6. \A p \in {"synology_updates", "synology_system", "synology_replication"} :
            Ordinary({1, 2, 3}, a, Result(p, a))
    BY SynologyOrdinary DEF Result
  <1>7. \A p \in {"pihole_ftl_health", "pihole_gravity"} : Ordinary({1, 2}, a, Result(p, a))
    BY PiholeOrdinary DEF Result
  <1>8. Ordinary(1..6, a, Result("pihole_clients", a))
    BY PiholeOrdinary DEF Result
  <1>9. /\ Ordinary({1, 2, 3}, a, Result("host", a))
        /\ Ordinary({1, 2}, a, Result("log_stream_budget", a))
        /\ Ordinary({1}, a, Result("log_error_rate", a))
    BY HostOrdinary DEF Result
  <1> QED BY <1>1, <1>2, <1>3, <1>4, <1>5, <1>6, <1>7, <1>8, <1>9 DEF Once, Twice, Thrice

\* The calls that are made: those after the first depend on its answer only.
Made(p, a, r) ==
    r.calls = IF p = "pihole_clients" /\ a[1] = Down THEN 1..6 \ {4}
              ELSE IF p \in {"synology_system", "log_stream_budget"} /\ a[1] = Down THEN {1}
              ELSE IF p = "synology_replication" /\ a[1] # Unasked /\ Usable(a[1]) = {} THEN {1, 3}
              ELSE CallsOf(p)

\* The collectors by the calls they make.
LEMMA CallsOnce ==
    ASSUME NEW a
    PROVE  /\ HaUp(a).calls = {1}
           /\ HaBattery(a).calls = {1}
           /\ HaSensorValue(a).calls = {1}
           /\ HaSafetySensors(a).calls = {1}
           /\ HaUpdate(a).calls = {1}
           /\ HaEntityAvailable(a).calls = {1}
           /\ HaCadence(a).calls = {1}
           /\ HaConfigEntry(a).calls = {1}
           /\ HaRepairs(a).calls = {1}
           /\ HaPersistentNotification(a).calls = {1}
           /\ PiholeBlocking(a).calls = {1}
           /\ PiholeConfig(a).calls = {1}
           /\ PiholeFtlMessages(a).calls = {1}
           /\ PiholeDnsHealth(a).calls = {1}
           /\ PiholeVersion(a).calls = {1}
           /\ PiholeUpstreams(a).calls = {1}
           /\ PiholeStatsSummary(a).calls = {1}
           /\ UnboundStats(a).calls = {1}
           /\ UnifiAlarms(a).calls = {1}
           /\ UnifiNetworkconf(a).calls = {1}
           /\ UnifiWan(a).calls = {1}
           /\ UnifiDevice(a).calls = {1}
           /\ UnifiClientStats(a).calls = {1}
           /\ UnifiClientDpi(a).calls = {1}
           /\ UnifiControllerUp(a).calls = {1}
           /\ UnifiVpnTeleport(a).calls = {1}
           /\ SynologyStorage(a).calls = {1}
           /\ SynologyPool(a).calls = {1}
           /\ SynologyUtilization(a).calls = {1}
           /\ LogErrorRate(a).calls = {1}
           /\ VlHealth(a).calls = {1}
           /\ UptimeProbe(a).calls = {1}
           /\ SynologyProbe(a).calls = {1}
  <1> USE DEF Collected, Polled, EmitFamily, EmitUsable, For, OneFetch, Listed, ListedAsOne, SshProbe, When
  <1>1. HaUp(a).calls = {1}
    BY DEF HaUp
  <1>2. HaBattery(a).calls = {1}
    BY DEF HaBattery
  <1>3. HaSensorValue(a).calls = {1}
    BY DEF HaSensorValue
  <1>4. HaSafetySensors(a).calls = {1}
    BY DEF HaSafetySensors
  <1>5. HaUpdate(a).calls = {1}
    BY DEF HaUpdate
  <1>6. HaEntityAvailable(a).calls = {1}
    BY DEF HaEntityAvailable
  <1>7. HaCadence(a).calls = {1}
    BY DEF HaCadence
  <1>8. HaConfigEntry(a).calls = {1}
    BY DEF HaConfigEntry
  <1>9. HaRepairs(a).calls = {1}
    BY DEF HaRepairs
  <1>10. HaPersistentNotification(a).calls = {1}
    BY DEF HaPersistentNotification
  <1>11. PiholeBlocking(a).calls = {1}
    BY DEF PiholeBlocking
  <1>12. PiholeConfig(a).calls = {1}
    BY DEF PiholeConfig
  <1>13. PiholeFtlMessages(a).calls = {1}
    BY DEF PiholeFtlMessages
  <1>14. PiholeDnsHealth(a).calls = {1}
    BY DEF PiholeDnsHealth
  <1>15. PiholeVersion(a).calls = {1}
    BY DEF PiholeVersion
  <1>16. PiholeUpstreams(a).calls = {1}
    BY DEF PiholeUpstreams
  <1>17. PiholeStatsSummary(a).calls = {1}
    BY DEF PiholeStatsSummary
  <1>18. UnboundStats(a).calls = {1}
    BY DEF UnboundStats
  <1>19. UnifiAlarms(a).calls = {1}
    BY DEF UnifiAlarms
  <1>20. UnifiNetworkconf(a).calls = {1}
    BY DEF UnifiNetworkconf
  <1>21. UnifiWan(a).calls = {1}
    BY DEF UnifiWan
  <1>22. UnifiDevice(a).calls = {1}
    BY DEF UnifiDevice
  <1>23. UnifiClientStats(a).calls = {1}
    BY DEF UnifiClientStats
  <1>24. UnifiClientDpi(a).calls = {1}
    BY DEF UnifiClientDpi
  <1>25. UnifiControllerUp(a).calls = {1}
    BY DEF UnifiControllerUp
  <1>26. UnifiVpnTeleport(a).calls = {1}
    BY DEF UnifiVpnTeleport
  <1>27. SynologyStorage(a).calls = {1}
    BY DEF SynologyStorage
  <1>28. SynologyPool(a).calls = {1}
    BY DEF SynologyPool
  <1>29. SynologyUtilization(a).calls = {1}
    BY DEF SynologyUtilization
  <1>30. LogErrorRate(a).calls = {1}
    BY DEF LogErrorRate
  <1>31. VlHealth(a).calls = {1}
    BY DEF VlHealth
  <1>32. UptimeProbe(a).calls = {1}
    BY DEF UptimeProbe
  <1>33. SynologyProbe(a).calls = {1}
    BY DEF SynologyProbe
  <1> QED BY <1>1, <1>2, <1>3, <1>4, <1>5, <1>6, <1>7, <1>8, <1>9, <1>10, <1>11, <1>12, <1>13,
             <1>14, <1>15, <1>16, <1>17, <1>18, <1>19, <1>20, <1>21, <1>22, <1>23, <1>24,
             <1>25, <1>26, <1>27, <1>28, <1>29, <1>30, <1>31, <1>32, <1>33

LEMMA CallsTwice ==
    ASSUME NEW a
    PROVE  /\ SynologyUps(a).calls = {1, 2}
           /\ SynologyEvents(a).calls = {1, 2}
           /\ SynologyCameras(a).calls = {1, 2}
           /\ SynologyLicense(a).calls = {1, 2}
           /\ SynologySecurity(a).calls = {1, 2}
           /\ SynologyBackup(a).calls = {1, 2}
           /\ PiholeFtlHealth(a).calls = {1, 2}
           /\ PiholeGravity(a).calls = {1, 2}
           /\ PiholeDnsSplit(a).calls = {1, 2}
           /\ SynologyMountHealth(a).calls = {1, 2}
           /\ WatchedDirSize(a).calls = {1, 2}
  <1> USE DEF Collected, CoEqual, EmitFamily, For, When, Done
  <1>0. 1..2 = {1, 2}
    OBVIOUS
  <1>1. SynologyUps(a).calls = {1, 2}
    BY <1>0 DEF SynologyUps
  <1>2. SynologyEvents(a).calls = {1, 2}
    BY <1>0 DEF SynologyEvents
  <1>3. SynologyCameras(a).calls = {1, 2}
    BY <1>0 DEF SynologyCameras
  <1>4. SynologyLicense(a).calls = {1, 2}
    BY <1>0 DEF SynologyLicense
  <1>5. SynologySecurity(a).calls = {1, 2}
    BY <1>0 DEF SynologySecurity
  <1>6. SynologyBackup(a).calls = {1, 2}
    BY <1>0 DEF SynologyBackup
  <1>7. PiholeFtlHealth(a).calls = {1, 2}
    BY <1>0 DEF PiholeFtlHealth
  <1>8. PiholeGravity(a).calls = {1, 2}
    BY <1>0 DEF PiholeGravity
  <1>9. PiholeDnsSplit(a).calls = {1, 2}
    BY <1>0 DEF PiholeDnsSplit
  <1>10. SynologyMountHealth(a).calls = {1, 2}
    BY <1>0 DEF SynologyMountHealth
  <1>11. WatchedDirSize(a).calls = {1, 2}
    BY <1>0 DEF WatchedDirSize
  <1> QED BY <1>1, <1>2, <1>3, <1>4, <1>5, <1>6, <1>7, <1>8, <1>9, <1>10, <1>11

LEMMA CallsMore ==
    ASSUME NEW a
    PROVE  /\ SynologyUpdates(a).calls = {1, 2, 3}
           /\ HostCollector(a).calls = {1, 2, 3}
           /\ SynologySystem(a).calls = IF a[1] = Down THEN {1} ELSE {1, 2, 3}
           /\ SynologyReplication(a).calls = IF a[1] # Unasked /\ Usable(a[1]) = {} THEN {1, 3} ELSE {1, 2, 3}
           /\ LogStreamBudget(a).calls = IF a[1] = Down THEN {1} ELSE {1, 2}
           /\ PiholeClients(a).calls = IF a[1] = Down THEN 1..6 \ {4} ELSE 1..6
  <1>0. 1..2 = {1, 2} /\ 1..3 = {1, 2, 3}
    OBVIOUS
  <1>1. SynologyUpdates(a).calls = {1, 2, 3} /\ HostCollector(a).calls = {1, 2, 3}
    BY <1>0 DEF SynologyUpdates, HostCollector, CoEqual, Collected
  <1>2. SynologySystem(a).calls = IF a[1] = Down THEN {1} ELSE {1, 2, 3}
    BY <1>0 DEF SynologySystem, Collected
  <1>3. SynologyReplication(a).calls = IF a[1] # Unasked /\ Usable(a[1]) = {} THEN {1, 3} ELSE {1, 2, 3}
    BY <1>0 DEF SynologyReplication, CoEqual, Collected
  <1>4. LogStreamBudget(a).calls = IF a[1] = Down THEN {1} ELSE {1, 2}
    BY DEF LogStreamBudget, Collected, When, Done, For
  <1>5. PiholeClients(a).calls = IF a[1] = Down THEN 1..6 \ {4} ELSE 1..6
    BY DEF PiholeClients, Collected
  <1> QED BY <1>1, <1>2, <1>3, <1>4, <1>5

LEMMA CallsMade ==
    ASSUME NEW a
    PROVE  \A p \in Collector : Made(p, a, Result(p, a))
  <1>1. \A p \in {"ha_up", "ha_battery", "ha_sensor_value", "ha_safety_sensors", "ha_update",
        "ha_entity_available", "ha_cadence", "ha_config_entry", "ha_repairs",
        "ha_persistent_notification", "pihole_blocking", "pihole_config", "pihole_ftl_messages",
        "pihole_dns_health", "pihole_version", "pihole_upstreams", "pihole_stats_summary",
        "unbound_stats"} : Result(p, a).calls = {1}
    BY CallsOnce DEF Result
  <1>2. \A p \in {"unifi_threat", "unifi_networkconf", "unifi_wan", "unifi_device", "unifi_client_stats",
        "unifi_client_dpi", "unifi_controller_up", "unifi_vpn_teleport", "synology_storage",
        "synology_pool", "synology_utilization", "log_error_rate",
        "vl_health", "uptime_host", "synology_probe"} :
            Result(p, a).calls = {1}
    BY CallsOnce DEF Result
  <1>3. \A p \in {"synology_ups", "synology_events", "synology_cameras", "synology_license",
                  "synology_security", "synology_backup", "pihole_ftl_health", "pihole_gravity",
                  "pihole_dns_split", "synology_mount_health", "watched_dir_size"} :
            Result(p, a).calls = {1, 2}
    BY CallsTwice DEF Result
  <1>4. \A p \in {"synology_updates", "host"} : Result(p, a).calls = {1, 2, 3}
    BY CallsMore, ZenonT(30) DEF Result
  <1>5. /\ Result("synology_system", a).calls = IF a[1] = Down THEN {1} ELSE {1, 2, 3}
        /\ Result("synology_replication", a).calls =
               IF a[1] # Unasked /\ Usable(a[1]) = {} THEN {1, 3} ELSE {1, 2, 3}
    BY CallsMore DEF Result
  <1>6. Result("log_stream_budget", a).calls = IF a[1] = Down THEN {1} ELSE {1, 2}
    BY CallsMore DEF Result
  <1>7. Result("pihole_clients", a).calls = IF a[1] = Down THEN 1..6 \ {4} ELSE 1..6
    BY CallsMore DEF Result
  <1>8. ASSUME NEW p \in Collector,
               p \notin Twice \cup Thrice \cup {"pihole_clients", "pihole_dns_split",
                                                 "synology_mount_health", "watched_dir_size"}
        PROVE  Made(p, a, Result(p, a))
    <2>1. Result(p, a).calls = {1}
      BY <1>1, <1>2, <1>8 DEF Collector, Twice, Thrice
    <2> QED BY <2>1, <1>8 DEF Made, CallsOf, Thrice, Twice
  <1>9. ASSUME NEW p \in {"synology_ups", "synology_events", "synology_cameras", "synology_license",
                          "synology_security", "synology_backup", "pihole_ftl_health", "pihole_gravity",
                          "pihole_dns_split", "synology_mount_health", "watched_dir_size"}
        PROVE  Made(p, a, Result(p, a))
    <2>1. Result(p, a).calls = {1, 2}
      BY <1>3, <1>9
    <2>2. CallsOf(p) = {1, 2}
      BY <1>9 DEF CallsOf, Twice, Thrice
    <2> QED BY <2>1, <2>2, <1>9 DEF Made
  <1>10. ASSUME NEW p \in {"synology_updates", "host"} PROVE Made(p, a, Result(p, a))
    BY <1>4 DEF Made, CallsOf, Twice, Thrice
  <1>11. ASSUME NEW p \in {"synology_system", "synology_replication"} PROVE Made(p, a, Result(p, a))
    BY <1>5 DEF Made, CallsOf, Twice, Thrice
  <1>12. Made("log_stream_budget", a, Result("log_stream_budget", a))
    BY <1>6 DEF Made, CallsOf, Twice, Thrice
  <1>13. Made("pihole_clients", a, Result("pihole_clients", a))
    BY <1>7 DEF Made, CallsOf, Twice, Thrice
  <1>14. \A p \in Twice \cup Thrice \cup {"pihole_clients", "pihole_dns_split",
                                          "synology_mount_health", "watched_dir_size"} :
            Made(p, a, Result(p, a))
    BY <1>9, <1>10, <1>11, <1>12, <1>13 DEF Twice, Thrice
  <1> QED BY <1>8, <1>14

\* What a run says of the service, whatever the collector.
Known(p, a, r) ==
    /\ \A s \in DOMAIN r.out : s[1] \in Gauge => s \in Up(p)
    /\ Done(r.calls, a) => Up(p) \subseteq DOMAIN r.out
    /\ Done(r.calls, a) /\ (\A k \in CallsOf(p) : a[k] \in {Down, Unasked}) =>
          p \in Blind \/ ~r.ok \/ \E s \in Up(p) : r.out[s] = 0
    /\ (\A k \in CallsOf(p) : Fine(a[k])) => r.ok /\ \A s \in Up(p) : r.out[s] # 0

LEMMA TellsKnown ==
    ASSUME NEW p, NEW a, NEW r, Tells(Up(p), CallsOf(p), a, r), r.calls = CallsOf(p)
    PROVE  Known(p, a, r)
  BY DEF Known, Tells

LEMMA OrdinaryKnown ==
    ASSUME NEW p, NEW a, NEW r, Ordinary(CallsOf(p), a, r), Up(p) = {}
    PROVE  Known(p, a, r)
  BY DEF Known, Ordinary, Sound, Plain, Answered

LEMMA NoGauges ==
    \A p \in Once \cup Twice \cup Thrice \cup {"pihole_clients", "watched_dir_size"} : Up(p) = {}
  BY DEF Up, Once, Twice, Thrice

\* What every collector says of its service.
LEMMA ResultsKnown ==
    ASSUME NEW a
    PROVE  \A p \in Collector : Known(p, a, Result(p, a))
  <1>1. ASSUME NEW p \in Once PROVE Known(p, a, Result(p, a))
    <2>1. CallsOf(p) = {1}
      BY <1>1 DEF CallsOf, Once, Twice, Thrice
    <2> QED BY <1>1, <2>1, NoGauges, OrdinaryResults, OrdinaryKnown
  <1>2. ASSUME NEW p \in Twice PROVE Known(p, a, Result(p, a))
    <2>1. CallsOf(p) = {1, 2}
      BY <1>2 DEF CallsOf, Twice, Thrice
    <2> QED BY <1>2, <2>1, NoGauges, OrdinaryResults, OrdinaryKnown
  <1>3. ASSUME NEW p \in Thrice PROVE Known(p, a, Result(p, a))
    <2>1. CallsOf(p) = {1, 2, 3}
      BY <1>3 DEF CallsOf, Twice, Thrice
    <2> QED BY <1>3, <2>1, NoGauges, OrdinaryResults, OrdinaryKnown
  <1>4. Known("pihole_clients", a, Result("pihole_clients", a))
    <2>1. CallsOf("pihole_clients") = 1..6
      BY DEF CallsOf, Twice, Thrice
    <2> QED BY <2>1, NoGauges, OrdinaryResults, OrdinaryKnown
  <1>5. Known("watched_dir_size", a, Result("watched_dir_size", a))
    <2>1. Plain(WatchedDirSize(a).out) /\ WatchedDirSize(a).ok = TRUE
      BY HostOrdinary DEF WatchedDirSize, Collected
    <2>2. Result("watched_dir_size", a) = WatchedDirSize(a) /\ Up("watched_dir_size") = {}
      BY NoGauges DEF Result
    <2> QED BY <2>1, <2>2 DEF Known, Plain, Blind
  <1>6. ASSUME NEW p \in Collector, p \in {"ha_up", "vl_health", "pihole_dns_health", "unifi_controller_up",
                          "unifi_vpn_teleport", "uptime_host", "synology_probe"}
        PROVE  Known(p, a, Result(p, a))
    <2>1. CallsOf(p) = {1}
      BY <1>6 DEF CallsOf, Twice, Thrice
    <2>2. Result(p, a).calls = {1}
      BY <1>6, <2>1, CallsMade DEF Made
    <2>3. Tells(Up(p), {1}, a, Result(p, a))
      <3>1. p = "ha_up" \/ p = "vl_health" => Tells(Up(p), {1}, a, Result(p, a))
        BY HaUpTells, VlHealthTells DEF Result, Up
      <3>2. p = "pihole_dns_health" => Tells(Up(p), {1}, a, Result(p, a))
        BY DnsHealthTells DEF Result, Up
      <3>3. p = "unifi_controller_up" \/ p = "unifi_vpn_teleport" => Tells(Up(p), {1}, a, Result(p, a))
        BY ControllerTells, TeleportTells DEF Result, Up
      <3>4. p = "uptime_host" \/ p = "synology_probe" => Tells(Up(p), {1}, a, Result(p, a))
        BY UptimeTells, SynologyProbeTells DEF Result, Up
      <3> QED BY <1>6, <3>1, <3>2, <3>3, <3>4
    <2> QED BY <2>1, <2>2, <2>3, TellsKnown
  <1>7. ASSUME NEW p \in Collector, p \in {"pihole_dns_split", "synology_mount_health"}
        PROVE  Known(p, a, Result(p, a))
    <2>1. CallsOf(p) = {1, 2}
      BY <1>7 DEF CallsOf, Twice, Thrice
    <2>2. Result(p, a).calls = {1, 2}
      BY <1>7, <2>1, CallsMade DEF Made
    <2>3. Tells(Up(p), {1, 2}, a, Result(p, a))
      BY <1>7, DnsSplitTells, MountTells DEF Result, Up
    <2> QED BY <2>1, <2>2, <2>3, TellsKnown
  <1> QED BY <1>1, <1>2, <1>3, <1>4, <1>5, <1>6, <1>7 DEF Collector, Once, Twice, Thrice

\* The gauges of a collector are of one family with one list of labels.
LEMMA UpLabels ==
    ASSUME NEW p
    PROVE  \A s, t \in Up(p) : s[1] \in Gauge /\ DOMAIN s[2] = DOMAIN t[2]
  BY DEF Up, Gauge

LEMMA JoinedValues ==
    /\ \A f, g, s : s \in DOMAIN f => (f ++ g)[s] = f[s]
    /\ \A f, g, s : s \notin DOMAIN f /\ s \in DOMAIN g => (f ++ g)[s] = g[s]
  <1>1. \A p, s : s \in DOMAIN p[1] => Joined(p)[s] = p[1][s]
    BY DEF Joined
  <1>2. \A p, s : s \notin DOMAIN p[1] /\ s \in DOMAIN p[2] => Joined(p)[s] = p[2][s]
    BY DEF Joined
  <1> QED BY <1>1, <1>2 DEF ++

\* The names of a family are those of the series it was first written with.
LEMMA NamesKept ==
    ASSUME NEW n, NEW out
    PROVE  /\ \A f : f \in DOMAIN GetOrCreate(n, out) <=> f \in DOMAIN n \/ f \in FamiliesOf(out)
           /\ \A f \in DOMAIN n : GetOrCreate(n, out)[f] = n[f]
           /\ \A f \in FamiliesOf(out) \ DOMAIN n :
                 \E s \in DOMAIN out : s[1] = f /\ GetOrCreate(n, out)[f] = DOMAIN s[2]
  <1> DEFINE L == [f \in FamiliesOf(out) |-> LabelNames(f, out)]
  <1>1. GetOrCreate(n, out) = n ++ L
    BY DEF GetOrCreate
  <1>2. DOMAIN L = FamiliesOf(out) /\ \A f \in FamiliesOf(out) : L[f] = LabelNames(f, out)
    OBVIOUS
  <1> HIDE DEF L
  <1>3. \A f \in FamiliesOf(out) : \E s \in DOMAIN out : s[1] = f /\ LabelNames(f, out) = DOMAIN s[2]
    BY DEF FamiliesOf, LabelNames
  <1>4. DOMAIN (n ++ L) = (DOMAIN n) \cup (DOMAIN L)
    BY JoinedDomain
  <1>5. \A f \in DOMAIN n : (n ++ L)[f] = n[f]
    BY JoinedValues
  <1>6. \A f \in FamiliesOf(out) \ DOMAIN n : (n ++ L)[f] = L[f]
    BY <1>2, JoinedValues
  <1> QED BY <1>1, <1>2, <1>3, <1>4, <1>5, <1>6

\* The registry has what was written and accepted, and keeps the rest.
LEMMA SeriesWritten ==
    ASSUME NEW r, NEW n, NEW out
    PROVE  /\ \A s : s \in DOMAIN WriteGauges(r, n, out) <=> s \in Accepted(n, out) \/ s \in DOMAIN r
           /\ \A s \in Accepted(n, out) : WriteGauges(r, n, out)[s] = out[s]
  <1> DEFINE W == [s \in Accepted(n, out) |-> out[s]]
  <1>1. WriteGauges(r, n, out) = W ++ r
    BY DEF WriteGauges
  <1>2. DOMAIN W = Accepted(n, out) /\ \A s \in Accepted(n, out) : W[s] = out[s]
    OBVIOUS
  <1> HIDE DEF W
  <1>3. DOMAIN (W ++ r) = (DOMAIN W) \cup (DOMAIN r)
    BY JoinedDomain
  <1>4. \A s \in Accepted(n, out) : (W ++ r)[s] = W[s]
    BY <1>2, JoinedValues
  <1> QED BY <1>1, <1>2, <1>3, <1>4

\* A series with the names of its family is accepted.
LEMMA AcceptedSeries ==
    ASSUME NEW n, NEW out
    PROVE  \A s : s \in Accepted(n, out) <=> s \in DOMAIN out /\ GetOrCreate(n, out)[s[1]] = DOMAIN s[2]
  BY DEF Accepted

\* The registry holds no gauge of another collector, and something of every family it knows.
Consistent(p, r, n) ==
    /\ \A s \in Up(p) : s[1] \in DOMAIN n => n[s[1]] = DOMAIN s[2]
    /\ \A s \in DOMAIN r : s[1] \in Gauge => s \in Up(p)
    /\ DOMAIN n \subseteq FamiliesOf(r)

\* What is written has the gauges of the collector only; what was written is there.
Own(p, out) == \A s \in DOMAIN out : s[1] \in Gauge => s \in Up(p)

Wrote(p, out, r, n) ==
    /\ FamiliesOf(out) \subseteq DOMAIN n
    /\ \A s \in Up(p) : s \in DOMAIN out => s \in DOMAIN r /\ r[s] = out[s]

\* Every write keeps the registry consistent, whatever it was.
LEMMA WriteKeeps ==
    ASSUME NEW p, NEW r, NEW n, NEW out, Consistent(p, r, n), Own(p, out)
    PROVE  /\ Consistent(p, WriteGauges(r, n, out), GetOrCreate(n, out))
           /\ Wrote(p, out, WriteGauges(r, n, out), GetOrCreate(n, out))
  <1> DEFINE R == WriteGauges(r, n, out)
             N == GetOrCreate(n, out)
  <1>1. \A s \in Up(p) : s[1] \in DOMAIN N => N[s[1]] = DOMAIN s[2]
    <2> SUFFICES ASSUME NEW s \in Up(p), s[1] \in DOMAIN N PROVE N[s[1]] = DOMAIN s[2]
      OBVIOUS
    <2>1. CASE s[1] \in DOMAIN n
      BY <2>1, NamesKept DEF Consistent
    <2>2. CASE s[1] \notin DOMAIN n
      <3>1. PICK t \in DOMAIN out : t[1] = s[1] /\ N[s[1]] = DOMAIN t[2]
        BY <2>2, NamesKept
      <3>2. t \in Up(p)
        BY <3>1, UpLabels DEF Own
      <3> QED BY <3>1, <3>2, UpLabels
    <2> QED BY <2>1, <2>2
  <1>2. \A s \in DOMAIN R : s[1] \in Gauge => s \in Up(p)
    <2>1. \A s \in DOMAIN R : s \in DOMAIN out \/ s \in DOMAIN r
      BY SeriesWritten, AcceptedSeries
    <2> HIDE DEF R
    <2> QED BY <2>1 DEF Consistent, Own
  <1>3. ASSUME NEW f \in DOMAIN N PROVE f \in FamiliesOf(R)
    <2>1. CASE f \in DOMAIN n
      <3>1. PICK s \in DOMAIN r : s[1] = f
        BY <2>1 DEF Consistent, FamiliesOf
      <3> QED BY <3>1, SeriesWritten DEF FamiliesOf
    <2>2. CASE f \notin DOMAIN n
      <3>1. PICK s \in DOMAIN out : s[1] = f /\ N[f] = DOMAIN s[2]
        BY <1>3, <2>2, NamesKept
      <3> QED BY <3>1, AcceptedSeries, SeriesWritten DEF FamiliesOf
    <2> QED BY <2>1, <2>2
  <1>4. FamiliesOf(out) \subseteq DOMAIN N
    BY NamesKept
  <1>5. \A s \in Up(p) : s \in DOMAIN out => s \in DOMAIN R /\ R[s] = out[s]
    <2> SUFFICES ASSUME NEW s \in Up(p), s \in DOMAIN out
                 PROVE  s \in DOMAIN R /\ R[s] = out[s]
      OBVIOUS
    <2>1. s[1] \in FamiliesOf(out)
      BY DEF FamiliesOf
    <2>2. s \in Accepted(n, out)
      BY <1>1, <1>4, <2>1, AcceptedSeries
    <2> QED BY <2>2, SeriesWritten
  <1> QED BY <1>1, <1>2, <1>3, <1>4, <1>5 DEF Consistent, Wrote

\* The call a run makes next.
NextCall(calls, asked) ==
    CHOOSE n \in calls : /\ asked[n] = Unasked
                         /\ \A m \in calls : m < n => asked[m] # Unasked

\* A run that is not complete has a next call: of those it makes, and not asked yet.
LEMMA NextCallIsMade ==
    ASSUME NEW calls \in SUBSET (1..6), NEW asked, ~Done(calls, asked)
    PROVE  /\ NextCall(calls, asked) \in calls
           /\ asked[NextCall(calls, asked)] = Unasked
           /\ \A m \in calls : m < NextCall(calls, asked) => asked[m] # Unasked
  <1> DEFINE P(n) == n \in calls /\ asked[n] = Unasked
  <1>1. P(1) \/ P(2) \/ P(3) \/ P(4) \/ P(5) \/ P(6)
    BY DEF Done
  <1>2. \A n : P(n) => n \in 1..6
    OBVIOUS
  <1> HIDE DEF P
  <1>3. \E n : P(n) /\ \A m : P(m) => ~(m < n)
    BY <1>1, <1>2
  <1>4. \E n \in calls : asked[n] = Unasked /\ \A m \in calls : m < n => asked[m] # Unasked
    BY <1>3 DEF P
  <1> QED BY <1>4 DEF NextCall

\* The invariant of a collector.
CollectorTypes ==
    /\ plugin \in Collector
    /\ DOMAIN world = CallsOf(plugin)
    /\ got = [k \in 1..6 |-> got[k]]
    /\ streak \in Nat

\* A run has asked its first call if it has asked any, and only calls it makes.
CollectorRuns ==
    /\ (got = Fresh /\ run = Started) \/ run = Result(plugin, got)
    /\ \A n \in 1..6 : got[n] # Unasked => n \in run.calls /\ got[1] # Unasked

\* A run that is complete has been counted and written.
CollectorEnds ==
    Complete =>
        /\ run = Result(plugin, got)
        /\ run.ok => streak = 0
        /\ ~run.ok => streak > 0
        /\ \A s \in Up(plugin) : s \in DOMAIN run.out => s \in DOMAIN registry /\ registry[s] = run.out[s]
        /\ FamiliesOf(run.out) \subseteq DOMAIN names

CollectorInv == CollectorTypes /\ CollectorRuns /\ CollectorEnds /\ Consistent(plugin, registry, names)

\* The calls depend on the answer to the first only, which is always made.
LEMMA CallsAreKnown ==
    ASSUME NEW p \in Collector
    PROVE  /\ CallsOf(p) \in SUBSET (1..6) /\ 1 \in CallsOf(p)
           /\ \A a : Result(p, a).calls \subseteq CallsOf(p) /\ 1 \in Result(p, a).calls
           /\ \A a, b : a[1] = b[1] => Result(p, a).calls = Result(p, b).calls
  <1>1. CallsOf(p) \in {{1}, {1, 2}, {1, 2, 3}, 1..6}
    BY DEF CallsOf
  <1>2. \A a : Made(p, a, Result(p, a))
    BY CallsMade
  <1>3. /\ p = "pihole_clients" => CallsOf(p) = 1..6
        /\ p = "synology_replication" => CallsOf(p) = {1, 2, 3}
    BY DEF CallsOf, Twice, Thrice
  <1>4. CallsOf(p) \in SUBSET (1..6) /\ 1 \in CallsOf(p)
    BY <1>1
  <1>5. ASSUME NEW a PROVE Result(p, a).calls \subseteq CallsOf(p) /\ 1 \in Result(p, a).calls
    BY <1>2, <1>3, <1>4 DEF Made
  <1>6. ASSUME NEW a, NEW b, a[1] = b[1] PROVE Result(p, a).calls = Result(p, b).calls
    BY <1>2, <1>6 DEF Made
  <1> QED BY <1>4, <1>5, <1>6

\* A run that has asked nothing has all its calls before it.
LEMMA FreshCalls ==
    ASSUME CollectorsAssumption, NEW p \in Collector
    PROVE  /\ Result(p, Fresh).calls = CallsOf(p)
           /\ \A C : 1 \in C => ~Done(C, Fresh)
  <1>1. Fresh[1] = Unasked
    BY DEF Fresh
  <1>2. Made(p, Fresh, Result(p, Fresh))
    BY CallsMade
  <1> QED BY <1>1, <1>2 DEF Made, Done, CollectorsAssumption

LEMMA CollectorInit == ASSUME CollectorsAssumption, Init PROVE CollectorInv
  <1>1. plugin \in Collector /\ plugin \in Plugin
    BY DEF Init, CollectorsAssumption
  <1>2. DOMAIN world = CallsOf(plugin)
    <2>1. Calls[plugin] = CallsOf(plugin)
      BY <1>1, FreshCalls DEF Calls
    <2> QED BY <2>1 DEF Init
  <1>3. got = Fresh /\ Fresh = [k \in 1..6 |-> Fresh[k]] /\ \A n \in 1..6 : Fresh[n] = Unasked
    BY DEF Init, Fresh
  <1>4. run = Started /\ run.calls = CallsOf(plugin)
    BY <1>2 DEF Init, Started, Collected
  <1>5. ~Complete
    BY <1>1, <1>3, <1>4, FreshCalls, CallsAreKnown DEF Complete
  <1>6. Consistent(plugin, registry, names)
    BY DEF Init, Consistent, NoSeries
  <1>7. streak \in Nat
    BY DEF Init
  <1> QED BY <1>1, <1>2, <1>3, <1>4, <1>5, <1>6, <1>7 DEF CollectorInv, CollectorTypes,
             CollectorRuns, CollectorEnds

\* The service changes, between two runs or in one.
LEMMA CollectorChanges ==
    ASSUME CollectorInv, NEW k, NEW r, ServiceChanges(k, r)
    PROVE  CollectorInv'
  <1>1. DOMAIN world' = DOMAIN world
    BY DEF ServiceChanges
  <1>2. UNCHANGED <<plugin, got, run, registry, names, streak>>
    BY DEF ServiceChanges
  <1>3. Started' = Started /\ (Complete' <=> Complete)
    BY <1>1, <1>2 DEF Started, Complete
  <1>4. CollectorTypes' /\ CollectorRuns' /\ CollectorEnds' /\ Consistent(plugin, registry, names)'
    BY <1>1, <1>2, <1>3
    DEF CollectorInv, CollectorTypes, CollectorRuns, CollectorEnds, Consistent
  <1> QED BY <1>4 DEF CollectorInv

\* A run that the scheduler gives up, and one of a collector put back, begin afresh.
LEMMA CollectorRestarts ==
    ASSUME CollectorsAssumption, CollectorInv, got' = Fresh, run' = Started, streak' \in Nat,
           UNCHANGED <<plugin, world, registry, names>>
    PROVE  CollectorInv'
  <1>1. plugin \in Collector /\ DOMAIN world = CallsOf(plugin)
    BY DEF CollectorInv, CollectorTypes
  <1>2. Fresh = [k \in 1..6 |-> Fresh[k]] /\ \A n \in 1..6 : Fresh[n] = Unasked
    BY DEF Fresh
  <1>3. Started' = Started /\ run'.calls = CallsOf(plugin)
    BY <1>1 DEF Started, Collected
  <1>4. ~Complete'
    BY <1>1, <1>3, FreshCalls, CallsAreKnown DEF Complete
  <1>5. Consistent(plugin, registry, names)'
    BY DEF CollectorInv
  <1>6. CollectorTypes'
    BY <1>1, <1>2 DEF CollectorTypes
  <1>7. CollectorRuns'
    BY <1>2, <1>3 DEF CollectorRuns
  <1>8. CollectorEnds'
    BY <1>4 DEF CollectorEnds
  <1> QED BY <1>5, <1>6, <1>7, <1>8 DEF CollectorInv

\* The next call is answered and what the run comes to is written.
LEMMA CollectorFetches ==
    ASSUME CollectorsAssumption, CollectorInv, Fetch
    PROVE  CollectorInv'
  <1>0. /\ plugin \in Collector /\ DOMAIN world = CallsOf(plugin)
        /\ got = [n \in 1..6 |-> got[n]] /\ streak \in Nat
        /\ 1 \in CallsOf(plugin) /\ CallsOf(plugin) \in SUBSET (1..6)
    BY CallsAreKnown DEF CollectorInv, CollectorTypes
  <1>1. PICK asked : asked = IF Complete THEN Fresh ELSE got
    OBVIOUS
  <1>2. PICK calls : calls = IF Complete THEN DOMAIN world ELSE run.calls
    OBVIOUS
  <1>3. PICK k : k = NextCall(calls, asked)
    OBVIOUS
  <1>4. /\ got' = [asked EXCEPT ![k] = world[k]]
        /\ run' = Result(plugin, got')
        /\ registry' = WriteGauges(registry, names, run'.out)
        /\ names' = GetOrCreate(names, run'.out)
        /\ IF Done(run'.calls, got') THEN Count(run'.ok) ELSE UNCHANGED <<streak, quarantined>>
        /\ UNCHANGED <<plugin, world, events>>
    BY <1>1, <1>2, <1>3 DEF Fetch, NextCall
  <1>5. /\ asked = [n \in 1..6 |-> asked[n]]
        /\ \A n \in 1..6 : asked[n] # Unasked => n \in calls /\ asked[1] # Unasked
        /\ calls \in SUBSET (1..6) /\ 1 \in calls
        /\ ~Done(calls, asked)
        /\ \A a : asked[1] # Unasked /\ a[1] = asked[1] => Result(plugin, a).calls = calls
    <2>1. CASE Complete
      <3>1. asked = Fresh /\ calls = CallsOf(plugin)
        BY <1>0, <1>1, <1>2, <2>1
      <3> QED BY <1>0, <3>1, FreshCalls DEF Fresh
    <2>2. CASE ~Complete
      <3>1. asked = got /\ calls = run.calls
        BY <1>1, <1>2, <2>2
      <3>2. CASE run = Result(plugin, got)
        <4>1. calls \in SUBSET (1..6) /\ 1 \in calls
          BY <1>0, <3>1, <3>2, CallsAreKnown
        <4>2. \A a : a[1] = asked[1] => Result(plugin, a).calls = calls
          BY <1>0, <3>1, <3>2, CallsAreKnown
        <4> QED BY <1>0, <3>1, <2>2, <4>1, <4>2 DEF CollectorInv, CollectorRuns, Complete
      <3>3. CASE got = Fresh /\ run = Started
        <4>1. calls = CallsOf(plugin)
          BY <1>0, <3>1, <3>3 DEF Started, Collected
        <4> QED BY <1>0, <3>1, <3>3, <4>1, FreshCalls DEF Fresh
      <3> QED BY <3>2, <3>3 DEF CollectorInv, CollectorRuns
    <2> QED BY <2>1, <2>2
  <1>6. /\ k \in calls /\ k \in 1..6
        /\ asked[k] = Unasked
        /\ \A m \in calls : m < k => asked[m] # Unasked
    BY <1>3, <1>5, NextCallIsMade
  <1>7. /\ got' = [n \in 1..6 |-> got'[n]]
        /\ got'[k] = world[k] /\ \A n \in 1..6 : n # k => got'[n] = asked[n]
    BY <1>4, <1>5, <1>6
  <1>8. ASSUME asked[1] = Unasked PROVE CollectorRuns'
    <2>1. k = 1
      BY <1>5, <1>6, <1>8
    <2>2. \A n \in 1..6 : got'[n] # Unasked => n = 1
      BY <1>5, <1>7, <1>8, <2>1
    <2>3. 1 \in run'.calls
      BY <1>0, <1>4, CallsAreKnown
    <2>4. CollectorRuns'
      BY <1>4, <2>2, <2>3 DEF CollectorRuns
    <2> QED BY <2>4
  <1>9. ASSUME asked[1] # Unasked PROVE CollectorRuns'
    <2>1. got'[1] = asked[1]
      BY <1>6, <1>7, <1>9
    <2>2. run'.calls = calls
      BY <1>4, <1>5, <1>9, <2>1
    <2>3. \A n \in 1..6 : got'[n] # Unasked => n \in calls
      BY <1>5, <1>6, <1>7
    <2> QED BY <1>4, <1>9, <2>1, <2>2, <2>3 DEF CollectorRuns
  <1>10. CollectorRuns'
    BY <1>8, <1>9
  <1>11. Known(plugin, got', run')
    BY <1>0, <1>4, ResultsKnown
  <1>12. Own(plugin, run'.out)
    BY <1>11 DEF Known, Own
  <1>13. Consistent(plugin, registry, names)
    BY DEF CollectorInv
  <1>14. Consistent(plugin, registry', names') /\ Wrote(plugin, run'.out, registry', names')
    <2>1. PICK out : out = run'.out
      OBVIOUS
    <2>2. /\ Consistent(plugin, WriteGauges(registry, names, out), GetOrCreate(names, out))
          /\ Wrote(plugin, out, WriteGauges(registry, names, out), GetOrCreate(names, out))
      BY <1>12, <1>13, <2>1, WriteKeeps
    <2> QED BY <1>4, <2>1, <2>2
  <1>15. Complete' => streak' \in Nat /\ (run'.ok => streak' = 0) /\ (~run'.ok => streak' > 0)
    BY <1>0, <1>4 DEF Complete, Count
  <1>16. ~Complete' => streak' \in Nat
    BY <1>0, <1>4 DEF Complete
  <1>17. CollectorTypes'
    BY <1>0, <1>4, <1>7, <1>15, <1>16 DEF CollectorTypes
  <1>18. CollectorEnds'
    BY <1>4, <1>14, <1>15 DEF CollectorEnds, Wrote
  <1>19. Consistent(plugin, registry, names)'
    BY <1>4, <1>14
  <1> QED BY <1>10, <1>17, <1>18, <1>19 DEF CollectorInv

\* The invariant is inductive.
LEMMA CollectorStep ==
    ASSUME CollectorsAssumption, CollectorInv, [Next]_vars
    PROVE  CollectorInv'
  <1>1. CASE \E k \in DOMAIN world : \E r \in Offered(Cardinality(DOMAIN world)) : ServiceChanges(k, r)
    BY <1>1, CollectorChanges
  <1>2. CASE Fetch
    BY <1>2, CollectorFetches
  <1>3. CASE TimesOut
    <2>1. streak' \in Nat
      BY <1>3 DEF TimesOut, Count, CollectorInv, CollectorTypes
    <2> QED BY <1>3, <2>1, CollectorRestarts DEF TimesOut
  <1>4. CASE Retry
    BY <1>4, CollectorRestarts DEF Retry
  <1>5. CASE UNCHANGED vars
    <2>1. UNCHANGED <<plugin, world, got, run, registry, names, streak>>
      BY <1>5 DEF vars
    <2> QED BY <2>1 DEF CollectorInv, CollectorTypes, CollectorRuns, CollectorEnds, Complete,
               Started, Consistent
  <1> QED BY <1>1, <1>2, <1>3, <1>4, <1>5 DEF Next

\* The gauges of a complete run are in the registry, and no other collector's: they
\* say what the run found, and so does the count of failures.
LEMMA CollectorHealth ==
    ASSUME CollectorInv
    PROVE  OutageIsNoticed /\ RecoveryIsSeen
  <1>0. /\ plugin \in Collector /\ DOMAIN world = CallsOf(plugin)
        /\ DOMAIN got = 1..6
        /\ CallsOf(plugin) \in SUBSET (1..6)
    BY CallsAreKnown DEF CollectorInv, CollectorTypes
  <1>1. ASSUME Complete, \A k \in DOMAIN got : got[k] \in {Down, Unasked}
        PROVE  plugin \in Blind \/ ShownDown \/ streak > 0
    <2>1. /\ run = Result(plugin, got) /\ Done(run.calls, got)
          /\ ~run.ok => streak > 0
          /\ \A s \in Up(plugin) : s \in DOMAIN run.out => s \in DOMAIN registry /\ registry[s] = run.out[s]
      BY <1>1 DEF CollectorInv, CollectorEnds, Complete
    <2>2. Known(plugin, got, run)
      BY <1>0, <2>1, ResultsKnown
    <2>3. \A k \in CallsOf(plugin) : got[k] \in {Down, Unasked}
      BY <1>0, <1>1
    <2>4. plugin \in Blind \/ ~run.ok \/ \E s \in Up(plugin) : run.out[s] = 0
      BY <2>1, <2>2, <2>3 DEF Known
    <2>5. ASSUME NEW s \in Up(plugin), run.out[s] = 0 PROVE ShownDown
      <3>1. s \in DOMAIN registry /\ registry[s] = 0
        BY <2>1, <2>2, <2>5 DEF Known
      <3> QED BY <3>1, UpLabels DEF ShownDown, Gauge
    <2> QED BY <2>1, <2>4, <2>5
  <1>2. ASSUME Complete, \A k \in DOMAIN world : Fine(got[k])
        PROVE  streak = 0 /\ ~ShownDown
    <2>1. /\ run = Result(plugin, got) /\ Done(run.calls, got)
          /\ run.ok => streak = 0
          /\ \A s \in Up(plugin) : s \in DOMAIN run.out => s \in DOMAIN registry /\ registry[s] = run.out[s]
      BY <1>2 DEF CollectorInv, CollectorEnds, Complete
    <2>2. Known(plugin, got, run)
      BY <1>0, <2>1, ResultsKnown
    <2>3. run.ok /\ \A s \in Up(plugin) : run.out[s] # 0
      BY <1>0, <1>2, <2>2 DEF Known
    <2>4. ASSUME NEW s \in DOMAIN registry, s[1] \in Gauge PROVE registry[s] # 0
      <3>1. s \in Up(plugin)
        BY <2>4 DEF CollectorInv, Consistent
      <3>2. registry[s] = run.out[s]
        BY <2>1, <2>2, <3>1 DEF Known
      <3> QED BY <2>3, <3>1, <3>2
    <2> QED BY <2>1, <2>3, <2>4 DEF ShownDown, Gauge
  <1> QED BY <1>1, <1>2 DEF OutageIsNoticed, RecoveryIsSeen

LEMMA FamiliesJoined == \A f, g : FamiliesOf(f ++ g) = FamiliesOf(f) \cup FamiliesOf(g)
  BY JoinedDomain DEF FamiliesOf

LEMMA NoFamilies == FamiliesOf(NoSeries) = {}
  BY DEF FamiliesOf, NoSeries

\* Call k is answered as in a and the others well (b), or not (c).
Apart(a, b, c, k, C) ==
    /\ k \in C /\ b[k] = a[k] /\ c[k] = Down
    /\ \A j \in C : j # k => b[j] = c[j]
    /\ Done(C, b) /\ Done(C, c)

\* What rb has and rc has not is in ra.
Brought(ra, rb, rc) == FamiliesOf(rb.out) \ FamiliesOf(rc.out) \subseteq FamiliesOf(ra.out)

\* The collectors of Pi-hole with two calls.
LEMMA PiholeApart ==
    ASSUME NEW a, NEW b, NEW c, NEW k, Apart(a, b, c, k, {1, 2})
    PROVE  /\ Brought(PiholeFtlHealth(a), PiholeFtlHealth(b), PiholeFtlHealth(c))
           /\ Brought(PiholeGravity(a), PiholeGravity(b), PiholeGravity(c))
  <1>1. Brought(PiholeFtlHealth(a), PiholeFtlHealth(b), PiholeFtlHealth(c))
    BY FamiliesJoined DEF Brought, Apart, PiholeFtlHealth, Collected
  <1>2. Brought(PiholeGravity(a), PiholeGravity(b), PiholeGravity(c))
    BY FamiliesJoined DEF Brought, Apart, PiholeGravity, Collected
  <1> QED BY <1>1, <1>2

\* Those of the NAS that write each answer by itself.
LEMMA CoEqualApart ==
    ASSUME NEW a, NEW b, NEW c, NEW k, Apart(a, b, c, k, {1, 2}), Done({1, 2}, a)
    PROVE  /\ Brought(SynologyUps(a), SynologyUps(b), SynologyUps(c))
           /\ Brought(SynologyEvents(a), SynologyEvents(b), SynologyEvents(c))
           /\ Brought(SynologyCameras(a), SynologyCameras(b), SynologyCameras(c))
           /\ Brought(SynologyLicense(a), SynologyLicense(b), SynologyLicense(c))
           /\ Brought(SynologySecurity(a), SynologySecurity(b), SynologySecurity(c))
  <1>0. 1..2 = {1, 2}
    OBVIOUS
  <1> USE <1>0, FamiliesJoined DEF Brought, Apart, CoEqual, Collected, When
  <1>1. Brought(SynologyUps(a), SynologyUps(b), SynologyUps(c))
    BY DEF SynologyUps
  <1>2. Brought(SynologyEvents(a), SynologyEvents(b), SynologyEvents(c))
    BY DEF SynologyEvents
  <1>3. Brought(SynologyCameras(a), SynologyCameras(b), SynologyCameras(c))
    BY DEF SynologyCameras
  <1>4. Brought(SynologyLicense(a), SynologyLicense(b), SynologyLicense(c))
    BY DEF SynologyLicense
  <1>5. Brought(SynologySecurity(a), SynologySecurity(b), SynologySecurity(c))
    BY DEF SynologySecurity
  <1> QED BY <1>1, <1>2, <1>3, <1>4, <1>5

LEMMA SeriesFamilies ==
    /\ \A F, v, w : (DOMAIN v = {} <=> DOMAIN w = {}) => FamiliesOf(Series(F, v)) = FamiliesOf(Series(F, w))
    /\ \A f, l, v, w : FamiliesOf(With(f, l, v)) = FamiliesOf(With(f, l, w))
  <1>1. \A F, v, f : f \in FamiliesOf(Series(F, v)) <=> f \in F /\ \E l : l \in DOMAIN v
    <2> SUFFICES ASSUME NEW F, NEW v, NEW f
                 PROVE  f \in FamiliesOf(Series(F, v)) <=> f \in F /\ \E l : l \in DOMAIN v
      OBVIOUS
    <2>1. DOMAIN Series(F, v) = F \X DOMAIN v
      BY DEF Series
    <2>2. ASSUME NEW l \in DOMAIN v, f \in F PROVE f \in FamiliesOf(Series(F, v))
      <3>1. <<f, l>> \in DOMAIN Series(F, v) /\ <<f, l>>[1] = f
        BY <2>1, <2>2
      <3> QED BY <3>1 DEF FamiliesOf
    <2>3. ASSUME f \in FamiliesOf(Series(F, v)) PROVE f \in F /\ \E l : l \in DOMAIN v
      <3>1. PICK s \in F \X DOMAIN v : s[1] = f
        BY <2>1, <2>3 DEF FamiliesOf
      <3> QED BY <3>1
    <2> QED BY <2>2, <2>3
  <1>2. \A f, l, v, w : DOMAIN With(f, l, v) = DOMAIN With(f, l, w)
    BY DEF With, Single
  <1>3. ASSUME NEW F, NEW v, NEW w, DOMAIN v = {} <=> DOMAIN w = {}
        PROVE  FamiliesOf(Series(F, v)) = FamiliesOf(Series(F, w))
    <2>1. \A f : f \in FamiliesOf(Series(F, v)) <=> f \in FamiliesOf(Series(F, w))
      BY <1>1, <1>3
    <2> QED BY <2>1 DEF FamiliesOf
  <1>4. \A f, l, v, w : FamiliesOf(With(f, l, v)) = FamiliesOf(With(f, l, w))
    BY <1>2 DEF FamiliesOf
  <1> QED BY <1>3, <1>4

\* The value of a scalar does not change what families are written.
LEMMA ScalarFamilies ==
    ASSUME NEW F, NEW t, NEW v, NEW w
    PROVE  FamiliesOf(EmitScalars(F, t, v)) = FamiliesOf(EmitScalars(F, t, w))
  <1> DEFINE S == IF t THEN {1} ELSE {}
             D == Series({"metric_family_dropped_series"},
                         [l \in {[family |-> f] : f \in F} |-> Cardinality(S) - Cardinality(Survivors(S))])
             V(x) == Labelled(Survivors(S), LAMBDA i : NoLabels, LAMBDA i : x)
  <1>1. \A x : EmitScalars(F, t, x) = Series(F, V(x)) ++ D
    BY DEF EmitScalars, EmitFamilies
  <1>2. DOMAIN V(v) = DOMAIN V(w)
    BY DEF Labelled
  <1> HIDE DEF V, D
  <1>3. FamiliesOf(Series(F, V(v))) = FamiliesOf(Series(F, V(w)))
    BY <1>2, SeriesFamilies
  <1>4. FamiliesOf(Series(F, V(v)) ++ D) = FamiliesOf(Series(F, V(w)) ++ D)
    <2>1. PICK X : X = FamiliesOf(Series(F, V(v)))
      OBVIOUS
    <2>2. FamiliesOf(Series(F, V(v)) ++ D) = X \cup FamiliesOf(D)
      BY <2>1, FamiliesJoined
    <2>3. FamiliesOf(Series(F, V(w)) ++ D) = X \cup FamiliesOf(D)
      BY <2>1, <1>3, FamiliesJoined
    <2> QED BY <2>2, <2>3
  <1> QED BY <1>1, <1>4

\* Nor do the versions of packages.
LEMMA PackagesFamilies ==
    ASSUME NEW s, NEW t, NEW r
    PROVE  FamiliesOf(ParsePackages(s, r)) = FamiliesOf(ParsePackages(t, r))
  <1> DEFINE U(x) == {i \in Present(r) : HasUpdate(x, r, i)}
             P == EmitScalars({"synology_package_count"}, TRUE, Cardinality(Present(r)))
                  ++ EmitFamily("synology_package_info", Present(r),
                      LAMBDA i : IF i \in Usable(r) THEN [package |-> i, version |-> First(r, i)]
                                 ELSE [package |-> i], LAMBDA i : 1)
             V(x) == Labelled(Survivors(Present(r)), LAMBDA i : [package |-> i], LAMBDA i : Bit(i \in U(x)))
             D == DroppedSeries("synology_package_update_available", Present(r))
             N(x) == EmitScalars({"synology_packages_with_updates_count"}, TRUE, Cardinality(U(x)))
  <1>1. \A x : ParsePackages(x, r) = P ++ (Series({"synology_package_update_available"}, V(x)) ++ D) ++ N(x)
    BY DEF ParsePackages, EmitFamily, For
  <1>2. DOMAIN V(s) = DOMAIN V(t)
    BY DEF Labelled
  <1>3. FamiliesOf(N(s)) = FamiliesOf(N(t))
    BY ScalarFamilies
  <1> HIDE DEF P, V, D, N, U
  <1> DEFINE F(x) == Series({"synology_package_update_available"}, V(x))
  <1>4. FamiliesOf(F(s)) = FamiliesOf(F(t))
    BY <1>2, SeriesFamilies
  <1> HIDE DEF F
  <1>5. \A x : FamiliesOf(P ++ (F(x) ++ D) ++ N(x)) =
                 FamiliesOf(P) \cup (FamiliesOf(F(x)) \cup FamiliesOf(D)) \cup FamiliesOf(N(x))
    BY FamiliesJoined
  <1>6. \A x : ParsePackages(x, r) = P ++ (F(x) ++ D) ++ N(x)
    BY <1>1 DEF F
  <1> QED BY <1>3, <1>4, <1>5, <1>6

LEMMA UpdatesApart ==
    ASSUME NEW a, NEW b, NEW c, NEW k, Apart(a, b, c, k, {1, 2, 3}), Done({1, 2, 3}, a)
    PROVE  Brought(SynologyUpdates(a), SynologyUpdates(b), SynologyUpdates(c))
  <1>0. 1..3 = {1, 2, 3}
    OBVIOUS
  <1>1. \A x : Done({1, 2, 3}, x) =>
            FamiliesOf(SynologyUpdates(x).out) =
                (FamiliesOf(FetchOrResult("SYNO.Core.Upgrade.Server", x[1]))
                 \cup FamiliesOf(FetchOrResult("SYNO.Core.Package.Server", x[2]))
                 \cup FamiliesOf(FetchOrResult("SYNO.Core.Package", x[3])))
                \cup (FamiliesOf(ParseUpgrade(x[1])) \cup FamiliesOf(ParsePackages(Down, x[3])))
    BY <1>0, FamiliesJoined, PackagesFamilies DEF SynologyUpdates, CoEqual, Collected, When
  <1> QED BY <1>1 DEF Brought, Apart

LEMMA SystemApart ==
    ASSUME NEW a, NEW b, NEW c, NEW k, Apart(a, b, c, k, {1, 2, 3}), k # 1, Done({1, 2, 3}, a),
           Answered(a[1])
    PROVE  Brought(SynologySystem(a), SynologySystem(b), SynologySystem(c))
  <1>0. 1..3 = {1, 2, 3} /\ a[1] # Down
    BY DEF Answered
  <1>1. \A x : Done({1, 2, 3}, x) /\ Answered(x[1]) =>
            FamiliesOf(SynologySystem(x).out) =
                (FamiliesOf(FetchOrResult("SYNO.Core.System", x[1]))
                 \cup FamiliesOf(FetchOrResult("SYNO.Core.Hardware.FanSpeed", x[2]))
                 \cup FamiliesOf(FetchOrResult("SYNO.Core.System.Reboot", x[3])))
                \cup (FamiliesOf(ParseSystemInfo(x[1])) \cup FamiliesOf(ParseFanspeed(x[2]))
                      \cup FamiliesOf(ParseNeedReboot(x[3])))
    BY <1>0, FamiliesJoined DEF SynologySystem, Collected, When, Answered
  <1>2. CASE Answered(b[1])
    <2>1. Answered(c[1])
      BY <1>2 DEF Apart
    <2> QED BY <1>1, <1>2, <2>1 DEF Brought, Apart
  <1>3. CASE ~Answered(b[1])
    <2>1. \A x : ~Answered(x[1]) /\ Done({1, 2, 3}, x) =>
            FamiliesOf(SynologySystem(x).out) =
                (FamiliesOf(FetchOrResult("SYNO.Core.System", x[1]))
                 \cup FamiliesOf(FetchOrResult("SYNO.Core.Hardware.FanSpeed", x[2]))
                 \cup FamiliesOf(FetchOrResult("SYNO.Core.System.Reboot", x[3])))
      BY FamiliesJoined, NoFamilies DEF SynologySystem, Collected, When
    <2>2. ~Answered(c[1])
      BY <1>3 DEF Apart
    <2> QED BY <1>1, <1>3, <2>1, <2>2 DEF Brought, Apart
  <1> QED BY <1>2, <1>3

LEMMA ReplicationApart ==
    ASSUME NEW a, NEW b, NEW c, NEW k, Apart(a, b, c, k, {1, 2, 3}),
           Done(SynologyReplication(a).calls, a)
    PROVE  Brought(SynologyReplication(a), SynologyReplication(b), SynologyReplication(c))
  <1> DEFINE All(x) ==
                (FamiliesOf(FetchOrResult("SYNO.Core.Share", x[1]))
                 \cup FamiliesOf(FetchOrResult("SYNO.Core.Share.Snapshot", x[2]))
                 \cup FamiliesOf(FetchOrResult("SYNO.SynologyReplica", x[3])))
                \cup (FamiliesOf(ParseShareSnapshots(x[2]))
                      \cup FamiliesOf(EmitScalars({"synology_snapshots_configured"}, TRUE, 0))
                      \cup FamiliesOf(EmitScalars({"synology_replication_available"}, TRUE, 0)))
  <1>1. \A x : Done(SynologyReplication(x).calls, x) =>
            FamiliesOf(SynologyReplication(x).out) = All(x)
    <2> SUFFICES ASSUME NEW x, Done(SynologyReplication(x).calls, x)
                 PROVE  FamiliesOf(SynologyReplication(x).out) = All(x)
      OBVIOUS
    <2> DEFINE C == IF x[1] = Unasked \/ Usable(x[1]) # {} THEN 1..3 ELSE {1, 3}
               u == Bit(Present(x[2]) # {})
               v == Bit(IsOk(x[3]))
               T == FetchOrResult("SYNO.Core.Share", x[1])
                            ++ FetchOrResult("SYNO.Core.Share.Snapshot", x[2])
                            ++ FetchOrResult("SYNO.SynologyReplica", x[3])
               P == ParseShareSnapshots(x[2])
                    ++ EmitScalars({"synology_snapshots_configured"}, TRUE, u)
                    ++ EmitScalars({"synology_replication_available"}, TRUE, v)
    <2>1. SynologyReplication(x).calls = C /\ SynologyReplication(x).out = T ++ When(Done(C, x), P)
      BY DEF SynologyReplication, CoEqual, Collected
    <2>2. SynologyReplication(x).out = T ++ P
      BY <2>1 DEF When
    <2> HIDE DEF u, v
    <2>3. FamiliesOf(EmitScalars({"synology_snapshots_configured"}, TRUE, u))
              = FamiliesOf(EmitScalars({"synology_snapshots_configured"}, TRUE, 0))
      BY ScalarFamilies
    <2>4. FamiliesOf(EmitScalars({"synology_replication_available"}, TRUE, v))
              = FamiliesOf(EmitScalars({"synology_replication_available"}, TRUE, 0))
      BY ScalarFamilies
    <2>5. FamiliesOf(T) = FamiliesOf(FetchOrResult("SYNO.Core.Share", x[1]))
                 \cup FamiliesOf(FetchOrResult("SYNO.Core.Share.Snapshot", x[2]))
                 \cup FamiliesOf(FetchOrResult("SYNO.SynologyReplica", x[3]))
      BY FamiliesJoined
    <2>6. FamiliesOf(P) = FamiliesOf(ParseShareSnapshots(x[2]))
               \cup FamiliesOf(EmitScalars({"synology_snapshots_configured"}, TRUE, u))
               \cup FamiliesOf(EmitScalars({"synology_replication_available"}, TRUE, v))
      <3> DEFINE A == EmitScalars({"synology_snapshots_configured"}, TRUE, u)
                 B == EmitScalars({"synology_replication_available"}, TRUE, v)
      <3> HIDE DEF A, B
      <3>1. FamiliesOf(ParseShareSnapshots(x[2]) ++ A ++ B) =
                FamiliesOf(ParseShareSnapshots(x[2])) \cup FamiliesOf(A) \cup FamiliesOf(B)
        BY FamiliesJoined
      <3> QED BY <3>1 DEF A, B
    <2> HIDE DEF T, P
    <2>7. FamiliesOf(SynologyReplication(x).out) = FamiliesOf(T) \cup FamiliesOf(P)
      BY <2>2, FamiliesJoined
    <2> QED BY <2>3, <2>4, <2>5, <2>6, <2>7
  <1>2. Done(SynologyReplication(b).calls, b) /\ Done(SynologyReplication(c).calls, c)
    <2>1. \A x : \A j \in SynologyReplication(x).calls : j \in {1, 2, 3}
      BY CallsMore
    <2> QED BY <2>1 DEF Apart, Done
  <1> QED BY <1>1, <1>2, ZenonT(30) DEF Brought, Apart

LEMMA BackupApart ==
    ASSUME NEW a, NEW b, NEW c, NEW k, Apart(a, b, c, k, {1, 2}), Done({1, 2}, a)
    PROVE  Brought(SynologyBackup(a), SynologyBackup(b), SynologyBackup(c))
  <1> DEFINE A(r) == EmitScalars({"synology_backup_repository_count"}, IsOk(r), Cardinality(Present(r)))
             B(r) == EmitScalars({"synology_backup_configured_count"}, TRUE, Cardinality(Present(r)))
             C(r) == EmitScalars({"synology_no_backup_configured"}, TRUE,
                                 Bit(IsOk(r) /\ Present(r) = {}))
  <1>1. 1..2 = {1, 2}
    OBVIOUS
  <1>2. \A x : Done({1, 2}, x) =>
            SynologyBackup(x).out =
                FetchOrResult("SYNO.Backup.Task", x[1]) ++ FetchOrResult("SYNO.Backup.Repository", x[2])
                ++ (ParseJob(x[1]) ++ A(x[2]) ++ B(x[1]) ++ C(x[1]))
    BY <1>1 DEF SynologyBackup, CoEqual, Collected, When
  <1> HIDE DEF A, B, C
  <1> QED BY <1>2, FamiliesJoined DEF Brought, Apart

LEMMA HostApart ==
    ASSUME NEW a, NEW b, NEW c, NEW k, Apart(a, b, c, k, {1, 2, 3})
    PROVE  Brought(HostCollector(a), HostCollector(b), HostCollector(c))
  <1>1. \A x : HostCollector(x).out = EmitDiskMountpoint(1, x[1]) ++ EmitDiskMountpoint(2, x[2])
                                      ++ CollectMachine(x[3]) ++ CollectDevices(x[3])
    BY DEF HostCollector, Collected
  <1> QED BY <1>1, FamiliesJoined DEF Brought, Apart

LEMMA ProbesApart ==
    ASSUME NEW a, NEW b, NEW c, NEW k, Apart(a, b, c, k, {1, 2}), Done({1, 2}, a)
    PROVE  /\ Brought(WatchedDirSize(a), WatchedDirSize(b), WatchedDirSize(c))
           /\ Brought(SynologyMountHealth(a), SynologyMountHealth(b), SynologyMountHealth(c))
           /\ Brought(PiholeDnsSplit(a), PiholeDnsSplit(b), PiholeDnsSplit(c))
  <1>1. 1..2 = {1, 2} /\ \A x : Done({1, 2}, x) => x[1] # Unasked
    BY DEF Done
  <1>2. Brought(WatchedDirSize(a), WatchedDirSize(b), WatchedDirSize(c))
    <2> DEFINE By(f, j, v) == With(f, [path |-> j], v)
               Of(j, r) ==
                   When(r # Unasked,
                        By("host_directory_bytes", j, Bit(1 \in Usable(r) /\ First(r, 1) = 1))
                        ++ By("host_directory_walk_truncated", j, Bit(r = Odd))
                        ++ By("host_directory_unreadable_subdirs", j, Bit(1 \in Present(r) \ Usable(r))))
    <2>1. \A x : WatchedDirSize(x).out = Of(1, x[1]) ++ Of(2, x[2])
      BY DEF WatchedDirSize, Collected
    <2> HIDE DEF Of
    <2> QED BY <2>1, FamiliesJoined DEF Brought, Apart
  <1>3. Brought(SynologyMountHealth(a), SynologyMountHealth(b), SynologyMountHealth(c))
    <2> DEFINE By(f, j, v) == With(f, [mount |-> j], v)
               Of(j, r) ==
                   When(IsOk(r), By("synology_mount_up", j, 1) ++ By("synology_mount_free_bytes", j, 1)
                                 ++ By("synology_mount_total_bytes", j, 1))
                   ++ When(r \notin {Unasked, Odd}, By("synology_mount_probe_seconds", j, 1))
                   ++ By("synology_mount_up", j, 0)
    <2>1. \A x : SynologyMountHealth(x).out = Of(1, x[1]) ++ When(x[1] # Unasked, Of(2, x[2]))
      BY DEF SynologyMountHealth, Collected
    <2> HIDE DEF Of
    <2>2. \A x : Done({1, 2}, x) => SynologyMountHealth(x).out = Of(1, x[1]) ++ Of(2, x[2])
      BY <1>1, <2>1 DEF When
    <2> QED BY <2>2, FamiliesJoined DEF Brought, Apart
  <1>4. Brought(PiholeDnsSplit(a), PiholeDnsSplit(b), PiholeDnsSplit(c))
    <2> DEFINE E(path, r) == ProbeSeries("dns_resolution_up", "dns_resolution_probe_result",
                                         "dns_resolution_seconds", [path |-> path], ResolveA(r))
    <2>1. \A x : Done({1, 2}, x) => PiholeDnsSplit(x).out = E("pihole", x[1]) ++ E("direct", x[2])
      BY <1>1 DEF PiholeDnsSplit, Collected, When
    <2> HIDE DEF E
    <2> QED BY <2>1, FamiliesJoined DEF Brought, Apart
  <1> QED BY <1>2, <1>3, <1>4

\* The families of the client series depend on the answer to the first call only.
LEMMA ClientFamilies ==
    ASSUME NEW x, NEW y, x[1] = y[1], x[4] # Unasked, y[4] # Unasked
    PROVE  FamiliesOf(ClientSeries(x)) = FamiliesOf(ClientSeries(y))
  <1> DEFINE S == ClassifyClients(Present(x[1]))
             L(z, i) == [client |-> i, mac |-> Bit(i \in Present(z[2])),
                         unifi_name |-> Bit(i \in Present(z[4]))]
             V(z, j) == Labelled(S, LAMBDA i : L(z, i), LAMBDA i : ValueOr0(z[j], i))
             D(f) == With("metric_family_dropped_series", [family |-> f],
                          Cardinality(Present(x[1])) - Cardinality(S))
             R == D("pihole_client_queries")
             Q == D("pihole_client_blocked")
             F(z) == Series({"pihole_client_queries"}, V(z, 1))
             G(z) == Series({"pihole_client_blocked"}, V(z, 3))
  <1>1. CASE ~Answered(x[1])
    BY <1>1 DEF ClientSeries, When
  <1>2. CASE Answered(x[1])
    <2>1. ClientSeries(x) = F(x) ++ G(x) ++ R ++ Q
      BY <1>2 DEF ClientSeries, When, For
    <2>2. ClientSeries(y) = F(y) ++ G(y) ++ R ++ Q
      BY <1>2 DEF ClientSeries, When, For
    <2> HIDE DEF S
    <2>3. \A z, j : (DOMAIN V(z, j) = {}) <=> (S = {})
      BY DEF Labelled
    <2> HIDE DEF V, R, Q
    <2>4. FamiliesOf(F(x)) = FamiliesOf(F(y)) /\ FamiliesOf(G(x)) = FamiliesOf(G(y))
      BY <2>3, SeriesFamilies
    <2> HIDE DEF F, G
    <2>5. \A z : FamiliesOf(F(z) ++ G(z) ++ R ++ Q) =
                   FamiliesOf(F(z)) \cup FamiliesOf(G(z)) \cup FamiliesOf(R) \cup FamiliesOf(Q)
      BY FamiliesJoined
    <2> QED BY <2>1, <2>2, <2>4, <2>5
  <1> QED BY <1>1, <1>2

LEMMA ClientsApart ==
    ASSUME NEW a, NEW b, NEW c, NEW k, Apart(a, b, c, k, 1..6), k # 1
    PROVE  Brought(PiholeClients(a), PiholeClients(b), PiholeClients(c))
  <1> DEFINE E(x) == EmitDomains("pihole_top_permitted_domain", x[5])
             F(x) == EmitDomains("pihole_top_blocked_domain", x[6])
             T(x) == FamiliesOf(Took("stats/top_clients", x[1])) \cup FamiliesOf(Took("network/devices", x[2]))
                     \cup FamiliesOf(Took("stats/top_clients?blocked", x[3]))
                     \cup FamiliesOf(Took("stats/top_domains", x[5])) \cup FamiliesOf(E(x))
                     \cup FamiliesOf(Took("stats/top_domains?blocked", x[6])) \cup FamiliesOf(F(x))
  <1>1. \A x : FamiliesOf(PiholeClients(x).out) = T(x) \cup FamiliesOf(ClientSeries(x))
    BY FamiliesJoined DEF PiholeClients, Collected
  <1>2. FamiliesOf(ClientSeries(b)) = FamiliesOf(ClientSeries(c))
    BY ClientFamilies DEF Apart, Done
  <1>3. T(b) \ T(c) \subseteq T(a)
    BY DEF Apart
  <1> HIDE DEF T
  <1> QED BY <1>1, <1>2, <1>3 DEF Brought

\* What the answer to call k brings, whatever becomes of the others, it brings now.
LEMMA ResultsApart ==
    ASSUME NEW p \in Collector, p \notin Joint, NEW a, NEW b, NEW c, NEW k,
           Apart(a, b, c, k, CallsOf(p)), Result(p, c).calls = CallsOf(p),
           Done(Result(p, a).calls, a), k \in Result(p, a).calls,
           CallsOf(p) = {1} => Result(p, b) = Result(p, a)
    PROVE  Brought(Result(p, a), Result(p, b), Result(p, c))
  <1>0. \A x : Made(p, x, Result(p, x))
    BY CallsMade
  <1>1. CASE CallsOf(p) = {1}
    BY <1>1 DEF Brought
  <1>2. CASE p \in {"pihole_ftl_health", "pihole_gravity"}
    <2>1. CallsOf(p) = {1, 2}
      BY <1>2 DEF CallsOf, Twice, Thrice
    <2> QED BY <1>2, <2>1, PiholeApart DEF Result
  <1>3. CASE p \in {"synology_ups", "synology_events", "synology_cameras", "synology_license",
                    "synology_security"}
    <2>1. CallsOf(p) = {1, 2}
      BY <1>3 DEF CallsOf, Twice, Thrice
    <2>2. Done({1, 2}, a)
      BY <1>0, <1>3, <2>1 DEF Made
    <2> QED BY <1>3, <2>1, <2>2, CoEqualApart DEF Result
  <1>4. CASE p \in {"synology_backup", "watched_dir_size", "synology_mount_health", "pihole_dns_split"}
    <2>1. CallsOf(p) = {1, 2}
      BY <1>4 DEF CallsOf, Twice, Thrice
    <2>2. Done({1, 2}, a)
      BY <1>0, <1>4, <2>1 DEF Made
    <2> QED BY <1>4, <2>1, <2>2, BackupApart, ProbesApart DEF Result
  <1>5. CASE p \in {"synology_updates", "host"}
    <2>1. CallsOf(p) = {1, 2, 3}
      BY <1>5 DEF CallsOf, Twice, Thrice
    <2>2. Done({1, 2, 3}, a)
      BY <1>0, <1>5, <2>1 DEF Made
    <2> QED BY <1>5, <2>1, <2>2, UpdatesApart, HostApart DEF Result
  <1>6. CASE p = "synology_system"
    <2>1. CallsOf(p) = {1, 2, 3}
      BY <1>6 DEF CallsOf, Twice, Thrice
    <2>2. k # 1
      <3>1. c[1] # Down
        BY <1>0, <1>6, <2>1 DEF Made
      <3> QED BY <3>1 DEF Apart
    <2>3. a[1] # Down /\ Result(p, a).calls = {1, 2, 3}
      BY <1>0, <1>6, <2>1, <2>2 DEF Made
    <2>4. Answered(a[1])
      BY <2>3 DEF Done, Answered
    <2> QED BY <1>6, <2>1, <2>2, <2>3, <2>4, SystemApart DEF Result
  <1>7. CASE p = "synology_replication"
    <2>1. CallsOf(p) = {1, 2, 3}
      BY <1>7 DEF CallsOf, Twice, Thrice
    <2>2. \A x : Result(p, x) = SynologyReplication(x)
      BY <1>7 DEF Result
    <2> QED BY <2>1, <2>2, ReplicationApart
  <1>8. CASE p = "pihole_clients"
    <2>1. CallsOf(p) = 1..6
      BY <1>8 DEF CallsOf, Twice, Thrice
    <2>2. k # 1
      <3>1. c[1] # Down
        BY <1>0, <1>8, <2>1 DEF Made
      <3> QED BY <3>1 DEF Apart
    <2>3. \A x : Result(p, x) = PiholeClients(x)
      BY <1>8 DEF Result
    <2> QED BY <2>1, <2>2, <2>3, ClientsApart
  <1>9. CASE p \in Collector \ (Twice \cup Thrice \cup {"pihole_clients", "pihole_dns_split",
                                         "synology_mount_health", "watched_dir_size"})
    <2>1. CallsOf(p) = {1}
      BY <1>9 DEF CallsOf, Twice, Thrice
    <2> QED BY <1>1, <2>1
  <1> QED BY <1>2, <1>3, <1>4, <1>5, <1>6, <1>7, <1>8, <1>9 DEF Twice, Thrice, Joint

\* Of a complete run, everything an answer brings is in the registry.
LEMMA CollectorCalls ==
    ASSUME CollectorsAssumption, CollectorInv
    PROVE  CallsAreIndependent
  <1> SUFFICES ASSUME Complete, plugin \notin Joint,
                      NEW k \in DOMAIN world, Answered(got[k]),
                      Otherwise(k, Down).calls = DOMAIN world
               PROVE  FamiliesOf(Otherwise(k, got[k]).out) \ FamiliesOf(Otherwise(k, Down).out)
                          \subseteq FamiliesOf(registry)
    BY DEF CallsAreIndependent
  <1>0. /\ plugin \in Collector /\ DOMAIN world = CallsOf(plugin)
        /\ got = [n \in 1..6 |-> got[n]]
        /\ CallsOf(plugin) \in SUBSET (1..6) /\ 1 \in CallsOf(plugin)
    BY CallsAreKnown DEF CollectorInv, CollectorTypes
  <1>1. /\ run = Result(plugin, got) /\ Done(run.calls, got)
        /\ FamiliesOf(run.out) \subseteq DOMAIN names
    BY DEF CollectorInv, CollectorEnds, Complete
  <1>2. k \in 1..6 /\ got[k] # Unasked /\ k \in run.calls
    BY <1>0 DEF Answered, CollectorInv, CollectorRuns
  <1>3. PICK well : well = [i \in Item |-> <<1, 1>>] /\ well # Unasked
    BY DEF CollectorsAssumption
  <1>4. PICK b : b = [n \in 1..6 |-> IF n = k THEN got[k]
                                     ELSE IF n \in DOMAIN world THEN well ELSE Unasked]
    OBVIOUS
  <1>5. PICK c : c = [n \in 1..6 |-> IF n = k THEN Down
                                     ELSE IF n \in DOMAIN world THEN well ELSE Unasked]
    OBVIOUS
  <1>6. Otherwise(k, got[k]) = Result(plugin, b) /\ Otherwise(k, Down) = Result(plugin, c)
    BY <1>3, <1>4, <1>5 DEF Otherwise
  <1>7. Apart(got, b, c, k, CallsOf(plugin))
    BY <1>0, <1>2, <1>3, <1>4, <1>5 DEF Apart, Done, CollectorsAssumption
  <1>8. CallsOf(plugin) = {1} => b = got
    <2> SUFFICES ASSUME CallsOf(plugin) = {1} PROVE b = got
      OBVIOUS
    <2>1. k = 1 /\ run.calls \subseteq {1}
      BY <1>0, <1>1, CallsAreKnown
    <2>2. \A n \in 1..6 : n # 1 => got[n] = Unasked
      BY <2>1 DEF CollectorInv, CollectorRuns
    <2>3. \A n \in 1..6 : b[n] = got[n]
      BY <1>0, <1>4, <2>1, <2>2
    <2> QED BY <1>0, <1>4, <2>3
  <1>9. Brought(run, Otherwise(k, got[k]), Otherwise(k, Down))
    BY <1>0, <1>1, <1>2, <1>6, <1>7, <1>8, ResultsApart
  <1>10. DOMAIN names \subseteq FamiliesOf(registry)
    BY DEF CollectorInv, Consistent
  <1> QED BY <1>1, <1>9, <1>10 DEF Brought
=============================================================================
