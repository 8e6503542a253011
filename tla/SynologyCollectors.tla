------------------------- MODULE SynologyCollectors -------------------------
(***************************************************************************)
(* The collectors of the Synology integration.  Those with one call fail   *)
(* when it fails; those with several succeed when one of the calls does,   *)
(* write everything at the end, and write their alerting gauges whatever   *)
(* the calls returned, starting from a baseline.                           *)
(***************************************************************************)
EXTENDS Metrics

FetchOrResult(api, r) == When(Answered(r), With("synology_api_took_seconds", [api |-> api], 1))

\* One required call; a payload of another shape writes nothing more.
OneFetch(api, r, out) ==
    Collected({1}, Answered(r), FetchOrResult(api, r) ++ When(IsOk(r), out))

\* Mutant: an error is an empty answer.
CoEqualAnyway(calls, got, took, out) ==
    Collected(calls, TRUE, took ++ When(Done(calls, got), out))

\* Mutant: the first error ends the run.
CoEqualAll(calls, got, took, out) ==
    Collected(calls, \E k \in calls : Answered(got[k]),
              took ++ When(\A k \in calls : Answered(got[k]), out))

\* Calls on equal terms: the run succeeds when one of them was answered, and
\* what was built is written after the last one.
CoEqual(calls, got, took, out) ==
    Collected(calls, \E k \in calls : Answered(got[k]), took ++ When(Done(calls, got), out))

\* The value of a scalar that starts from a baseline.
Or(r, base) == IF 1 \in Usable(r) THEN First(r, 1) ELSE base
There(r) == 1 \in Usable(r)

-----------------------------------------------------------------------------
(* Storage and pools: one payload of volumes (item 1) and disks (item 2).  *)

\* First field: the numbers.  Second: the status, which is a label.
ParseVolume(r) ==
    LET volumes == Present(r) \cap {1}
        numbers == Usable(r) \cap {1}
        number(i) == First(r, i)
    IN  EmitFamilies({"synology_volume_used_bytes", "synology_volume_total_bytes",
                      "synology_volume_used_percent", "synology_volume_writable",
                      "synology_volume_encrypted", "synology_volume_locked",
                      "synology_volume_inode_full"}, numbers, LAMBDA i : [volume |-> i], number)
        ++ EmitFamily("synology_volume_status", {i \in volumes : Second(r, i) # Bad},
                      LAMBDA i : [volume |-> i, status |-> Second(r, i)], LAMBDA i : 1)
        ++ EmitFamily("synology_volume_fs_type", numbers,
                      LAMBDA i : [volume |-> i, fs |-> 1], LAMBDA i : 1)

\* The status gauges are 1 for "normal" only.
ParseDisk(r) ==
    LET disks == Usable(r) \ {1}
        byDisk(i) == [disk |-> i]
        number(i) == First(r, i)
    IN  EmitFamily("synology_disk_temp_celsius", disks,
                   LAMBDA i : [disk |-> i, model |-> i], number)
        ++ EmitFamilies({"synology_disk_smart_status", "synology_disk_status"},
                        {i \in Present(r) \ {1} : Second(r, i) # Bad}, byDisk,
                        LAMBDA i : Bit(Second(r, i) = 1))
        ++ EmitFamilies({"synology_disk_unc_count", "synology_disk_remain_life",
                         "synology_disk_sb_days_left", "synology_disk_size_bytes",
                         "synology_disk_slot"}, disks, byDisk, number)

SynologyStorage(got) ==
    OneFetch("SYNO.Storage.CGI.Storage", got[1], ParseVolume(got[1]) ++ ParseDisk(got[1]))

\* First field: the numbers of a pool.  Second: its status and its RAID.
ParseRaid(r) ==
    LET raids == {i \in Present(r) : Second(r, i) # Bad}
    IN  EmitFamilies({"synology_raid_status", "synology_raid_normal_disk_count",
                      "synology_raid_designed_disk_count", "synology_raid_has_parity",
                      "synology_raid_crashed_reason"}, raids,
                     LAMBDA i : [pool |-> i, raid |-> 1], LAMBDA i : Second(r, i))

ParsePool(r) ==
    LET byPool(i) == [pool |-> i]
        number(i) == First(r, i)
        stated == {i \in Present(r) : Second(r, i) # Bad}
        labelled(f, n) == EmitFamily(f, stated,
                              LAMBDA i : byPool(i) ++ Single(n, Second(r, i)), LAMBDA i : 1)
    IN  labelled("synology_pool_status", "status")
        ++ labelled("synology_pool_scrub_status", "state")
        ++ labelled("synology_pool_progress_step", "step")
        \* attention or danger of the space; written for every pool
        ++ EmitFamily("synology_pool_unverified_disk", Present(r), byPool,
                      LAMBDA i : Bit(Second(r, i) = 0))
        ++ EmitFamilies({"synology_pool_disk_failure_number", "synology_pool_writable",
                         "synology_pool_progress_percent", "synology_pool_scrub_can_do_manual",
                         "synology_pool_scrub_can_schedule",
                         "synology_pool_scrub_last_done_timestamp",
                         "synology_pool_scrub_next_schedule_timestamp"}, Usable(r), byPool, number)

SynologyPool(got) ==
    OneFetch("SYNO.Storage.CGI.Storage", got[1], ParsePool(got[1]) ++ ParseRaid(got[1]))

-----------------------------------------------------------------------------
(* Utilization: item 1 is the machine, item 2 a disk with its volume and   *)
(* network interface.                                                      *)

ParseCpu(r) ==
    EmitScalars({"synology_cpu_load1", "synology_cpu_load5", "synology_cpu_load15",
                 "synology_cpu_user_percent", "synology_cpu_system_percent",
                 "synology_cpu_other_percent"}, There(r), Or(r, 0))

ParseMemory(r) ==
    EmitScalars({"synology_mem_usage_percent", "synology_swap_usage_percent",
                 "synology_mem_total_bytes", "synology_mem_available_bytes",
                 "synology_mem_cached_bytes", "synology_mem_buffer_bytes"}, There(r), Or(r, 0))

ParseNfs(r) ==
    EmitScalars({"synology_nfs_read_ops", "synology_nfs_write_ops", "synology_nfs_total_ops",
                 "synology_nfs_read_max_latency_seconds", "synology_nfs_write_max_latency_seconds",
                 "synology_nfs_total_max_latency_seconds"}, There(r), Or(r, 0))

\* The total is a device like the others.
Rates(F, n, r) ==
    EmitFamilies(F, Usable(r), LAMBDA i : Single(n, i), LAMBDA i : First(r, i))

UtilizationDisks(r) ==
    Rates({"synology_disk_read_bytes_per_second", "synology_disk_write_bytes_per_second",
           "synology_disk_read_iops", "synology_disk_write_iops",
           "synology_disk_utilization_percent"}, "device", r)

UtilizationSpace(r) ==
    Rates({"synology_vol_io_read_bytes_per_second", "synology_vol_io_write_bytes_per_second",
           "synology_vol_io_utilization_percent"}, "volume", r)

UtilizationNetwork(r) ==
    Rates({"synology_net_rx_bytes_per_second", "synology_net_tx_bytes_per_second"}, "iface", r)

SynologyUtilization(got) ==
    LET r == got[1]
    IN  OneFetch("SYNO.Core.System.Utilization", r,
            ParseCpu(r) ++ ParseMemory(r) ++ UtilizationDisks(r) ++ UtilizationNetwork(r)
            ++ UtilizationSpace(r) ++ ParseNfs(r))

-----------------------------------------------------------------------------
(* UPS and system health.                                                  *)

\* First field: charge, runtime and state (1: on battery).  Second: the
\* manufacturer, a label that may be missing.
ParseUps(r) ==
    EmitScalars({"synology_ups_charge_percent", "synology_ups_runtime_seconds",
                 "synology_ups_on_battery", "synology_ups_low_battery"}, There(r), Or(r, 0))
    ++ EmitFamily("synology_ups_status", Usable(r) \cap {1},
                  LAMBDA i : [state |-> First(r, i)], LAMBDA i : 1)
    ++ EmitScalars({"synology_ups_connected"}, IsOk(r), Or(r, 0))
    ++ EmitFamily("synology_ups_info", Usable(r) \cap {1},
                  LAMBDA i : IF Second(r, i) = Bad THEN [model |-> 1]
                             ELSE [model |-> 1, manufacture |-> Second(r, i)], LAMBDA i : 1)

\* A rule that fires makes the health 0; without one it is 1.
ParseHealth(r) ==
    EmitScalars({"synology_health_ok"}, IsOk(r), Bit(1 \notin Present(r)))
    ++ EmitFamily("synology_health_rule", Usable(r) \cap {1},
                  LAMBDA i : [rule |-> First(r, i)], LAMBDA i : 1)
    ++ EmitScalars({"synology_health_priority"}, There(r), Or(r, 0))

SynologyUps(got) ==
    CoEqual(1..2, got, FetchOrResult("SYNO.Core.ExternalDevice.UPS", got[1])
                       ++ FetchOrResult("SYNO.Core.System.SystemHealth", got[2]),
            ParseUps(got[1]) ++ ParseHealth(got[2]))

-----------------------------------------------------------------------------
(* Updates: the upgrade check, the catalogue of packages, the packages.    *)
(* No update (0) is the baseline of a call that failed.                    *)

ParseUpgrade(r) ==
    LET available == Or(r, 0)
    IN  EmitScalars({"synology_dsm_update_available", "synology_dsm_update_is_security"},
                    TRUE, available)
        ++ EmitFamily("synology_dsm_update_info", {i \in Usable(r) \cap {1} : available = 1},
                      LAMBDA i : IF Second(r, i) = Bad THEN [available_version |-> 1]
                                 ELSE [available_version |-> 1, type |-> Second(r, i)],
                      LAMBDA i : 1)

\* A package has an update when the catalogue has another version of it.
HasUpdate(server, packages, i) ==
    i \in Usable(packages) /\ i \in Usable(server) /\ First(server, i) # First(packages, i)

ParsePackages(server, r) ==
    LET updates == {i \in Present(r) : HasUpdate(server, r, i)}
    IN  EmitScalars({"synology_package_count"}, TRUE, Cardinality(Present(r)))
        ++ EmitFamily("synology_package_info", Present(r),
                      LAMBDA i : IF i \in Usable(r) THEN [package |-> i, version |-> First(r, i)]
                                 ELSE [package |-> i], LAMBDA i : 1)
        ++ EmitFamily("synology_package_update_available", Present(r),
                      LAMBDA i : [package |-> i], LAMBDA i : Bit(i \in updates))
        ++ EmitScalars({"synology_packages_with_updates_count"}, TRUE, Cardinality(updates))

SynologyUpdates(got) ==
    CoEqual(1..3, got, FetchOrResult("SYNO.Core.Upgrade.Server", got[1])
                       ++ FetchOrResult("SYNO.Core.Package.Server", got[2])
                       ++ FetchOrResult("SYNO.Core.Package", got[3]),
            ParseUpgrade(got[1]) ++ ParsePackages(got[2], got[3]))

-----------------------------------------------------------------------------
(* System: the first call is required, fan and reboot are not.             *)

ParseSystemInfo(r) ==
    EmitScalars({"synology_system_uptime_seconds", "synology_sys_temp_celsius",
                 "synology_sys_temp_warning"}, There(r), Or(r, 0))
    ++ EmitFamily("synology_info", Present(r) \cap {1},
                  LAMBDA i : IF Second(r, i) = Bad THEN [model |-> 1]
                             ELSE [model |-> 1, firmware |-> Second(r, i)], LAMBDA i : 1)

\* The mode is a label with value 1, beside the two flags.
ParseFanspeed(r) ==
    EmitFamily("synology_fan_status", Usable(r) \cap {1},
               LAMBDA i : [state |-> First(r, i)], LAMBDA i : 1)

ParseNeedReboot(r) == EmitScalars({"synology_need_reboot"}, There(r), Or(r, 0))

SynologySystem(got) ==
    LET calls == IF got[1] = Down THEN {1} ELSE 1..3
    IN  Collected(calls, Answered(got[1]),
            FetchOrResult("SYNO.Core.System", got[1])
            ++ FetchOrResult("SYNO.Core.Hardware.FanSpeed", got[2])
            ++ FetchOrResult("SYNO.Core.System.Reboot", got[3])
            ++ When(Answered(got[1]) /\ Done(calls, got),
                    ParseSystemInfo(got[1]) ++ ParseFanspeed(got[2]) ++ ParseNeedReboot(got[3])))

-----------------------------------------------------------------------------
(* Surveillance Station.  Baselines are 0.                                 *)

ParseEvents(r) ==
    EmitFamily("synology_ss_events_total", Usable(r), LAMBDA i : [camera |-> i],
               LAMBDA i : First(r, i))
    ++ EmitScalars({"synology_ss_events_today", "synology_ss_events_total_all"}, TRUE, Or(r, 0))

\* A recording without a size counts with 0 bytes.
ParseRecordings(r) ==
    LET size(i) == IF First(r, i) = Bad THEN 0 ELSE First(r, i)
        camera(i) == [camera |-> i]
        bytes == Cardinality({i \in Present(r) : size(i) = 1})
    IN  EmitFamily("synology_ss_recordings_count", Present(r), camera, LAMBDA i : 1)
        ++ EmitFamily("synology_ss_recordings_bytes", Present(r), camera, size)
        ++ EmitScalars({"synology_ss_recordings_total"}, TRUE, Or(r, 0))
        ++ EmitScalars({"synology_ss_recordings_bytes_total"}, TRUE, bytes)

SynologyEvents(got) ==
    CoEqual(1..2, got, FetchOrResult("SYNO.SurveillanceStation.Event", got[1])
                       ++ FetchOrResult("SYNO.SurveillanceStation.Recording", got[2]),
            ParseEvents(got[1]) ++ ParseRecordings(got[2]))

\* First field: the status (1: connected).  A camera of unknown status is
\* written as not connected.
ParseCameras(r) ==
    LET camera(i) == [camera |-> i]
        number(i) == First(r, i)
        connected == {i \in Usable(r) : First(r, i) = 1}
    IN  EmitFamily("synology_ss_camera_connected", Present(r), camera, LAMBDA i : Bit(i \in connected))
        ++ EmitFamilies({"synology_ss_camera_status", "synology_ss_camera_fps",
                         "synology_ss_camera_resolution_pixels", "synology_ss_camera_recording_keep_days",
                         "synology_ss_camera_recording_keep_size_mb"}, Usable(r), camera, number)
        ++ EmitFamily("synology_ss_camera_info", Present(r), LAMBDA i : camera(i) ++ [model |-> 1],
                      LAMBDA i : 1)
        ++ EmitFamily("synology_ss_camera_resolution", Usable(r),
                      LAMBDA i : camera(i) ++ [resolution |-> First(r, i)], LAMBDA i : 1)
        ++ EmitFamily("synology_ss_camera_recording_retention_mode", Present(r),
                      LAMBDA i : camera(i) ++ [mode |-> Second(r, i)], LAMBDA i : 1)
        ++ EmitScalars({"synology_ss_cameras_total"}, TRUE, Cardinality(Present(r)))
        ++ EmitScalars({"synology_ss_cameras_connected_total"}, TRUE, Cardinality(connected))
        ++ EmitScalars({"synology_ss_cameras_disconnected_total"}, TRUE,
                       Cardinality(Present(r)) - Cardinality(connected))

ParseStationInfo(r) ==
    EmitScalars({"synology_ss_info_camera_number", "synology_ss_info_license_used",
                 "synology_ss_info_license_max"}, TRUE, Or(r, 0))
    ++ EmitFamily("synology_ss_info_version", Usable(r) \cap {1},
                  LAMBDA i : [version |-> First(r, i)], LAMBDA i : 1)

SynologyCameras(got) ==
    CoEqual(1..2, got, FetchOrResult("SYNO.SurveillanceStation.Camera", got[1])
                       ++ FetchOrResult("SYNO.SurveillanceStation.Info", got[2]),
            ParseCameras(got[1]) ++ ParseStationInfo(got[2]))

\* First field: licences in use (1) or not.  Second: licences there.
ParseLicense(r) ==
    LET exhausted == There(r) /\ Second(r, 1) # Bad /\ First(r, 1) > Second(r, 1)
    IN  EmitScalars({"synology_ss_license_total"}, TRUE,
                    IF 1 \in Present(r) /\ Second(r, 1) # Bad THEN Second(r, 1) ELSE 0)
        ++ EmitScalars({"synology_ss_license_used", "synology_ss_license_max",
                        "synology_ss_license_camera_count"}, TRUE, Or(r, 0))
        ++ EmitScalars({"synology_ss_license_exhausted"}, TRUE, Bit(exhausted))

ParseHomemode(r) ==
    EmitScalars({"synology_ss_homemode_on", "synology_ss_homemode_notify_on",
                 "synology_ss_homemode_schedule_on", "synology_ss_homemode_rec_schedule_on",
                 "synology_ss_homemode_streaming_on"}, TRUE, Or(r, 0))

SynologyLicense(got) ==
    CoEqual(1..2, got, FetchOrResult("SYNO.SurveillanceStation.License", got[1])
                       ++ FetchOrResult("SYNO.SurveillanceStation.HomeMode", got[2]),
            ParseLicense(got[1]) ++ ParseHomemode(got[2]))

-----------------------------------------------------------------------------
(* Security advisor: 0 safe ... 3 danger; 2 is the baseline of a scan that *)
(* could not be read, and it is not safe.                                  *)

ParseSecurity(r) ==
    LET status == IF ~There(r) THEN 2 ELSE IF First(r, 1) = 1 THEN 0 ELSE 3
        cells == [category |-> 1, severity |-> 1]
    IN  EmitScalars({"synology_security_status"}, TRUE, status)
        ++ EmitScalars({"synology_security_safe"}, TRUE, Bit(status = 0))
        \* every category and severity is written, 0 when unreadable
        ++ EmitFamily("synology_security_findings", Present(r) \cap {1}, LAMBDA i : cells,
                      LAMBDA i : Or(r, 0))
        ++ EmitFamily("synology_security_findings_total", Present(r) \cap {1},
                      LAMBDA i : [severity |-> 1], LAMBDA i : Or(r, 0))
        ++ EmitScalars({"synology_security_last_scan_age_seconds",
                        "synology_security_last_scan_timestamp"},
                       1 \in Present(r) /\ Second(r, 1) # Bad, 1)

ParseConnection(r) == EmitScalars({"synology_active_connections"}, There(r), Or(r, 0))

SynologySecurity(got) ==
    CoEqual(1..2, got, FetchOrResult("SYNO.Core.SecurityScan.Status", got[1])
                       ++ FetchOrResult("SYNO.Core.CurrentConnection", got[2]),
            ParseSecurity(got[1]) ++ ParseConnection(got[2]))

-----------------------------------------------------------------------------
(* Snapshots and replication: the shares, the snapshots of each (here one) *)
(* share, the replicas.                                                    *)

\* First field: the newest snapshot of the share, Bad for a time that cannot
\* be read.  A share whose call fails is skipped.
ParseShareSnapshots(r) ==
    LET share(i) == [share |-> i]
    IN  EmitFamily("synology_snapshot_count", IF IsOk(r) THEN {1} ELSE {}, share,
                   LAMBDA i : Cardinality(Present(r)))
        ++ EmitFamily("synology_snapshot_latest_age_seconds", Usable(r) \cap {1}, share,
                      LAMBDA i : First(r, i))

SynologyReplication(got) ==
    LET shares == Usable(got[1]) # {}
        calls == IF got[1] = Unasked \/ shares THEN 1..3 ELSE {1, 3}
    IN  CoEqual(calls, got, FetchOrResult("SYNO.Core.Share", got[1])
                            ++ FetchOrResult("SYNO.Core.Share.Snapshot", got[2])
                            ++ FetchOrResult("SYNO.SynologyReplica", got[3]),
            ParseShareSnapshots(got[2])
            ++ EmitScalars({"synology_snapshots_configured"}, TRUE, Bit(Present(got[2]) # {}))
            ++ EmitScalars({"synology_replication_available"}, TRUE, Bit(IsOk(got[3]))))

-----------------------------------------------------------------------------
(* Backups: the tasks and the repositories.                                *)

\* First field: the numbers and the result (1: success, 0: fail).  Second:
\* the state, 0 for one of the error states.
ParseJob(r) ==
    LET job(i) == [job |-> i]
        number(i) == First(r, i)
        stated == {i \in Present(r) : Second(r, i) # Bad}
    IN  EmitFamily("synology_backup_info", Present(r), job, LAMBDA i : 1)
        ++ EmitFamilies({"synology_backup_enabled", "synology_backup_data_size_bytes",
                         "synology_backup_last_run_timestamp",
                         "synology_backup_last_run_age_seconds",
                         "synology_backup_next_run_timestamp", "synology_backup_last_result_ok"},
                        Usable(r), job, number)
        ++ EmitFamily("synology_backup_last_result", Usable(r),
                      LAMBDA i : job(i) ++ [result |-> First(r, i)], LAMBDA i : 1)
        ++ EmitFamily("synology_backup_status", stated,
                      LAMBDA i : job(i) ++ [state |-> Second(r, i)], LAMBDA i : 1)
        ++ EmitFamily("synology_backup_status_error", stated, job,
                      LAMBDA i : Bit(Second(r, i) = 0))

\* "No backup" is said only when the tasks were read.
SynologyBackup(got) ==
    CoEqual(1..2, got, FetchOrResult("SYNO.Backup.Task", got[1])
                       ++ FetchOrResult("SYNO.Backup.Repository", got[2]),
        ParseJob(got[1])
        ++ EmitScalars({"synology_backup_repository_count"}, IsOk(got[2]),
                       Cardinality(Present(got[2])))
        ++ EmitScalars({"synology_backup_configured_count"}, TRUE, Cardinality(Present(got[1])))
        ++ EmitScalars({"synology_no_backup_configured"}, TRUE,
                       Bit(IsOk(got[1]) /\ Present(got[1]) = {})))
=============================================================================
