--------------------------- MODULE HostCollectors ---------------------------
(***************************************************************************)
(* The collectors of the host, of the log store and over SSH.              *)
(***************************************************************************)
EXTENDS Metrics

-----------------------------------------------------------------------------
(* The host.  Calls 1 and 2 ask a mount for its size in a thread: the      *)
(* mount of a partition, then an extra mount, whose errors do not count.   *)
(* Call 3 is everything psutil returns at once: item 1 the machine (cpu,   *)
(* load, memory, swap, uptime), item 2 a disk with its interface, sensor   *)
(* and process.  Bad: psutil raises.                                       *)

\* Odd: the mount is not in the table of mounts, and is passed over.
EmitDiskMountpoint(mount, r) ==
    LET size(kind) == With("host_disk_bytes", [mountpoint |-> mount, type |-> kind], 1)
    IN  When(1 \in Usable(r) /\ First(r, 1) > 0, size("used") ++ size("total"))

CollectMachine(r) ==
    When(1 \in Usable(r),
        Series({"host_memory_bytes", "host_swap_bytes"},
               [l \in {[type |-> "used"], [type |-> "total"]} |-> First(r, 1)])
        ++ With("host_cpu_percent", [cpu |-> "all"], First(r, 1))
        ++ With("host_load_average", [period |-> "1m"], First(r, 1))
        ++ One("host_uptime_seconds", First(r, 1)))

\* The processes are counted by state, in every state.
CollectDevices(r) ==
    LET directed(f, n, d) == With(f, Single(n, 2) ++ [direction |-> d], First(r, 2))
    IN  When(2 \in Usable(r),
            directed("host_disk_io_bytes_total", "disk", "read")
            ++ directed("host_disk_io_bytes_total", "disk", "write")
            ++ directed("host_net_bytes_total", "iface", "rx")
            ++ directed("host_net_bytes_total", "iface", "tx")
            ++ With("host_temperature_celsius", [chip |-> 2, sensor |-> 2], First(r, 2))
            ++ Series({"host_processes_total"},
                      [l \in {[state |-> "running"], [state |-> "zombie"]} |-> First(r, 2)]))

\* The families of the top processes are written by no run: the writer a run
\* is given is not of the class that holds them.
HostCollector(got) ==
    LET done == Done(1..3, got)
        raised == \E i \in Present(got[3]) : First(got[3], i) = Bad
    IN  Collected(1..3, done /\ got[1] # Down /\ IsOk(got[3]) /\ ~raised,
            EmitDiskMountpoint(1, got[1]) ++ EmitDiskMountpoint(2, got[2])
            ++ CollectMachine(got[3]) ++ CollectDevices(got[3]))

\* One walk per directory, each written when it ends.  Down: the directory is
\* not there, which is reported as 0 bytes.  Odd: the walk ran out of time.
WatchedDirSize(got) ==
    LET of(k, r) ==
            LET by(f, v) == With(f, [path |-> k], v)
            IN  When(r # Unasked,
                    by("host_directory_bytes", Bit(1 \in Usable(r) /\ First(r, 1) = 1))
                    ++ by("host_directory_walk_truncated", Bit(r = Odd))
                    ++ by("host_directory_unreadable_subdirs", Bit(1 \in Present(r) \ Usable(r))))
    IN  Collected(1..2, TRUE, of(1, got[1]) ++ of(2, got[2]))

\* Each mount is shown down, then asked, then shown up.  Odd: not mounted.
\* Down: the question timed out or failed.
SynologyMountHealth(got) ==
    LET of(k, r) ==
            LET by(f, v) == With(f, [mount |-> k], v)
            IN  When(IsOk(r), by("synology_mount_up", 1) ++ by("synology_mount_free_bytes", 1)
                              ++ by("synology_mount_total_bytes", 1))
                ++ When(r \notin {Unasked, Odd}, by("synology_mount_probe_seconds", 1))
                ++ by("synology_mount_up", 0)
    IN  Collected(1..2, TRUE, of(1, got[1]) ++ When(got[1] # Unasked, of(2, got[2])))

-----------------------------------------------------------------------------
(* The log store.                                                          *)

\* Bytes of the day, then lines of the last minutes; nothing is written unless
\* both are answered.  Odd: an answer whose status is not success, without rows.
LogStreamBudget(got) ==
    LET streams == Usable(got[1])
        stream(i) == [host |-> i, service |-> i]
        calls == IF got[1] = Down THEN {1} ELSE {1, 2}
        ok == Done({1, 2}, got) /\ \A k \in {1, 2} : Answered(got[k])
    IN  Collected(calls, ok, When(ok,
            For("log_stream_bytes_today", streams, stream, LAMBDA i : First(got[1], i))
            ++ For("log_stream_lines_per_sec", streams, stream,
                   LAMBDA i : IF i \in Usable(got[2]) THEN First(got[2], i) ELSE 0)
            ++ For("log_stream_bytes_budget", streams, stream, LAMBDA i : 1)))

\* Errors of the last minute, of the services that had one.
LogErrorRate(got) ==
    Collected({1}, Answered(got[1]),
        For("container_error_rate", Usable(got[1]), LAMBDA i : [name |-> i],
            LAMBDA i : First(got[1], i)))

VlHealth(got) ==
    Collected({1}, TRUE, One("vl_up", Bit(IsOk(got[1]))) ++ One("vl_response_time_seconds", 1))

-----------------------------------------------------------------------------
(* Probes over SSH.  Down: the connection failed.  Odd: it failed because  *)
(* the host key is not the pinned one.  A command that failed returns an   *)
(* empty payload.  The age of the last success is left out.                *)

SshProbe(name, up, metrics, r) ==
    LET by(f, v) == With(f, [target |-> name], v)
    IN  Collected({1}, IsOk(r),
            by("ssh_up", Bit(IsOk(r) /\ up))
            ++ With("ssh_probe_duration_seconds", [target |-> name, probe |-> name], 1)
            ++ by("ssh_host_key_mismatch", Bit(r = Odd))
            ++ When(IsOk(r), metrics))

UptimeProbe(got) ==
    LET r == got[1]
    IN  SshProbe("host", 1 \in Usable(r),
            IF 1 \in Usable(r) THEN With("ssh_uptime_seconds", [target |-> "host"], First(r, 1))
                               ELSE NoSeries, r)

\* Item 1: the section of the uptime.  First field: the load; second: the time.
ParseUptime(r) ==
    Numbers({"synology_ssh_load1", "synology_ssh_load5", "synology_ssh_load15"}, r)
    ++ When(1 \in Present(r) /\ Second(r, 1) # Bad, One("synology_ssh_uptime_seconds", Second(r, 1)))

\* Item 2: a disk and an array.  First field: an attribute that fails (1) or
\* not (0) or cannot be read, which counts as failing.
ParseSmartBlock(r) ==
    LET of(f, more, v) == With(f, [disk |-> 2] ++ more, v)
    IN  When(2 \in Present(r),
            of("synology_smart_disk_present", [model |-> 2], 1)
            ++ of("synology_smart_attr_failing", NoLabels, Bit(First(r, 2) # 0)))
        ++ When(2 \in Usable(r),
            of("synology_smart_attr_raw", [attr_id |-> 1, attr_name |-> 1], First(r, 2))
            ++ of("synology_smart_attr_worst", [attr_id |-> 1], First(r, 2))
            ++ of("synology_smart_attr_threshold", [attr_id |-> 1], First(r, 2)))

\* Second field: fewer disks in use than active (1), as many (0), no array.
ParseMdstat(r) ==
    LET of(f, v) == With(f, [array |-> 2], v)
    IN  When(2 \in Present(r) /\ Second(r, 2) # Bad,
            of("synology_mdstat_disks_active", 1) ++ of("synology_mdstat_disks_total", 1)
            ++ of("synology_mdstat_array_degraded", Second(r, 2)))

ParseHwmon(r) ==
    When(2 \in Usable(r),
        One("synology_ssh_cpu_temp_celsius", First(r, 2))
        ++ With("synology_ssh_cpu_core_temp_celsius", [core |-> 0], First(r, 2)))

\* The probe of the NAS is up when its load could be read.
SynologyProbe(got) ==
    LET r == got[1]
    IN  SshProbe("synology", 1 \in Usable(r),
            ParseUptime(r) ++ ParseSmartBlock(r) ++ ParseMdstat(r) ++ ParseHwmon(r), r)
=============================================================================
