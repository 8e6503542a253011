SPECIFICATION MCSpec
CONSTANTS
    None = None
    Caller = {c1, c2}
    MaxSids = 3
    MaxLosses = 1
    Proc = {1}
    MaxOutput = 2
    MinInterval = 3
    Durations = {1, 3}
    MaxInstant = 3
    MaxPageSize = 3
    Req = {t1, t2}
    MaxConnections = 1
    MaxPerSecond = 1
    MaxDuration = 2
    MaxErrors = 2
    TailFailures = 1
    TailTime = 2
    TailLines = 3
    Down = Down
    Odd = Odd
    Breakable = {"docker_socket", "docker_discoverer", "docker_probes_supervisor", "image_update_checker",
        "cron_discoverer"}
    Unasked = Unasked
    Task = {k1, k2}
    RunId = {i1, i2}
    r1 = r1
    a1 = a1
    Runbook = {r1}
    Version = {v1}
    RiskyVersions = {}
    Alert = {a1}
    Matches <- Matched
    RateLimit = 1
    RateWindow = 2
    Cooldown = 2
    ExecTimeout = 1
    Slack = 1
    MaxTime = 3
    MaxCrashes = 1
    MaxEdits = 0
    MaxToggles = 0
    Conn = {e1, e2}
    Depth = 2
    Replay = 2
    MaxSeq = 5
    Disconnect = Disconnect
    Capacity = 3
    BatchSize = 2
    Written = 5
    FixRun = {1, 2}
    FixBook = {b1, b2}
    Pass = {p1, p2}
    KeepLastN = 1
    MaxAge = 0
    MaxDays = 1
    LogLine = {l1, l2, l3, l4}
    Part = {"collectors", "sessions", "lifespan", "plugins", "pages", "tail", "events", "writer", "files", "limits"}
    Item = {1, 2}
    Plugin = {"ha_up", "ha_battery", "ha_sensor_value", "ha_safety_sensors", "ha_update",
        "ha_entity_available", "ha_cadence", "ha_config_entry", "ha_repairs",
        "ha_persistent_notification", "pihole_blocking", "pihole_config", "pihole_dns_health",
        "pihole_dns_split", "pihole_ftl_health", "pihole_ftl_messages", "pihole_gravity",
        "pihole_version", "pihole_upstreams", "pihole_stats_summary", "unbound_stats",
        "pihole_clients", "unifi_controller_up", "unifi_vpn_teleport", "unifi_threat",
        "unifi_networkconf", "unifi_wan", "unifi_device", "unifi_client_stats",
        "unifi_client_dpi", "synology_storage", "synology_pool", "synology_utilization",
        "synology_ups", "synology_updates", "synology_system", "synology_events",
        "synology_cameras", "synology_license", "synology_security", "synology_replication",
        "synology_backup", "host", "watched_dir_size", "synology_mount_health",
        "log_stream_budget", "log_error_rate", "vl_health", "uptime_host", "synology_probe"}
SYMMETRY Interchangeable
INVARIANTS
    HealthIsShown
    CallsAreIndependent
    OneLossIsHidden
    UsersHaveTheirClients
    SuccessIsEarned
    LinesAreExact
    RunFilesAreSound
    LimitsHold
