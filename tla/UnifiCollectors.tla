-------------------------- MODULE UnifiCollectors --------------------------
(***************************************************************************)
(* The collectors of the UniFi integration that only write metrics: one    *)
(* call of the controller each.  The two that also keep the table of       *)
(* clients are in UnifiClients.                                            *)
(***************************************************************************)
EXTENDS Metrics

ApiTook(ep, r) == When(Answered(r), With("unifi_api_took_seconds", [endpoint |-> ep], 1))

\* Mutant: the reason is a label of the gauge itself.
UpByReason(up, family, reason) == With(up, [reason |-> reason], Bit(reason = "ok"))

\* Health with its reason as a label: a run writes one reason and removes none.
UpWithReason(up, family, reason) ==
    One(up, Bit(reason = "ok")) ++ With(family, [reason |-> reason], 1)

\* Item 1 stands for meta.rc (usable: ok) and for a record of data (Gone: none).
SysinfoReason(r) ==
    CASE r = Down -> "unreachable"
      [] r = Odd -> "bad_response"
      [] 1 \in Present(r) \ Usable(r) -> "bad_response"
      [] Present(r) = {} -> "empty_data"
      [] OTHER -> "ok"

UnifiControllerUp(got) ==
    LET reason == SysinfoReason(got[1])
    IN  Collected({1}, reason = "ok",
            ApiTook("stat/sysinfo", got[1]) ++ UpWithReason("unifi_up", "unifi_up_reason", reason))

\* First field: meta.rc.  Second: the teleport version of the gateway.
TeleportReason(r) ==
    CASE r = Down -> "unreachable"
      [] r = Odd -> "bad_response"
      [] \E i \in Present(r) : First(r, i) = Bad -> "bad_response"
      [] Present(r) = {} -> "device_not_found"
      [] \A i \in Present(r) : Second(r, i) = Bad -> "not_initialized"
      [] OTHER -> "ok"

FindTeleportVersion(r) ==
    Second(r, CHOOSE i \in Present(r) :
                /\ Second(r, i) # Bad
                /\ \A j \in Present(r) : j < i => Second(r, j) = Bad)

UnifiVpnTeleport(got) ==
    LET reason == TeleportReason(got[1])
    IN  Collected({1}, reason = "ok",
            ApiTook("stat/device", got[1])
            ++ UpWithReason("unifi_teleport_up", "unifi_teleport_reason", reason)
            ++ (IF reason = "ok"
                THEN With("unifi_teleport_version", [version |-> FindTeleportVersion(got[1])], 1)
                ELSE NoSeries))

-----------------------------------------------------------------------------
(* From here on an answer of another shape is an empty list, and the run   *)
(* succeeds.                                                               *)

Listed(ep, r, out) == Collected({1}, Answered(r), ApiTook(ep, r) ++ When(Answered(r), out))

\* Alarms with an id, counted by type; first field: the id, second: the type.
UnifiAlarms(got) ==
    LET r == got[1]
        types == {Second(r, i) : i \in Usable(r)}
    IN  Listed("rest/alarm", r,
            One("unifi_threat_count", Cardinality(Usable(r)))
            ++ For("unifi_threat", types, LAMBDA t : [type |-> t],
                   LAMBDA t : Cardinality({i \in Usable(r) : Second(r, i) = t})))

\* First field: a named network with DHCP (1) or without (0).  Second: its pool.
UnifiNetworkconf(got) ==
    LET r == got[1]
        dhcp == {i \in Usable(r) : First(r, i) = 1}
        pooled == {i \in dhcp : Second(r, i) # Bad}
        size(i) == Second(r, i) + 1
    IN  Listed("rest/networkconf", r,
            For("unifi_dhcp_pool_size", pooled, ById, size)
            ++ For("unifi_dhcp_pool_start", pooled, ById, LAMBDA i : 0)
            ++ For("unifi_dhcp_pool_end", pooled, ById, LAMBDA i : Second(r, i))
            ++ For("unifi_dhcp_dns_primary", dhcp, LAMBDA i : [id |-> i, dns |-> 1], LAMBDA i : 1)
            ++ One("unifi_dhcp_enabled_network_count", Cardinality(dhcp)))

-----------------------------------------------------------------------------
(* WAN.  Item 1 is the subsystem www (first field: its status, second: the *)
(* last speed test, 0 for never), item 2 the subsystem wan (first field:   *)
(* uptime of the primary, second: uptime of a secondary).                  *)

EmitSpeedtestMetrics(r) ==
    When(Second(r, 1) # Bad, One("unifi_speedtest_lastrun", Second(r, 1)))
    ++ When(Second(r, 1) = 1,
            Constant({"unifi_speedtest_download_mbps", "unifi_speedtest_upload_mbps",
                      "unifi_speedtest_ping_seconds"}, 1))

EmitWwwMetrics(r) ==
    When(1 \in Present(r),
        Numbers({"unifi_wan_up", "unifi_wan_latency_seconds", "unifi_wan_drops",
                 "unifi_wan_xput_down_bytes_per_sec", "unifi_wan_xput_up_bytes_per_sec"}, r)
        ++ EmitSpeedtestMetrics(r))

EmitFailoverMetrics(r) ==
    LET primaryUp == 1 \in Usable(r) /\ First(r, 1) = 1
        secondary == Second(r, 2) = 1
    IN  When(2 \in Present(r),
            One("unifi_wan_failover_capable", Bit(Second(r, 2) # Bad))
            ++ One("unifi_wan_failover_active", Bit(~primaryUp /\ secondary))
            ++ When(2 \in Usable(r), One("unifi_wan_uptime_seconds", First(r, 2))))

UnifiWan(got) ==
    Listed("stat/health", got[1], EmitWwwMetrics(got[1]) ++ EmitFailoverMetrics(got[1]))

-----------------------------------------------------------------------------
(* Devices.  First field: the numbers of the device (state 1 is up);       *)
(* second: those of its port, radio or outlet.                             *)

EmitDeviceLevel(r) ==
    LET modelled(i) == [device |-> i, model |-> 1, kind |-> 1]
        byDevice(i) == [device |-> i]
        number(i) == First(r, i)
        numbers(f) == For(f, Usable(r), byDevice, number)
    IN  For("unifi_device_info", Present(r), LAMBDA i : modelled(i) ++ [mac |-> i], LAMBDA i : 1)
        ++ For("unifi_device_up", Usable(r), modelled, LAMBDA i : Bit(First(r, i) = 1))
        ++ For("unifi_device_state", Usable(r), modelled, number)
        ++ For("unifi_device_firmware_info", Present(r),
               LAMBDA i : byDevice(i) ++ [version |-> First(r, i)], LAMBDA i : 1)
        ++ numbers("unifi_device_update_available") ++ numbers("unifi_device_uptime_seconds")
        ++ numbers("unifi_device_cpu_percent") ++ numbers("unifi_device_mem_percent")
        ++ numbers("unifi_device_load1") ++ numbers("unifi_device_satisfaction")
        ++ For("unifi_device_temperature_celsius", Usable(r),
               LAMBDA i : byDevice(i) ++ [name |-> 1, type |-> 1], number)

\* The ports of a device: up is written for every port, numbers if usable.
EmitPortMetrics(r) ==
    LET port(i) == [device |-> i, port |-> 1]
        ported == {i \in Present(r) : Second(r, i) # Bad}
        numbers(f) == For(f, ported, port, LAMBDA i : Second(r, i))
    IN  For("unifi_port_up", Present(r), port, LAMBDA i : Bit(Second(r, i) = 1))
        ++ numbers("unifi_port_speed_bps") ++ numbers("unifi_port_poe_power_watts")
        ++ numbers("unifi_port_poe_current_ma") ++ numbers("unifi_port_poe_voltage")
        ++ numbers("unifi_port_poe_good") ++ numbers("unifi_port_rx_bytes")
        ++ numbers("unifi_port_tx_bytes") ++ numbers("unifi_port_rx_errors")
        ++ numbers("unifi_port_tx_errors") ++ numbers("unifi_port_rx_dropped")
        ++ numbers("unifi_port_tx_dropped") ++ numbers("unifi_port_mac_table_count")
        ++ numbers("unifi_port_link_down_count") ++ numbers("unifi_port_satisfaction")

EmitRadioMetrics(r) ==
    LET radio(i) == [device |-> i, radio |-> 1]
        tuned == {i \in Present(r) : Second(r, i) # Bad}
        numbers(f) == For(f, tuned, radio, LAMBDA i : Second(r, i))
    IN  numbers("unifi_radio_cu_total") ++ numbers("unifi_radio_cu_self_rx")
        ++ numbers("unifi_radio_cu_self_tx") ++ numbers("unifi_radio_num_sta")
        ++ numbers("unifi_radio_tx_power") ++ numbers("unifi_radio_tx_retries_pct")
        ++ numbers("unifi_radio_satisfaction") ++ numbers("unifi_radio_channel")
        ++ numbers("unifi_radio_bandwidth_mhz")

EmitOutletMetrics(r) ==
    For("unifi_outlet_relay_state", {i \in Present(r) : Second(r, i) # Bad},
        LAMBDA i : [device |-> i, outlet |-> 1, name |-> 1], LAMBDA i : Second(r, i))

UnifiDevice(got) ==
    Listed("stat/device", got[1],
        EmitDeviceLevel(got[1]) ++ EmitPortMetrics(got[1]) ++ EmitRadioMetrics(got[1])
        ++ EmitOutletMetrics(got[1]))

-----------------------------------------------------------------------------
(* Clients.  First field: signal and rates of a client, 0 for a poor one;  *)
(* second: wired (0) or wireless (1).                                      *)

Wireless(r) == {i \in Present(r) : Second(r, i) = 1}

EmitCapped(r) ==
    LET mac(i) == [mac |-> i]
        of(f, S) == EmitFamily(f, S, mac, LAMBDA i : First(r, i))
        radio == Usable(r) \cap Wireless(r)
    IN  of("unifi_client_signal_dbm", radio) ++ of("unifi_client_tx_rate_bps", radio)
        ++ of("unifi_client_rx_rate_bps", radio) ++ of("unifi_client_uptime", Usable(r))
        ++ of("unifi_client_tx_bytes", Usable(r)) ++ of("unifi_client_rx_bytes", Usable(r))
        ++ EmitFamily("unifi_client_info", Present(r), LAMBDA i : mac(i) ++ [name |-> i], LAMBDA i : 1)

\* Counted over all clients, not over those within the cap; wireless clients
\* are counted at their access point.
EmitRollups(r) ==
    LET poor == {i \in Usable(r) : First(r, i) = 0}
        count(f, S) == With(f, [threshold |-> 1], Cardinality(S))
    IN  count("unifi_clients_poor_signal", poor \cap Wireless(r))
        ++ count("unifi_clients_poor_satisfaction", poor)
        ++ count("unifi_clients_high_retries", poor \cap Wireless(r))
        ++ When(Wireless(r) # {},
                With("unifi_ap_client_count", [ap_mac |-> 1], Cardinality(Wireless(r))))

UnifiClientStats(got) ==
    Listed("stat/sta", got[1], EmitCapped(got[1]) ++ EmitRollups(got[1]))

\* Traffic by application: the cap keeps the largest values, not the first labels.
Largest(r) ==
    {i \in Usable(r) :
        Cardinality({j \in Usable(r) : \/ First(r, j) > First(r, i)
                                       \/ First(r, j) = First(r, i) /\ j < i}) < Cap}

UnifiClientDpi(got) ==
    LET r == got[1]
        app(i) == [client |-> i, app |-> 1, cat |-> 1]
    IN  Listed("v2/traffic", r,
            One("unifi_dpi_enabled", 1)
            ++ One("unifi_dpi_client_records", Cardinality(Usable(r)))
            ++ For("unifi_client_dpi_bytes", Largest(r), app, LAMBDA i : First(r, i))
            ++ With("metric_family_dropped_series", [family |-> "unifi_client_dpi_bytes"],
                    Cardinality(Usable(r)) - Cardinality(Largest(r))))
=============================================================================
