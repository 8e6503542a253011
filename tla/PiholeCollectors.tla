-------------------------- MODULE PiholeCollectors --------------------------
(***************************************************************************)
(* The collectors of the Pi-hole integration, but for the query feed       *)
(* (QueryFeed).                                                            *)
(***************************************************************************)
EXTENDS Metrics

\* The time a call took is written whenever it was answered; the value of a
\* time is left out.
Took(ep, r) == When(Answered(r), With("pihole_api_took_seconds", [endpoint |-> ep], 1))

\* First field: "blocking" is "enabled".  Second: the timer.
PiholeBlocking(got) ==
    LET r == got[1]
    IN  Collected({1}, IsOk(r),
            Took("dns/blocking", r)
            ++ When(IsOk(r), One("pihole_blocking_enabled", Flag(r)))
            ++ When(1 \in Present(r) /\ Second(r, 1) # Bad,
                    One("pihole_blocking_timer_seconds", Second(r, 1))))

\* A payload of another shape counts as "not enabled".
PiholeConfig(got) ==
    Collected({1}, Answered(got[1]),
        Took("config", got[1])
        ++ When(Answered(got[1]), One("pihole_query_logging_enabled", Flag(got[1]))))

-----------------------------------------------------------------------------
(* DNS probes.  No answer in time is a payload without an item.            *)

ParseResponse(r) ==
    CASE 1 \notin Present(r) -> "timeout"
      [] 1 \in Usable(r) /\ First(r, 1) = 1 -> "ok"
      [] 1 \in Usable(r) /\ First(r, 1) = 0 -> "no_answer"
      [] OTHER -> "malformed"

ResolveA(r) ==
    CASE r = Down -> "socket_error"
      [] r = Odd -> "servfail"
      [] OTHER -> ParseResponse(r)

ResponseOutcomes == {"ok", "no_answer", "servfail"}

ProbeSeries(up, result, seconds, labels, outcome) ==
    With(up, labels, Bit(outcome = "ok"))
    ++ With(result, labels ++ [outcome |-> outcome], 1)
    ++ When(outcome \in ResponseOutcomes, With(seconds, labels, 1))

PiholeDnsHealth(got) ==
    Collected({1}, ResolveA(got[1]) = "ok",
        ProbeSeries("pihole_up", "pihole_dns_probe_result", "pihole_dns_probe_seconds",
                    NoLabels, ResolveA(got[1])))

\* Two probes one after the other; both are written after the second.
PiholeDnsSplit(got) ==
    LET emit(path, r) ==
            ProbeSeries("dns_resolution_up", "dns_resolution_probe_result",
                        "dns_resolution_seconds", [path |-> path], ResolveA(r))
        done == Done(1..2, got)
    IN  Collected(1..2, done /\ \A k \in 1..2 : ResolveA(got[k]) = "ok",
            When(done, emit("pihole", got[1]) ++ emit("direct", got[2])))

-----------------------------------------------------------------------------
(* FTL and gravity: two calls, one of which must succeed.                  *)

EmitFtl(r) ==
    Numbers({"pihole_ftl_uptime_seconds", "pihole_ftl_cpu_percent", "pihole_ftl_memory_percent",
             "pihole_privacy_level"}, r)
    ++ (IF 1 \in Present(r) /\ Second(r, 1) # Bad
        THEN Numbers({"pihole_dnsmasq_cache_insertions", "pihole_dnsmasq_cache_evictions"}, r)
        ELSE NoSeries)

EmitDatabase(r) == Numbers({"pihole_db_size_bytes", "pihole_db_queries_total"}, r)

PiholeFtlHealth(got) ==
    Collected(1..2, IsOk(got[1]) \/ IsOk(got[2]),
        Took("info/ftl", got[1]) ++ EmitFtl(got[1])
        ++ Took("info/database", got[2]) ++ EmitDatabase(got[2]))

\* Entries without a usable type are counted as "unknown".
CountByType(r) ==
    LET TypeOf(i) == IF i \in Usable(r) THEN "known" ELSE "unknown"
        types == {TypeOf(i) : i \in Present(r)}
    IN  For("pihole_messages", types, LAMBDA t : [type |-> t],
            LAMBDA t : Cardinality({i \in Present(r) : TypeOf(i) = t}))

PiholeFtlMessages(got) ==
    LET r == got[1]
    IN  Collected({1}, IsOk(r),
            Took("info/messages", r)
            ++ When(IsOk(r), One("pihole_messages_count", Cardinality(Present(r))))
            ++ CountByType(r))

EmitAdlist(r) ==
    EachOf({"pihole_adlist_domains", "pihole_adlist_enabled"}, r)
    ++ For("pihole_adlist_status", Usable(r),
           LAMBDA i : [id |-> i, status |-> First(r, i)], LAMBDA i : 1)

EmitGravityAge(r) ==
    When(\E i \in Present(r) : Second(r, i) # Bad, One("pihole_gravity_last_update_age_seconds", 1))

\* An answer of another shape still counts as success.
PiholeGravity(got) ==
    Collected(1..2, Answered(got[1]) \/ Answered(got[2]),
        Took("info/ftl", got[1]) ++ Numbers({"pihole_gravity_domains"}, got[1])
        ++ Took("lists", got[2]) ++ EmitAdlist(got[2]) ++ EmitGravityAge(got[2]))

-----------------------------------------------------------------------------

\* First field: the local version.  Second: the remote one.
PiholeVersion(got) ==
    LET r == got[1]
        both == {i \in Usable(r) : Second(r, i) # Bad}
    IN  Collected({1}, IsOk(r),
            Took("info/version", r)
            ++ For("pihole_version_info", Usable(r),
                   LAMBDA i : [id |-> i, version |-> First(r, i)], LAMBDA i : 1)
            ++ For("pihole_update_available", both, ById,
                   LAMBDA i : Bit(First(r, i) # Second(r, i))))

PiholeUpstreams(got) ==
    Polled(got[1], Took("stats/upstreams", got[1]) ++ Each("pihole_upstream_queries", got[1]))

\* Item 1: the block of totals with its breakdowns.  Item 2: the block of clients.
EmitTotals(r) ==
    Numbers({"pihole_queries_total", "pihole_blocked_total", "pihole_forwarded_total",
             "pihole_cached_total", "pihole_percent_blocked", "pihole_query_frequency",
             "pihole_unique_domains"}, r)
    ++ When(1 \in Usable(r),
            With("pihole_query_by_type", [type |-> 1], First(r, 1))
            ++ With("pihole_query_by_status", [status |-> 1], First(r, 1))
            ++ With("pihole_query_by_reply", [reply |-> 1], First(r, 1)))

PiholeStatsSummary(got) ==
    LET r == got[1]
    IN  Polled(r, Took("stats/summary", r) ++ EmitTotals(r)
            ++ When(2 \in Usable(r), Constant({"pihole_active_clients", "pihole_total_clients"},
                                              First(r, 2))))

-----------------------------------------------------------------------------
(* Unbound.  The time is written before the result is looked at.           *)

\* Item 1: the counters (Bad: no parseable line).  Item 2: the extended ones.
ParseUnboundStats(r) ==
    IF ~IsOk(r) \/ Usable(r) = {} THEN Down ELSE r

UnboundDefaults(r) ==
    Numbers({"unbound_queries_total", "unbound_cache_hits_total", "unbound_cache_misses_total",
             "unbound_prefetch_total", "unbound_requestlist_current",
             "unbound_requestlist_exceeded_total"}, r)
    ++ When(1 \in Usable(r), With("unbound_recursion_time_seconds", [quantile |-> "avg"], First(r, 1))
                             ++ With("unbound_recursion_time_seconds", [quantile |-> "median"],
                                     First(r, 1)))
    \* hits / (hits + misses); not written when both are 0
    ++ When(1 \in Usable(r) /\ First(r, 1) > 0, One("unbound_cache_hit_ratio", 1))

\* Quantiles are left out when the histogram is empty.
UnboundExtended(r) ==
    When(2 \in Usable(r),
        When(First(r, 2) > 0, With("unbound_recursion_time_seconds", [quantile |-> "0.5"], 1))
        ++ With("unbound_query_type", [type |-> 1], First(r, 2))
        ++ With("unbound_answer_rcode", [rcode |-> 1], First(r, 2))
        ++ Constant({"unbound_answer_secure_total", "unbound_answer_bogus_total"}, First(r, 2)))

UnboundStats(got) ==
    LET r == ParseUnboundStats(got[1])
    IN  Collected({1}, IsOk(r),
            With("pihole_api_took_seconds", [endpoint |-> "unbound/stats_noreset"], 1)
            ++ When(IsOk(r), One("pihole_unbound_extended_stats_enabled", Bit(2 \in Usable(r))))
            ++ UnboundDefaults(r) ++ UnboundExtended(r))

-----------------------------------------------------------------------------
(* Top clients: clients, devices, blocked clients, the names the UniFi     *)
(* integration knows (a table), domains, blocked domains.                  *)

\* Item 1 is the loopback client, which the cap never drops.
ClassifyClients(S) == (S \cap {1}) \cup Survivors(S \ {1})

ValueOr0(r, i) == IF i \in Usable(r) THEN First(r, i) ELSE 0

\* Written once the table was read; a table that cannot be read is empty.
ClientSeries(got) ==
    LET clients == Present(got[1])
        labels(i) == [client |-> i, mac |-> Bit(i \in Present(got[2])),
                      unifi_name |-> Bit(i \in Present(got[4]))]
        dropped == Cardinality(clients) - Cardinality(ClassifyClients(clients))
        drop(f) == With("metric_family_dropped_series", [family |-> f], dropped)
    IN  When(Answered(got[1]) /\ got[4] # Unasked,
            For("pihole_client_queries", ClassifyClients(clients), labels,
                LAMBDA i : ValueOr0(got[1], i))
            ++ For("pihole_client_blocked", ClassifyClients(clients), labels,
                   LAMBDA i : ValueOr0(got[3], i))
            ++ drop("pihole_client_queries") ++ drop("pihole_client_blocked"))

EmitDomains(f, r) ==
    When(IsOk(r), EmitFamily(f, Present(r), ById, LAMBDA i : ValueOr0(r, i)))

\* The table is read only for clients.  Devices and table do not count for
\* success.
PiholeClients(got) ==
    Collected(IF got[1] = Down THEN 1..6 \ {4} ELSE 1..6,
        \E k \in {1, 3, 5, 6} : Answered(got[k]),
        Took("stats/top_clients", got[1]) ++ Took("network/devices", got[2])
        ++ Took("stats/top_clients?blocked", got[3]) ++ ClientSeries(got)
        ++ Took("stats/top_domains", got[5]) ++ EmitDomains("pihole_top_permitted_domain", got[5])
        ++ Took("stats/top_domains?blocked", got[6])
        ++ EmitDomains("pihole_top_blocked_domain", got[6]))
=============================================================================
