---------------------------- MODULE HaCollectors ----------------------------
(***************************************************************************)
(* The collectors of the Home Assistant integration: one call each, the    *)
(* states of the entities over HTTP or a list over the websocket.          *)
(***************************************************************************)
EXTENDS Metrics

\* The reachability of Home Assistant: the run succeeds either way.
HaUp(got) == Collected({1}, TRUE, One("ha_up", Bit(IsOk(got[1]))))

\* Entities whose state is a number.
HaBattery(got) == Polled(got[1], EmitUsable("ha_battery_level", got[1]))

HaSensorValue(got) == Polled(got[1], EmitUsable("ha_sensor_value", got[1]))

\* Entities that are on (1) or off (0); any other state is left out.
HaSafetySensors(got) == Polled(got[1], EmitUsable("ha_binary_sensor_on", got[1]))

HaUpdate(got) == Polled(got[1], EmitUsable("ha_update_available", got[1]))

\* The number of entities with an unreadable time, written only when there is one.
ParseErrors(f, S) == When(S # {}, One(f, Cardinality(S)))

\* First field: the state, Bad when unavailable.  Second: last_changed.
HaEntityAvailable(got) ==
    LET r == got[1]
        dated == {i \in Present(r) : Second(r, i) # Bad}
    IN  Polled(r,
            EmitFamily("ha_entity_available", Present(r), ById,
                       LAMBDA i : Bit(First(r, i) # Bad))
            ++ EmitFamily("ha_entity_last_changed_seconds", dated, ById,
                          LAMBDA i : Second(r, i))
            ++ ParseErrors("ha_entity_last_changed_parse_errors", Present(r) \ dated))

\* First field: on, off or neither.  Second: last_triggered, 0 when never
\* triggered.  Item 1 is an automation, item 2 a script.
HaCadence(got) ==
    LET r == got[1]
        automations == Present(r) \cap {1}
        scripts == Present(r) \ {1}
        triggered == {i \in Present(r) : Second(r, i) = 1}
        on == {i \in Present(r) : First(r, i) = 1}
        age(i) == Second(r, i)
    IN  Polled(r,
            EmitFamily("ha_automation_last_triggered_seconds",
                       automations \cap triggered \cap on, ById, age)
            ++ EmitFamily("ha_script_last_triggered_seconds",
                          scripts \cap triggered, ById, age)
            ++ EmitFamily("ha_automation_enabled", automations \cap Usable(r), ById,
                          LAMBDA i : First(r, i))
            ++ ParseErrors("ha_cadence_last_triggered_parse_errors",
                           {i \in Present(r) : Second(r, i) = Bad}))

\* The two gauges of an integration: loaded (1), in error (0), another state.
StateGauges(r, i) == <<Bit(First(r, i) = 1), Bit(First(r, i) = 0)>>

Stated(r, i) == [id |-> i, state |-> First(r, i)]

\* The error gauge carries the state as a label, so another state is another
\* series.  A list of the wrong shape is an empty list.
HaConfigEntry(got) ==
    LET r == got[1]
        stated(i) == Stated(r, i)
    IN  Collected({1}, Answered(r), When(Answered(r),
            EmitFamily("ha_config_entry_loaded", Present(r), ById,
                       LAMBDA i : StateGauges(r, i)[1])
            ++ EmitFamily("ha_config_entry_setup_error", Present(r), stated,
                          LAMBDA i : StateGauges(r, i)[2])))

\* Only what is there is written, with 1; nothing is written for what is gone.
ListedAsOne(f, S, r) ==
    Collected({1}, Answered(r), When(Answered(r), EmitFamily(f, S, ById, LAMBDA i : 1)))

\* Issues that are active, not ignored and have a domain and an id.
HaRepairs(got) == ListedAsOne("ha_repair_issue", Usable(got[1]), got[1])

HaPersistentNotification(got) ==
    ListedAsOne("ha_persistent_notification", Usable(got[1]), got[1])
=============================================================================
