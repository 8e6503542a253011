------------------------------ MODULE LogDrain ------------------------------
(***************************************************************************)
(* The log drain: every cycle reads the log lines after a watermark from   *)
(* VictoriaLogs, feeds them to the template models, saves the models and   *)
(* moves the watermark (logs/drain_consumer.py, drain_engine.py,           *)
(* drain_persistence.py, signature_sync.py).                               *)
(*                                                                         *)
(* Lines carry finer timestamps than the watermark, which is in            *)
(* milliseconds: Res instants make one millisecond.                        *)
(***************************************************************************)
EXTENDS Integers, FiniteSets

CONSTANTS
    Line,
    Res,          \* instants per millisecond
    Grace,        \* ingest_lag_grace_seconds; a line is stored within it
    Cap,          \* batch_max_lines
    MaxBurst,     \* bound on the lines of one millisecond
    MaxTime,      \* bound on the clock
    MaxFaults,    \* bound on failing queries, failing syncs and crashes
    None

ASSUME DrainAssumption ==
    /\ Res \in Nat \ {0} /\ Cap \in Nat /\ MaxBurst \in Nat /\ MaxFaults \in Nat
    /\ MaxTime \in Nat /\ Grace \in 0..MaxTime
    /\ None \notin Int

VARIABLES
    ms,           \* the clock
    stamp,        \* stored lines and their instants
    watermark,    \* app_settings: drain.cycle_watermark_ms
    seed,         \* the first watermark
    cycle,        \* the cycle that holds _cycle_lock
    learned,      \* lines fed to the models in memory
    saved,        \* lines in the models of drain_models
    catalogued,   \* lines counted in log_signatures
    mishaps

vars == <<ms, stamp, watermark, seed, cycle, learned, saved, catalogued, mishaps>>

NoCycle == [pc |-> "idle", end |-> 0, todo |-> {}, fed |-> {}, max |-> 0, ok |-> TRUE]

Init ==
    /\ ms = Grace
    /\ stamp = [l \in Line |-> None]
    /\ watermark = None /\ seed = None
    /\ cycle = NoCycle
    /\ learned = {} /\ saved = {} /\ catalogued = {}
    /\ mishaps = 0

\* _parse_iso_ms
Ms(i) == i \div Res
Stored == {l \in Line : stamp[l] # None}

----------------------------------------------------------------------------
(* VictoriaLogs *)

Tick ==
    /\ ms < MaxTime
    /\ ms' = ms + 1
    /\ UNCHANGED <<stamp, watermark, seed, cycle, learned, saved, catalogued, mishaps>>

Ingest(l, lag, frac) ==
    LET i == (ms - lag) * Res + frac IN
    /\ stamp[l] = None /\ ms + Grace < MaxTime
    /\ Cardinality({k \in Stored : Ms(stamp[k]) = Ms(i)}) < MaxBurst
    /\ stamp' = [stamp EXCEPT ![l] = i]
    /\ UNCHANGED <<ms, watermark, seed, cycle, learned, saved, catalogued, mishaps>>

\* Lines of (watermark ms + 1 ns, end], both ends included.
Window(from, end) == {l \in Stored : from * Res < stamp[l] /\ stamp[l] <= end * Res}

\* "* | sort by (_time)" with a limit: the oldest Cap, ties in any order.
Batches(w) ==
    {b \in SUBSET w : /\ Cardinality(b) <= Cap /\ (b = w \/ Cardinality(b) = Cap)
                      /\ \A l \in b, k \in w \ b : stamp[l] <= stamp[k]}

----------------------------------------------------------------------------
(* DrainConsumer.run_once *)

\* _read_or_seed_watermark.  Without a watermark no model was ever saved, so
\* get_max_cursor has nothing to offer.
Resumed == IF watermark = None THEN ms - Grace ELSE watermark

\* The watermark is written first.  No cycle while one runs, and none when the
\* watermark covers everything.
Begin ==
    /\ cycle.pc = "idle"
    /\ watermark' = Resumed
    /\ seed' = IF seed = None THEN Resumed ELSE seed
    /\ cycle' = IF ms - Grace <= Resumed THEN NoCycle
                ELSE [NoCycle EXCEPT !.pc = "query", !.end = ms - Grace, !.max = Resumed]
    /\ UNCHANGED <<ms, stamp, learned, saved, catalogued, mishaps>>

\* The lines that VictoriaLogs sends are well formed.
Query ==
    /\ cycle.pc = "query"
    /\ \E b \in Batches(Window(watermark, cycle.end)) :
          cycle' = [cycle EXCEPT !.pc = "feed", !.todo = b]
    /\ UNCHANGED <<ms, stamp, watermark, seed, learned, saved, catalogued, mishaps>>

\* add_line, and the newest millisecond seen.
Feed(l) ==
    /\ cycle.pc = "feed" /\ l \in cycle.todo
    /\ \A k \in cycle.todo : stamp[l] <= stamp[k]
    /\ learned' = learned \cup {l}
    /\ cycle' = [cycle EXCEPT !.todo = @ \ {l}, !.fed = @ \cup {l},
                              !.max = IF Ms(stamp[l]) > @ THEN Ms(stamp[l]) ELSE @]
    /\ UNCHANGED <<ms, stamp, watermark, seed, saved, catalogued, mishaps>>

\* Mutant: nothing is saved after an error.
StreamFailsUnsaved ==
    /\ cycle.pc \in {"query", "feed"} /\ mishaps < MaxFaults
    /\ mishaps' = mishaps + 1
    /\ cycle' = [cycle EXCEPT !.pc = "sync", !.ok = FALSE]
    /\ UNCHANGED <<ms, stamp, watermark, seed, learned, saved, catalogued>>

\* VictoriaLogsClientError before or between lines.
StreamFails ==
    /\ cycle.pc \in {"query", "feed"} /\ mishaps < MaxFaults
    /\ mishaps' = mishaps + 1
    /\ cycle' = [cycle EXCEPT !.pc = "snapshot", !.ok = FALSE]
    /\ UNCHANGED <<ms, stamp, watermark, seed, learned, saved, catalogued>>

StreamEnds ==
    /\ cycle.pc = "feed" /\ cycle.todo = {}
    /\ cycle' = [cycle EXCEPT !.pc = "snapshot"]
    /\ UNCHANGED <<ms, stamp, watermark, seed, learned, saved, catalogued, mishaps>>

\* snapshot: one transaction per model.
PersistModel(some) ==
    /\ cycle.pc = "snapshot" /\ some # {}
    /\ saved' = saved \cup some
    /\ UNCHANGED <<ms, stamp, watermark, seed, cycle, learned, catalogued, mishaps>>

SnapshotDone ==
    /\ cycle.pc = "snapshot" /\ learned \subseteq saved
    /\ cycle' = [cycle EXCEPT !.pc = IF cycle.ok THEN "advance" ELSE "sync"]
    /\ UNCHANGED <<ms, stamp, watermark, seed, learned, saved, catalogued, mishaps>>

\* Mutant: the window counts as done.
NextWatermarkEnd == cycle.end

\* A full batch may have left lines behind.
NextWatermark == IF Cardinality(cycle.fed) = Cap THEN cycle.max ELSE cycle.end

Advance ==
    /\ cycle.pc = "advance"
    /\ watermark' = NextWatermark
    /\ cycle' = [cycle EXCEPT !.pc = "sync"]
    /\ UNCHANGED <<ms, stamp, seed, learned, saved, catalogued, mishaps>>

\* sync_cycle in one transaction; an error is logged and forgotten.
SyncSignatures ==
    /\ cycle.pc = "sync"
    /\ \/ catalogued' = catalogued \cup cycle.fed /\ UNCHANGED mishaps
       \/ mishaps < MaxFaults /\ mishaps' = mishaps + 1 /\ UNCHANGED catalogued
    /\ cycle' = NoCycle
    /\ UNCHANGED <<ms, stamp, watermark, seed, learned, saved>>

----------------------------------------------------------------------------

\* A crash or a cancellation saves nothing, and the models are loaded again as
\* they were saved; after an error of the database they stay as they are.
Crash ==
    /\ mishaps < MaxFaults /\ mishaps' = mishaps + 1
    /\ learned' \in {saved, learned}
    /\ cycle' = NoCycle
    /\ UNCHANGED <<ms, stamp, watermark, seed, saved, catalogued>>

DrainStep ==
    \/ Query \/ StreamEnds \/ SnapshotDone \/ Advance \/ SyncSignatures
    \/ (\E l \in Line : Feed(l)) \/ \E some \in SUBSET (learned \ saved) : PersistModel(some)

Next ==
    \/ Tick \/ \E l \in Line, lag \in 0..(Grace - 1), frac \in 0..(Res - 1) : Ingest(l, lag, frac)
    \/ Begin \/ DrainStep \/ StreamFails \/ Crash

\* run_forever starts a cycle again and again and goes on with it.
Fairness == WF_vars(Tick) /\ WF_vars(Begin) /\ WF_vars(DrainStep)

Spec == Init /\ [][Next]_vars /\ Fairness

----------------------------------------------------------------------------

TypeOK ==
    /\ ms \in 0..MaxTime
    /\ watermark \in Int \cup {None} /\ seed \in Int \cup {None}
    /\ learned \subseteq Stored /\ saved \subseteq Stored /\ catalogued \subseteq Stored
    /\ cycle.todo \subseteq Line /\ cycle.fed \subseteq Line

\* The drain as a consumer of the log: saved models are what counts, and the
\* watermark, in instants, is the position.
Log == INSTANCE AtLeastOnce WITH
    Item <- Line, at <- stamp, done <- saved,
    position <- IF watermark = None THEN None ELSE watermark * Res

\* The drain is an at-least-once consumer, across full batches, failing queries
\* and crashes at any point: lines arrive ahead of the watermark, the watermark
\* passes a line only when the line is in a saved model, and every line is
\* learned in the end.
DrainIsAtLeastOnce == Log!Spec

Passed(l) == l \in Stored /\ seed # None /\ seed * Res < stamp[l] /\ stamp[l] <= watermark * Res

\* "it can never skip a real line (no data loss)", short of a millisecond with
\* more than batch_max_lines lines.
NoDataLoss == \A l \in Line : Passed(l) => l \in saved

\* The catalogue lists only what the saved models know, so that a restart does
\* not call an old signature new.
CatalogueIsBacked == catalogued \subseteq saved
=============================================================================
