--------------------------- MODULE LogDrainProofs ---------------------------
(***************************************************************************)
(* Proofs about the parts of the logs run: the drain (LogDrain), for any   *)
(* lines, resolution, batch size, grace period and number of faults; the   *)
(* webhook and the reconciler (AlertLifecycleProofs); the jobs that start  *)
(* on schedule (Heartbeats), for any cadence and grace period; and the     *)
(* operator's rules (LogRules), for any names, expressions and requests.   *)
(*                                                                         *)
(* The window of a cycle is settled when the cycle begins: lines arrive    *)
(* after its end (OpenEnd), so that the batch it queried stays the oldest  *)
(* lines of it (BatchOK).  When the watermark moves, that batch is in the  *)
(* saved models, and a line it left behind is at or after the new          *)
(* watermark, at it only as a twin of a line of the batch.                 *)
(***************************************************************************)
EXTENDS MCLogs, TLAPS

PCs == {"idle", "query", "feed", "snapshot", "advance", "sync"}

CycleRow == [pc : PCs, end : Int, todo : SUBSET Line, fed : SUBSET Line, max : Int, ok : BOOLEAN]

Types ==
    /\ ms \in Int
    /\ stamp \in [Line -> Int \cup {None}]
    /\ watermark \in Int \cup {None} /\ seed \in Int \cup {None}
    /\ cycle \in CycleRow
    /\ learned \subseteq Stored /\ saved \subseteq learned /\ catalogued \subseteq saved
    /\ cycle.todo \subseteq Stored /\ cycle.fed \subseteq learned

\* Lines that arrive from now on are beyond the watermark and a running cycle.
OpenEnd ==
    /\ watermark # None => watermark <= ms - Grace
    /\ cycle.pc # "idle" => watermark \in Int /\ cycle.end <= ms - Grace

\* The batch of the cycle holds the oldest lines of its window.
Oldest == cycle.todo \cup cycle.fed \in Batches(Window(watermark, cycle.end))

\* The newest millisecond fed so far.
Newest ==
    /\ watermark <= cycle.max /\ cycle.max <= cycle.end
    /\ cycle.max = watermark \/ \E l \in cycle.fed : Ms(stamp[l]) = cycle.max

BatchOK ==
    /\ cycle.pc \in {"query", "feed", "advance"} => cycle.ok
    /\ cycle.pc \in {"query", "feed", "snapshot", "advance"} /\ cycle.ok => Newest
    /\ cycle.pc = "query" => cycle.fed = {}
    /\ cycle.pc \in {"feed", "snapshot", "advance"} /\ cycle.ok => Oldest
    /\ cycle.pc \in {"snapshot", "advance"} /\ cycle.ok => cycle.todo = {}
    /\ cycle.pc \in {"advance", "sync"} => cycle.fed \subseteq saved

DrainInv == Types /\ OpenEnd /\ BatchOK

----------------------------------------------------------------------------
(* Instants and milliseconds. *)

LEMMA Scaling ==
  ASSUME NEW a \in Int, NEW b \in Int
  PROVE  /\ a * Res \in Int
         /\ a <= b => a * Res <= b * Res
         /\ a < b => a * Res + Res <= b * Res
<1>1. Res \in Nat /\ Res > 0
  BY DrainAssumption
<1>2. a <= b => a * Res <= b * Res
  BY <1>1
<1>3. (a + 1) * Res = a * Res + Res
  BY <1>1
<1>4. a + 1 <= b => (a + 1) * Res <= b * Res
  BY <1>1
<1> QED
  BY <1>1, <1>2, <1>3, <1>4

LEMMA Floor ==
  ASSUME NEW i \in Int
  PROVE  Ms(i) \in Int /\ Ms(i) * Res <= i /\ i < Ms(i) * Res + Res
<1>1. Res \in Nat /\ Res > 0
  BY DrainAssumption
<1> QED
  BY <1>1 DEF Ms

\* A millisecond that is not before the one of i is not before i's.
LEMMA FloorBound ==
  ASSUME NEW i \in Int, NEW e \in Int, i <= e * Res
  PROVE  Ms(i) <= e
<1>1. Ms(i) \in Int /\ Ms(i) * Res <= i
  BY Floor
<1>2. e < Ms(i) => e * Res + Res <= Ms(i) * Res
  BY <1>1, Scaling
<1>3. Res > 0 /\ Res \in Int /\ e * Res \in Int /\ Ms(i) * Res \in Int
  BY <1>1, Scaling, DrainAssumption
<1> QED
  BY <1>1, <1>2, <1>3

----------------------------------------------------------------------------
(* The window of a cycle. *)

\* Lines that arrive after the end of the window leave the batch what it was.
LEMMA OldestStays ==
  ASSUME Types, Oldest, watermark \in Int, watermark' = watermark, cycle'.end = cycle.end,
         cycle'.todo \cup cycle'.fed = cycle.todo \cup cycle.fed,
         \A l \in Stored : stamp'[l] = stamp[l],
         \A l \in Line \ Stored : stamp'[l] = None \/ (stamp'[l] \in Int /\ cycle.end * Res < stamp'[l])
  PROVE  Oldest'
<1>1. Stored \subseteq Stored' /\ \A l \in Stored : stamp[l] \in Int
  BY DEF Types, Stored
<1>2. cycle.end * Res \in Int /\ watermark * Res \in Int
  BY Scaling DEF Types, CycleRow
<1>3. Window(watermark, cycle.end)' = Window(watermark, cycle.end)
  BY <1>1, <1>2 DEF Window, Stored
<1>4. \A l \in Window(watermark, cycle.end) : stamp'[l] = stamp[l]
  BY DEF Window
<1> QED
  BY <1>3, <1>4 DEF Oldest, Batches

LEMMA NewestStays ==
  ASSUME Types, Newest, watermark' = watermark, cycle'.end = cycle.end, cycle'.max = cycle.max,
         cycle'.fed = cycle.fed, \A l \in Stored : stamp'[l] = stamp[l]
  PROVE  Newest'
<1>1. cycle.fed \subseteq Stored
  BY DEF Types
<1> QED
  BY <1>1 DEF Newest, Ms

LEMMA TickKeeps ==
  ASSUME DrainInv, Tick
  PROVE  DrainInv'
<1>1. ms' = ms + 1 /\ ms \in Int /\ Grace \in Int /\ cycle.end \in Int
  BY DrainAssumption DEF Tick, DrainInv, Types, CycleRow
<1>2. Types'
  BY <1>1 DEF Tick, DrainInv, Types, Stored
<1>3. OpenEnd'
  BY <1>1 DEF Tick, DrainInv, Types, OpenEnd
<1>4. BatchOK'
  BY DEF Tick, DrainInv, BatchOK, Newest, Oldest, Window, Batches, Stored
<1> QED
  BY <1>2, <1>3, <1>4 DEF DrainInv

\* A line is stored with an instant after the end of every cycle so far.
LEMMA IngestIsAhead ==
  ASSUME DrainInv, NEW l \in Line, NEW lag \in 0..(Grace - 1), NEW frac \in 0..(Res - 1), Ingest(l, lag, frac)
  PROVE  /\ stamp[l] = None /\ stamp' = [stamp EXCEPT ![l] = stamp'[l]] /\ stamp'[l] \in Int
         /\ \A e \in Int : e <= ms - Grace => e * Res < stamp'[l]
<1>1. ms \in Int /\ ms - lag \in Int /\ lag \in Int /\ frac \in Nat /\ Grace \in Nat /\ Res \in Nat
  BY DrainAssumption DEF DrainInv, Types
<1>2. (ms - lag) * Res + frac \in Int /\ (ms - lag) * Res \in Int
  BY <1>1, Scaling
<1>3. stamp'[l] = (ms - lag) * Res + frac /\ stamp' = [stamp EXCEPT ![l] = stamp'[l]] /\ stamp[l] = None
  BY DEF Ingest, DrainInv, Types
<1>4. ASSUME NEW e \in Int, e <= ms - Grace PROVE e * Res < stamp'[l]
  <2>1. e < ms - lag
    BY <1>1, <1>4
  <2>2. e * Res + Res <= (ms - lag) * Res /\ e * Res \in Int
    BY <1>1, <2>1, Scaling
  <2> QED
    BY <1>1, <1>2, <1>3, <2>2, DrainAssumption
<1> QED
  BY <1>2, <1>3, <1>4

LEMMA IngestKeeps ==
  ASSUME DrainInv, NEW l \in Line, NEW lag \in 0..(Grace - 1), NEW frac \in 0..(Res - 1), Ingest(l, lag, frac)
  PROVE  DrainInv'
<1>1. /\ UNCHANGED <<ms, watermark, seed, cycle, learned, saved, catalogued>>
      /\ stamp[l] = None /\ stamp' = [stamp EXCEPT ![l] = stamp'[l]] /\ stamp'[l] \in Int
      /\ \A e \in Int : e <= ms - Grace => e * Res < stamp'[l]
  BY IngestIsAhead DEF Ingest
<1>2. stamp' \in [Line -> Int \cup {None}] /\ \A k \in Stored : stamp'[k] = stamp[k]
  BY <1>1 DEF DrainInv, Types, Stored
<1>3. Stored \subseteq Stored'
  BY <1>2, DrainAssumption DEF DrainInv, Types, Stored
<1>4. Types'
  BY <1>1, <1>2, <1>3 DEF DrainInv, Types
<1>5. OpenEnd'
  BY <1>1 DEF DrainInv, OpenEnd
<1>6. cycle.end \in Int
  BY DEF DrainInv, Types, CycleRow
<1>7. ASSUME cycle.pc # "idle" 
      PROVE  (Oldest => Oldest') /\ (Newest => Newest')
  <2>1. watermark \in Int /\ cycle.end <= ms - Grace
    BY <1>7 DEF DrainInv, OpenEnd
  <2>2. \A k \in Line \ Stored : stamp'[k] = None \/ (stamp'[k] \in Int /\ cycle.end * Res < stamp'[k])
    BY <1>1, <1>6, <2>1 DEF DrainInv, Types, Stored
  <2> QED
    BY <1>1, <1>2, <2>1, <2>2, OldestStays, NewestStays DEF DrainInv
<1>8. BatchOK'
  BY <1>1, <1>7 DEF DrainInv, BatchOK
<1> QED
  BY <1>4, <1>5, <1>8 DEF DrainInv

----------------------------------------------------------------------------
(* The steps of a cycle. *)

LEMMA NoCycleType == NoCycle \in CycleRow /\ NoCycle.pc = "idle" /\ NoCycle.todo = {} /\ NoCycle.fed = {}
  BY DEF NoCycle, CycleRow, PCs

\* A cycle that is over says nothing.
LEMMA CycleEnds ==
  ASSUME DrainInv, cycle' = NoCycle, UNCHANGED <<ms, stamp>>,
         watermark' \in Int \cup {None}, watermark' # None => watermark' <= ms - Grace,
         seed' \in Int \cup {None},
         learned' \subseteq learned, saved' \subseteq learned', catalogued' \subseteq saved'
  PROVE  DrainInv'
<1>1. Types'
  BY NoCycleType DEF DrainInv, Types, Stored
<1>2. OpenEnd' /\ BatchOK'
  BY NoCycleType DEF OpenEnd, BatchOK
<1> QED
  BY <1>1, <1>2 DEF DrainInv

LEMMA BeginKeeps ==
  ASSUME DrainInv, Begin
  PROVE  DrainInv'
<1>1. /\ ms - Grace \in Int /\ Resumed \in Int /\ Resumed <= ms - Grace
      /\ watermark' = Resumed /\ seed' \in Int \cup {None}
      /\ UNCHANGED <<ms, stamp, learned, saved, catalogued>>
  BY DrainAssumption DEF Begin, Resumed, DrainInv, Types, OpenEnd
<1>2. CASE cycle' = NoCycle
  BY <1>1, <1>2, CycleEnds DEF DrainInv, Types
<1>3. CASE cycle' = [NoCycle EXCEPT !.pc = "query", !.end = ms - Grace, !.max = Resumed]
  <2>1. /\ cycle' \in CycleRow /\ cycle'.pc = "query" /\ cycle'.end = ms - Grace /\ cycle'.max = Resumed
        /\ cycle'.todo = {} /\ cycle'.fed = {} /\ cycle'.ok
    BY <1>1, <1>3 DEF NoCycle, CycleRow, PCs
  <2>2. Types'
    BY <1>1, <2>1 DEF DrainInv, Types, Stored
  <2>3. OpenEnd' /\ BatchOK'
    BY <1>1, <2>1 DEF OpenEnd, BatchOK, Newest
  <2> QED
    BY <2>2, <2>3 DEF DrainInv
<1> QED
  BY <1>2, <1>3 DEF Begin

LEMMA QueryKeeps ==
  ASSUME DrainInv, Query
  PROVE  DrainInv'
<1>1. PICK b \in Batches(Window(watermark, cycle.end)) : cycle' = [cycle EXCEPT !.pc = "feed", !.todo = b]
  BY DEF Query
<1>2. b \subseteq Window(watermark, cycle.end)
  BY DEF Batches
<1>3. b \subseteq Stored /\ Stored \subseteq Line
  BY <1>2 DEF Window, Stored
<1>4. cycle \in CycleRow /\ cycle.pc = "query" /\ cycle.fed = {}
  BY DEF Query, DrainInv, Types, BatchOK
<1>5. /\ cycle' \in CycleRow /\ cycle'.pc = "feed" /\ cycle'.todo = b /\ cycle'.fed = {}
      /\ cycle'.end = cycle.end /\ cycle'.max = cycle.max /\ cycle'.ok = cycle.ok
  BY <1>1, <1>3, <1>4 DEF CycleRow, PCs
<1>6. UNCHANGED <<ms, stamp, watermark, seed, learned, saved, catalogued>>
  BY DEF Query
<1>7. Types' /\ OpenEnd'
  BY <1>3, <1>4, <1>5, <1>6 DEF DrainInv, Types, Stored, OpenEnd
<1>8. Newest' /\ cycle.ok
  BY <1>4, <1>5, <1>6, NewestStays DEF DrainInv, BatchOK
<1>9. Oldest'
  <2>1. (cycle.todo \cup cycle.fed)' = b
    BY <1>5
  <2>2. Window(watermark, cycle.end)' = Window(watermark, cycle.end)
    BY <1>5, <1>6 DEF Window, Stored
  <2> QED
    BY <2>1, <2>2, <1>6 DEF Oldest, Batches
<1> QED
  BY <1>5, <1>7, <1>8, <1>9 DEF DrainInv, BatchOK

\* The line that is fed next is of the window.
LEMMA FeedKeeps ==
  ASSUME DrainInv, NEW l \in Line, Feed(l)
  PROVE  DrainInv'
<1> DEFINE m == IF Ms(stamp[l]) > cycle.max THEN Ms(stamp[l]) ELSE cycle.max
<1>1. /\ cycle \in CycleRow /\ cycle.pc = "feed" /\ cycle.ok /\ l \in cycle.todo /\ watermark \in Int
      /\ Oldest /\ Newest /\ UNCHANGED <<ms, stamp, watermark, seed, saved, catalogued>>
      /\ learned' = learned \cup {l}
  BY DEF Feed, DrainInv, Types, BatchOK, OpenEnd
<1>2. l \in Stored /\ stamp[l] \in Int /\ stamp[l] <= cycle.end * Res
  BY <1>1 DEF Oldest, Batches, Window, Stored, DrainInv, Types
<1>3. Ms(stamp[l]) \in Int /\ Ms(stamp[l]) <= cycle.end
  BY <1>1, <1>2, Floor, FloorBound DEF CycleRow
<1>4. /\ m \in Int /\ watermark <= m /\ m <= cycle.end
      /\ m = cycle.max \/ m = Ms(stamp[l])
  BY <1>1, <1>3 DEF Newest, CycleRow
<1>5. cycle' = [cycle EXCEPT !.todo = @ \ {l}, !.fed = @ \cup {l}, !.max = m]
  BY DEF Feed
<1> HIDE DEF m
<1>6. /\ cycle' \in CycleRow /\ cycle'.pc = "feed" /\ cycle'.ok /\ cycle'.end = cycle.end
      /\ cycle'.todo = cycle.todo \ {l} /\ cycle'.fed = cycle.fed \cup {l} /\ cycle'.max = m
  BY <1>1, <1>4, <1>5 DEF CycleRow
<1>7. Types' /\ OpenEnd'
  BY <1>1, <1>2, <1>6 DEF DrainInv, Types, Stored, OpenEnd
<1>8. Oldest'
  <2>1. cycle'.todo \cup cycle'.fed = cycle.todo \cup cycle.fed
    BY <1>1, <1>6
  <2>2. \A k \in Line \ Stored : stamp'[k] = None
    BY <1>1 DEF Stored
  <2> QED
    BY <1>1, <1>6, <2>1, <2>2, OldestStays DEF DrainInv
<1>9. Newest'
  <2>1. \A k \in cycle'.fed : Ms(stamp[k])' = Ms(stamp[k])
    BY <1>1 DEF Ms
  <2> QED
    BY <1>1, <1>4, <1>6, <2>1 DEF Newest
<1> QED
  BY <1>6, <1>7, <1>8, <1>9 DEF DrainInv, BatchOK

\* Steps that move the cycle on and leave its batch alone.
LEMMA CycleMoves ==
  ASSUME DrainInv, cycle.pc # "idle", cycle' \in CycleRow, UNCHANGED <<ms, stamp, watermark, seed, learned, catalogued>>,
         cycle'.end = cycle.end, cycle'.todo = cycle.todo, cycle'.fed = cycle.fed, cycle'.max = cycle.max,
         saved \subseteq saved', saved' \subseteq learned
  PROVE  /\ Types' /\ OpenEnd'
         /\ Newest => Newest'
         /\ Oldest => Oldest'
<1>1. watermark \in Int /\ \A k \in Line \ Stored : stamp'[k] = None
  BY DEF DrainInv, OpenEnd, Stored
<1>2. Types' /\ OpenEnd'
  BY DEF DrainInv, Types, Stored, OpenEnd
<1> QED
  BY <1>1, <1>2, NewestStays, OldestStays DEF DrainInv

LEMMA StreamFailsKeeps ==
  ASSUME DrainInv, StreamFails
  PROVE  DrainInv'
<1>1. /\ cycle \in CycleRow /\ cycle.pc \in {"query", "feed"}
      /\ UNCHANGED <<ms, stamp, watermark, seed, learned, saved, catalogued>>
  BY DEF StreamFails, DrainInv, Types
<1>2. /\ cycle' \in CycleRow /\ cycle'.pc = "snapshot" /\ ~cycle'.ok
      /\ cycle'.end = cycle.end /\ cycle'.todo = cycle.todo /\ cycle'.fed = cycle.fed /\ cycle'.max = cycle.max
  BY <1>1 DEF StreamFails, CycleRow, PCs
<1>3. Types' /\ OpenEnd'
  BY <1>1, <1>2, CycleMoves DEF DrainInv, Types
<1> QED
  BY <1>2, <1>3 DEF DrainInv, BatchOK

LEMMA StreamEndsKeeps ==
  ASSUME DrainInv, StreamEnds
  PROVE  DrainInv'
<1>1. /\ cycle \in CycleRow /\ cycle.pc = "feed" /\ cycle.todo = {} /\ cycle.ok /\ Newest /\ Oldest
      /\ UNCHANGED <<ms, stamp, watermark, seed, learned, saved, catalogued>>
  BY DEF StreamEnds, DrainInv, Types, BatchOK
<1>2. /\ cycle' \in CycleRow /\ cycle'.pc = "snapshot" /\ cycle'.end = cycle.end
      /\ cycle'.todo = cycle.todo /\ cycle'.fed = cycle.fed /\ cycle'.max = cycle.max
  BY <1>1 DEF StreamEnds, CycleRow, PCs
<1>3. Types' /\ OpenEnd' /\ Newest' /\ Oldest'
  BY <1>1, <1>2, CycleMoves DEF DrainInv, Types
<1> QED
  BY <1>1, <1>2, <1>3 DEF DrainInv, BatchOK

LEMMA PersistModelKeeps ==
  ASSUME DrainInv, NEW some \in SUBSET (learned \ saved), PersistModel(some)
  PROVE  DrainInv'
<1>1. /\ cycle \in CycleRow /\ cycle.pc = "snapshot" /\ cycle' = cycle /\ saved' = saved \cup some
      /\ UNCHANGED <<ms, stamp, watermark, seed, learned, catalogued>>
  BY DEF PersistModel, DrainInv, Types
<1>2. Types' /\ OpenEnd' /\ (Newest => Newest') /\ (Oldest => Oldest')
  BY <1>1, CycleMoves DEF DrainInv, Types
<1> QED
  BY <1>1, <1>2 DEF DrainInv, BatchOK

LEMMA SnapshotDoneKeeps ==
  ASSUME DrainInv, SnapshotDone
  PROVE  DrainInv'
<1> DEFINE p == IF cycle.ok THEN "advance" ELSE "sync"
<1>1. /\ cycle \in CycleRow /\ cycle.pc = "snapshot" /\ learned \subseteq saved
      /\ UNCHANGED <<ms, stamp, watermark, seed, learned, saved, catalogued>>
  BY DEF SnapshotDone, DrainInv, Types
<1>2. cycle' = [cycle EXCEPT !.pc = p] /\ p \in {"advance", "sync"} /\ (p = "advance" <=> cycle.ok)
  BY DEF SnapshotDone
<1> HIDE DEF p
<1>3. /\ cycle' \in CycleRow /\ cycle'.pc = p /\ cycle'.end = cycle.end /\ cycle'.ok = cycle.ok
      /\ cycle'.todo = cycle.todo /\ cycle'.fed = cycle.fed /\ cycle'.max = cycle.max
  BY <1>1, <1>2 DEF CycleRow, PCs
<1>4. Types' /\ OpenEnd' /\ (Newest => Newest') /\ (Oldest => Oldest')
  BY <1>1, <1>3, CycleMoves DEF DrainInv, Types
<1>5. cycle'.fed \subseteq saved'
  BY <1>1, <1>3 DEF DrainInv, Types
<1> QED
  BY <1>1, <1>2, <1>3, <1>4, <1>5 DEF DrainInv, BatchOK

\* The watermark stays within the window of the cycle.
LEMMA AdvanceMovesOn ==
  ASSUME DrainInv, Advance
  PROVE  /\ watermark \in Int /\ watermark' \in Int /\ watermark <= watermark' /\ watermark' <= cycle.end
         /\ cycle.end <= ms - Grace
<1>1. cycle \in CycleRow /\ cycle.pc = "advance" /\ Newest /\ watermark \in Int /\ cycle.end <= ms - Grace
  BY DEF Advance, DrainInv, Types, BatchOK, OpenEnd
<1>2. watermark' = cycle.max \/ watermark' = cycle.end
  BY DEF Advance, NextWatermark
<1>3. cycle.max \in Int /\ cycle.end \in Int
  BY <1>1 DEF CycleRow
<1> QED
  BY <1>1, <1>2, <1>3 DEF Newest

LEMMA AdvanceKeeps ==
  ASSUME DrainInv, Advance
  PROVE  DrainInv'
<1>1. /\ cycle \in CycleRow /\ cycle.pc = "advance" /\ cycle.fed \subseteq saved
      /\ UNCHANGED <<ms, stamp, seed, learned, saved, catalogued>>
  BY DEF Advance, DrainInv, Types, BatchOK
<1>2. /\ cycle' \in CycleRow /\ cycle'.pc = "sync" /\ cycle'.end = cycle.end
      /\ cycle'.todo = cycle.todo /\ cycle'.fed = cycle.fed
  BY <1>1 DEF Advance, CycleRow, PCs
<1>3. watermark' \in Int /\ watermark' <= ms - Grace
  <2>1. ms - Grace \in Int /\ cycle.end \in Int
    BY <1>1, DrainAssumption DEF DrainInv, Types, CycleRow
  <2> QED
    BY <2>1, AdvanceMovesOn
<1>4. Types'
  BY <1>1, <1>2, <1>3 DEF DrainInv, Types, Stored
<1>5. OpenEnd' /\ BatchOK'
  BY <1>1, <1>2, <1>3, AdvanceMovesOn DEF OpenEnd, BatchOK
<1> QED
  BY <1>4, <1>5 DEF DrainInv

LEMMA CycleEndsKeeps ==
  ASSUME DrainInv, SyncSignatures \/ Crash
  PROVE  DrainInv'
<1>1. /\ cycle' = NoCycle /\ UNCHANGED <<ms, stamp, watermark, seed, saved>>
      /\ learned' \subseteq learned /\ saved' \subseteq learned'
  BY DEF SyncSignatures, Crash, DrainInv, Types
<1>2. catalogued' \subseteq saved'
  BY <1>1 DEF SyncSignatures, Crash, DrainInv, Types, BatchOK
<1> QED
  BY <1>1, <1>2, CycleEnds DEF DrainInv, Types, OpenEnd

LEMMA DrainInit == Init => DrainInv
<1> SUFFICES ASSUME Init PROVE DrainInv
  OBVIOUS
<1>1. Types
  BY NoCycleType, DrainAssumption DEF Init, Types, Stored
<1>2. OpenEnd /\ BatchOK
  BY NoCycleType DEF Init, OpenEnd, BatchOK
<1> QED
  BY <1>1, <1>2 DEF DrainInv

LEMMA DrainNext == DrainInv /\ [Next]_vars => DrainInv'
<1> SUFFICES ASSUME DrainInv, [Next]_vars PROVE DrainInv'
  OBVIOUS
<1>1. CASE UNCHANGED vars
  <2>1. UNCHANGED <<ms, stamp, watermark, seed, cycle, learned, saved, catalogued>>
    BY <1>1 DEF vars
  <2> QED
    BY <2>1 DEF DrainInv, Types, Stored, OpenEnd, BatchOK, Newest, Oldest, Window, Batches, Ms
<1> QED
  BY <1>1, TickKeeps, IngestKeeps, BeginKeeps, QueryKeeps, FeedKeeps, StreamFailsKeeps, StreamEndsKeeps,
     PersistModelKeeps, SnapshotDoneKeeps, AdvanceKeeps, CycleEndsKeeps DEF Next, DrainStep

\* The catalogue of signatures never knows more than the saved models do, whatever
\* fails or restarts (SignatureSync runs after the snapshot).
THEOREM CatalogueIsKnown == Spec => []CatalogueIsBacked
<1>1. DrainInv => CatalogueIsBacked
  BY DEF DrainInv, Types, CatalogueIsBacked
<1> QED
  BY <1>1, DrainInit, DrainNext, PTL DEF Spec

----------------------------------------------------------------------------
(* The drain is an at-least-once consumer of the log. *)

\* The watermark passes a line only when the line is in a saved model, or has a
\* twin at the very millisecond the watermark stops at.
LEMMA AdvancePassesSaved ==
  ASSUME DrainInv, Advance, NEW l \in Stored,
         watermark * Res < stamp[l], stamp[l] <= watermark' * Res
  PROVE  l \in saved \/ \E k \in Stored \ {l} : stamp[k] = stamp[l]
<1>1. /\ cycle \in CycleRow /\ cycle.pc = "advance" /\ cycle.fed \subseteq saved /\ Newest
      /\ cycle.fed \in Batches(Window(watermark, cycle.end)) /\ stamp \in [Line -> Int \cup {None}]
  BY DEF Advance, DrainInv, Types, BatchOK, Oldest
<1>2. /\ watermark \in Int /\ watermark' \in Int /\ watermark' <= cycle.end
      /\ cycle.end \in Int /\ cycle.max \in Int /\ stamp[l] \in Int
  BY <1>1, AdvanceMovesOn DEF CycleRow, Stored
<1>3. l \in Window(watermark, cycle.end)
  <2>1. watermark' * Res <= cycle.end * Res /\ watermark' * Res \in Int /\ cycle.end * Res \in Int
    BY <1>2, Scaling
  <2> QED
    BY <1>2, <2>1 DEF Window
<1>4. CASE Cardinality(cycle.fed) # Cap
  BY <1>1, <1>3, <1>4 DEF Batches
<1>5. CASE Cardinality(cycle.fed) = Cap /\ l \notin cycle.fed
  <2>1. watermark' = cycle.max
    BY <1>5 DEF Advance, NextWatermark
  <2>2. cycle.max # watermark
    BY <1>2, <2>1, Scaling
  <2>3. PICK k \in cycle.fed : Ms(stamp[k]) = cycle.max
    BY <1>1, <2>2 DEF Newest
  <2>4. k \in Stored /\ stamp[k] \in Int /\ stamp[k] <= stamp[l]
    BY <1>1, <1>3, <1>5 DEF Batches, Window, Stored
  <2>5. cycle.max * Res <= stamp[k] /\ cycle.max * Res \in Int
    BY <1>2, <2>3, <2>4, Floor, Scaling
  <2>6. stamp[k] = stamp[l]
    BY <1>2, <2>1, <2>4, <2>5
  <2> QED
    BY <1>5, <2>4, <2>6
<1> QED
  BY <1>1, <1>4, <1>5

LEMMA InitIsLogInit == Init => Log!Init
  BY DEF Init, Log!Init

LEMMA StepIsLogStep == DrainInv /\ [Next]_vars => [Log!Next]_Log!vars
<1> SUFFICES ASSUME DrainInv, [Next]_vars PROVE [Log!Next]_Log!vars
  OBVIOUS
<1>1. ASSUME UNCHANGED <<stamp, saved, watermark>> PROVE UNCHANGED Log!vars
  BY <1>1 DEF Log!vars
<1>2. CASE \/ UNCHANGED vars \/ Tick \/ Query \/ StreamFails \/ StreamEnds \/ SnapshotDone \/ SyncSignatures \/ Crash
           \/ \E l \in Line : Feed(l)
  <2>1. UNCHANGED <<stamp, saved, watermark>>
    BY <1>2 DEF vars, Tick, Query, StreamFails, StreamEnds, SnapshotDone, SyncSignatures, Crash, Feed
  <2> QED
    BY <1>1, <2>1
<1>3. ASSUME NEW l \in Line, NEW lag \in 0..(Grace - 1), NEW frac \in 0..(Res - 1), Ingest(l, lag, frac)
      PROVE  Log!Next
  <2>1. /\ stamp[l] = None /\ stamp' = [stamp EXCEPT ![l] = stamp'[l]] /\ stamp'[l] \in Int
        /\ \A e \in Int : e <= ms - Grace => e * Res < stamp'[l]
        /\ UNCHANGED <<saved, watermark>>
    BY <1>3, IngestIsAhead DEF Ingest
  <2>2. watermark # None => watermark * Res < stamp'[l]
    BY <2>1 DEF DrainInv, Types, OpenEnd
  <2>3. watermark # None => watermark * Res \in Int
    BY Scaling DEF DrainInv, Types
  <2>4. Log!Arrive(l)
    BY <2>1, <2>2, <2>3 DEF Log!Arrive
  <2> QED
    BY <2>4 DEF Log!Next
<1>4. ASSUME NEW some \in SUBSET (learned \ saved), PersistModel(some)
      PROVE  Log!Next
  <2>1. saved \subseteq saved' /\ saved' \subseteq Stored /\ UNCHANGED <<stamp, watermark>>
    BY <1>4 DEF PersistModel, DrainInv, Types
  <2>2. Log!Process
    BY <2>1 DEF Log!Process, Log!Arrived, Stored
  <2> QED
    BY <2>2 DEF Log!Next
<1>5. CASE Begin
  <2>1. UNCHANGED <<stamp, saved>> /\ watermark' = Resumed
    BY <1>5 DEF Begin
  <2>2. CASE watermark = None
    <3>1. watermark' \in Int /\ watermark' * Res \in Int /\ watermark' # None
      <4>1. watermark' \in Int
        BY <2>1, <2>2, DrainAssumption DEF Resumed, DrainInv, Types
      <4> QED
        BY <4>1, Scaling, DrainAssumption
    <3>2. Log!Start
      BY <2>1, <2>2, <3>1 DEF Log!Start
    <3> QED
      BY <3>2 DEF Log!Next
  <2>3. CASE watermark # None
    BY <1>1, <2>1, <2>3 DEF Resumed
  <2> QED
    BY <2>2, <2>3
<1>6. CASE Advance
  <2>1. /\ watermark \in Int /\ watermark' \in Int /\ watermark <= watermark'
        /\ watermark # None /\ watermark' # None /\ UNCHANGED <<stamp, saved>>
    BY <1>6, AdvanceMovesOn, DrainAssumption DEF Advance
  <2>2. /\ watermark * Res \in Int /\ watermark' * Res \in Int /\ watermark * Res <= watermark' * Res
        /\ watermark * Res # None
    BY <2>1, Scaling, DrainAssumption
  <2>3. \A l \in Stored : watermark * Res < stamp[l] /\ stamp[l] <= watermark' * Res
                            => l \in saved \/ \E k \in Stored \ {l} : stamp[k] = stamp[l]
    BY <1>6, AdvancePassesSaved
  <2>4. Log!Advance
    BY <2>1, <2>2, <2>3 DEF Log!Advance, Log!Arrived, Log!Twin, Stored
  <2> QED
    BY <2>4 DEF Log!Next
<1> QED
  BY <1>2, <1>3, <1>4, <1>5, <1>6 DEF Next, DrainStep

\* Every step of the drain is one of an at-least-once consumer: the watermark never
\* passes a line that is not in a saved model, across full batches, failing queries
\* and restarts (DrainConsumer.run_once).  What is left of DrainIsAtLeastOnce is that
\* every line is learned in the end.
THEOREM DrainLosesNothing == Spec => Log!Init /\ [][Log!Next]_Log!vars
<1>1. Spec => []DrainInv
  BY DrainInit, DrainNext, PTL DEF Spec
<1> QED
  BY <1>1, InitIsLogInit, StepIsLogStep, PTL DEF Spec

----------------------------------------------------------------------------
(* A job that is on time (the part "hourly").  The deadline of an /ok is   *)
(* not before the next scheduled instant; when that has passed, the job    *)
(* was started at it, and the /start was received before time went on, so  *)
(* that the deadline is gone or of a later /ok (Kept, Started).            *)

LEMMA DivMod ==
  ASSUME NEW a \in Nat, NEW c \in Nat, c > 0
  PROVE  a \div c \in Nat /\ a % c \in 0..(c - 1) /\ a = c * (a \div c) + (a % c)
OBVIOUS

LEMMA Multiple ==
  ASSUME NEW c \in Nat, c > 0, NEW q \in Nat
  PROVE  (c * q) % c = 0
<1> DEFINE d == (c * q) \div c
<1>1. d \in Nat /\ (c * q) % c \in 0..(c - 1) /\ c * q = c * d + ((c * q) % c)
  <2>1. c * q \in Nat
    OBVIOUS
  <2> QED
    BY <2>1, DivMod
<1> HIDE DEF d
<1>2. (c * q) % c = c * (q - d)
  <2>1. c * (q - d) = c * q - c * d
    BY <1>1
  <2> QED
    BY <2>1, <1>1
<1>3. ASSUME NEW k \in Int, k >= 1 PROVE c * k >= c
  BY <1>3
<1>4. CASE q - d >= 1
  BY <1>1, <1>2, <1>3, <1>4
<1>5. CASE q - d <= -1
  <2>1. c * (d - q) >= c
    BY <1>1, <1>3, <1>5
  <2>2. c * (q - d) = -(c * (d - q))
    BY <1>1
  <2> QED
    BY <1>1, <1>2, <2>1, <2>2
<1>6. CASE q - d = 0
  BY <1>6, <1>2
<1> QED
  BY <1>1, <1>4, <1>5, <1>6

\* A cadence has an instant in every window of its length.
LEMMA NextSlot ==
  ASSUME NEW a \in Nat, NEW c \in Nat, c > 0
  PROVE  \E t \in Nat : a < t /\ t <= a + c /\ t % c = 0
<1> DEFINE q == a \div c + 1
<1>1. a \div c \in Nat /\ a % c \in 0..(c - 1) /\ a = c * (a \div c) + (a % c)
  BY DivMod
<1>2. q \in Nat /\ c * q = c * (a \div c) + c
  BY <1>1
<1>3. (c * q) % c = 0
  BY <1>2, Multiple
<1> QED
  BY <1>1, <1>2, <1>3

BeatTypes ==
    /\ now \in Nat /\ onTime \in BOOLEAN
    /\ cronJob.at \in Int /\ cronJob.at <= now
    /\ DOMAIN cronJob = {"running", "at"}
    /\ DOMAIN hb = {"state", "ok", "due", "since"} /\ hb.ok \in Int /\ hb.due \in Int

Kept ==
    hb.due # Hourly!NoTime =>
        /\ hb.ok \in 0..now /\ hb.due = hb.ok + Every + Leeway
        /\ \A t \in Nat : t % Every = 0 /\ t < now => t <= hb.ok

Started == cronJob.at = now => "start" \in pings \/ hb.due = Hourly!NoTime \/ hb.ok = now

Quiet == ~Hourly!Overdue /\ "stale" \notin pending /\ "stale" \notin firing

BeatInv == BeatTypes /\ (Every > 0 /\ onTime => Kept /\ Started /\ Quiet)

LEMMA BeatInit == Hourly!Init => BeatInv
  BY ScheduleAssumption
  DEF Hourly!Init, BeatInv, BeatTypes, Kept, Started, Quiet, Hourly!Overdue, Hourly!NoTime

LEMMA BeatNext == BeatInv /\ [Hourly!Next]_(Hourly!vars) => BeatInv'
<1> SUFFICES ASSUME BeatInv, [Hourly!Next]_(Hourly!vars) PROVE BeatInv'
  OBVIOUS
<1> USE ScheduleAssumption DEF BeatInv
<1>1. CASE Hourly!Tick
  <2>1. BeatTypes'
    BY <1>1 DEF Hourly!Tick, BeatTypes, Hourly!hostVars
  <2>2. ASSUME Every > 0, onTime' PROVE Kept' /\ Started' /\ Quiet'
    <3>1. onTime /\ pings = {} /\ (now % Every = 0 => cronJob.at = now) /\ now' = now + 1 /\ hb' = hb
      <4>1. onTime /\ pings = {} /\ (Hourly!Scheduled(now) => cronJob.at = now)
        BY <1>1, <2>2, Zenon DEF Hourly!Tick
      <4> QED
        BY <1>1, <2>2, <4>1 DEF Hourly!Tick, Hourly!Scheduled
    <3>2. Kept'
      <4>1. ASSUME hb.due # Hourly!NoTime, NEW t \in Nat, t % Every = 0, t < now + 1 PROVE t <= hb.ok
        <5>1. CASE t < now
          BY <5>1, <4>1, <3>1, <2>2 DEF Kept
        <5>2. CASE t = now
          BY <5>2, <4>1, <3>1, <2>2 DEF Kept, Started
        <5> QED
          BY <4>1, <5>1, <5>2 DEF BeatTypes
      <4> QED
        BY <4>1, <3>1, <2>2 DEF Kept, BeatTypes, Hourly!NoTime
    <3>3. Started' /\ Quiet'
      BY <1>1, <3>1, <2>2 DEF Hourly!Tick, Started, Quiet, BeatTypes, Hourly!Overdue, Hourly!hostVars, Hourly!alertVars
    <3> QED
      BY <3>2, <3>3
  <2> QED
    BY <2>1, <2>2
<1>2. CASE Hourly!Dispatch
  <2>1. /\ UNCHANGED <<now, hb, series, pending, firing>> /\ BeatTypes'
        /\ onTime' => onTime /\ "start" \in pings'
    <3>1. onTime' => onTime /\ line = "wrapped"
      BY <1>2, Zenon DEF Hourly!Dispatch
    <3> QED
      BY <1>2, <3>1 DEF Hourly!Dispatch, BeatTypes, Hourly!alertVars
  <2> QED
    BY <2>1 DEF Kept, Started, Quiet, Hourly!Overdue
<1>3. ASSUME NEW kind \in Hourly!Kind, Hourly!ReceivePing(kind) PROVE BeatInv'
  <2>1. BeatTypes'
    <3>1. DOMAIN hb' = {"state", "ok", "due", "since"} /\ hb'.ok \in Int /\ hb'.due \in Int
      <4>1. Hourly!ExpectedNext(now) \in Int /\ now \in Int
        BY DEF Hourly!ExpectedNext, Hourly!NoTime, BeatTypes
      <4>2. CASE kind = "ok"
        BY <1>3, <4>1, <4>2 DEF Hourly!ReceivePing, Hourly!Transition
      <4>3. CASE kind \in {"start", "fail"}
        BY <1>3, <4>3 DEF Hourly!ReceivePing, Hourly!Transition, Hourly!NoTime, BeatTypes
      <4> QED
        BY <4>2, <4>3 DEF Hourly!Kind
    <3> QED
      BY <1>3, <3>1 DEF Hourly!ReceivePing, BeatTypes
  <2>2. ASSUME Every > 0, onTime' PROVE Kept' /\ Started' /\ Quiet'
    <3>1. onTime /\ now' = now /\ cronJob' = cronJob /\ pings' = pings \ {kind} /\ Quiet'
      BY <1>3, <2>2 DEF Hourly!ReceivePing, Quiet, Hourly!Overdue, Hourly!alertVars
    <3>2. CASE kind = "ok"
      <4>1. hb'.ok = now /\ hb'.due = now + Every + Leeway
        BY <1>3, <3>2, <2>2 DEF Hourly!ReceivePing, Hourly!Transition, Hourly!ExpectedNext
      <4> QED
        BY <4>1, <3>1, <2>2 DEF Kept, Started, BeatTypes
    <3>3. CASE kind # "ok"
      <4>1. hb'.due = Hourly!NoTime
        BY <1>3, <3>3 DEF Hourly!ReceivePing, Hourly!Transition, Hourly!Kind, BeatTypes
      <4> QED
        BY <4>1, <3>1, <2>2 DEF Kept, Started
    <3> QED
      BY <3>2, <3>3
  <2> QED
    BY <2>1, <2>2
<1>4. CASE Hourly!ReceiveLine
  <2>1. hb'.due = hb.due /\ hb'.ok = hb.ok /\ BeatTypes'
    BY <1>4 DEF Hourly!ReceiveLine, BeatTypes
  <2> QED
    BY <1>4, <2>1 DEF Hourly!ReceiveLine, Kept, Started, Quiet, Hourly!Overdue, Hourly!alertVars
<1>5. CASE Hourly!Collect
  <2>1. BeatTypes' /\ Kept' = Kept /\ Started' = Started
    BY <1>5 DEF Hourly!Collect, BeatTypes, Kept, Started, Hourly!hostVars
  <2>2. ASSUME Every > 0, onTime PROVE ~Hourly!Overdue'
    <3>1. ASSUME hb.due # Hourly!NoTime PROVE hb.due - now >= 0
      <4>1. hb.ok \in 0..now /\ hb.due = hb.ok + Every + Leeway /\ now \in Nat
        BY <2>2, <3>1 DEF Kept, BeatTypes
      <4>2. ~(now > hb.ok + Every)
        <5>1. SUFFICES ASSUME now > hb.ok + Every PROVE FALSE
          OBVIOUS
        <5>2. PICK t \in Nat : hb.ok < t /\ t <= hb.ok + Every /\ t % Every = 0
          <6>1. hb.ok \in Nat
            BY <4>1
          <6> QED
            BY <6>1, <2>2, NextSlot
        <5>3. t <= hb.ok
          BY <5>1, <5>2, <4>1, <2>2, <3>1 DEF Kept
        <5> QED
          BY <5>2, <5>3, <4>1
      <4> QED
        BY <4>1, <4>2
    <3>2. series' = None \/ series'.next = Hourly!ExpectedNextSeconds
      BY <1>5 DEF Hourly!Collect, Hourly!Samples
    <3>3. Hourly!ExpectedNextSeconds = IF hb.due = Hourly!NoTime THEN None ELSE hb.due - now
      BY <2>2 DEF Hourly!ExpectedNextSeconds
    <3> QED
      BY <3>1, <3>2, <3>3 DEF Hourly!Overdue, BeatTypes
  <2> QED
    BY <1>5, <2>1, <2>2 DEF Hourly!Collect, Quiet, Hourly!alertVars
<1>6. CASE Hourly!Evaluate
  BY <1>6 DEF Hourly!Evaluate, BeatTypes, Kept, Started, Quiet, Hourly!Overdue, Hourly!hostVars
<1>7. ASSUME NEW kind \in Hourly!Kind, Hourly!JobEnds(kind) \/ Hourly!PingLost(kind) PROVE BeatInv'
  BY <1>7 DEF Hourly!JobEnds, Hourly!PingLost, BeatTypes, Kept, Started, Quiet, Hourly!Overdue, Hourly!alertVars
<1>8. CASE \/ Hourly!EditLine \/ Hourly!Reboot \/ Hourly!Register \/ Hourly!Discover \/ Hourly!SetHidden
           \/ Hourly!Install \/ Hourly!Uninstall \/ Hourly!NewFormat \/ UNCHANGED Hourly!vars
  <2>1. /\ UNCHANGED <<now, onTime, hb, series, pings, pending, firing>>
        /\ cronJob'.at = cronJob.at /\ DOMAIN cronJob' = DOMAIN cronJob
    BY <1>8 DEF Hourly!EditLine, Hourly!Reboot, Hourly!Register, Hourly!Discover, Hourly!SetHidden, Hourly!Install,
       Hourly!Uninstall, Hourly!NewFormat, Hourly!vars, Hourly!hostVars, Hourly!alertVars, BeatTypes
  <2> QED
    BY <2>1 DEF BeatTypes, Kept, Started, Quiet, Hourly!Overdue
<1> QED
  BY <1>1, <1>2, <1>3, <1>4, <1>5, <1>6, <1>7, <1>8 DEF Hourly!Next, Hourly!Kind

----------------------------------------------------------------------------
(* The instances of MCLogs.                                                *)

\* A part stays what it is, and a step is one of its instance.
LEMMA PartSteps ==
  ASSUME [MCNext]_allVars
  PROVE  /\ part' = part
         /\ part = "webhook" => [Webhook!Next]_(Webhook!vars)
         /\ part = "reconciled" => [Reconciled!Next]_(Reconciled!vars)
         /\ part = "rules" => [Rules!Next]_(Rules!vars)
         /\ part = "hourly" => [Hourly!Next]_(Hourly!vars)
<1>1. CASE UNCHANGED allVars
  BY <1>1 DEF allVars, alertVars, ruleVars, beatVars, Webhook!vars, Reconciled!vars, Rules!vars, Hourly!vars,
     Hourly!hostVars, Hourly!alertVars
<1>2. CASE MCNext
  BY <1>2 DEF MCNext
<1> QED
  BY <1>1, <1>2

\* Two webhook requests never leave two firing rows of a fingerprint
\* (ux_alerts_fingerprint_firing).
THEOREM OneRowFires == MCSpec => []OneFiringRow
<1> DEFINE Inv == part = "webhook" => Webhook!LifeInv
<1>1. MCInit => Inv
  BY Webhook!LifeInit DEF MCInit, Pipelines
<1>2. Inv /\ [MCNext]_allVars => Inv'
  BY PartSteps, Webhook!LifeNext
<1>3. Inv => OneFiringRow
  BY Webhook!AloneIsOne DEF OneFiringRow
<1> QED
  BY <1>1, <1>2, <1>3, PTL DEF MCSpec

\* A successful reconciliation leaves no resolved row without its outcome
\* (KarmaOutcomeReconciler.run).
THEOREM ResolutionsAreKept == MCSpec => []NoResolutionDropped
<1> DEFINE Inv == part = "reconciled" => Reconciled!LifeInv
<1>1. MCInit => Inv
  BY Reconciled!LifeInit DEF MCInit, Pipelines
<1>2. Inv /\ [MCNext]_allVars => Inv'
  BY PartSteps, Reconciled!LifeNext
<1>3. Inv => NoResolutionDropped
  BY Reconciled!DecidedIsKept DEF NoResolutionDropped
<1> QED
  BY <1>1, <1>2, <1>3, PTL DEF MCSpec

\* A job whose runs start on schedule and report raises no alert that it is overdue, for
\* any cadence and grace period (_record_state_transition, HeartbeatStale in
\* heartbeats.yaml).
THEOREM PunctualJobsAreQuiet == MCSpec => []OnTimeIsQuiet
<1> DEFINE Inv == part = "hourly" => BeatInv
<1>1. MCInit => Inv
  BY BeatInit DEF MCInit
<1>2. Inv /\ [MCNext]_allVars => Inv'
  BY PartSteps, BeatNext
<1>3. Inv => OnTimeIsQuiet
  BY DEF OnTimeIsQuiet, Hourly!OnTimeIsQuiet, BeatInv, Quiet
<1> QED
  BY <1>1, <1>2, <1>3, PTL DEF MCSpec

----------------------------------------------------------------------------
(* The alert rules of an operator (LogRules).  Whatever the directories miss *)
(* of the table, a request that will render it is under way (Rendering).     *)

\* A rule as the table has it.
RuleRow(r) == r \in Rules!Row

TableOK ==
    /\ DOMAIN table = RuleName /\ nextId \in Nat \ {0}
    /\ \A n \in RuleName : table[n] # None => RuleRow(table[n]) /\ table[n].id < nextId
    /\ \A m, n \in RuleName : table[m] # None /\ table[n] # None /\ table[m].id = table[n].id => m = n

JobsOK ==
    /\ DOMAIN job = RuleOperator
    /\ \A o \in RuleOperator :
         /\ job[o].at = "insert" => job[o].name \in RuleName /\ job[o].kind \in Rules!Kind /\ job[o].expr \in RuleExpr
         /\ job[o].at = "update" => RuleRow(job[o].row) /\ job[o].row.id < nextId

FilesMatch == \A k \in Rules!Kind : files[k] = Rules!Wanted(k, Rules!list_enabled)

\* A request that will render, or fail to and say so.
Rendering(o) ==
    \/ job[o].at \in {"audit", "list", "write"}
    \/ job[o].at = "reread" /\ job[o].id \in Rules!Ids

RulesInv ==
    /\ TableOK /\ JobsOK
    /\ up /\ settled => FilesMatch \/ \E o \in RuleOperator : Rendering(o)

LEMMA RuleConstants == MaxRules \in Nat /\ None \notin RuleExpr /\ None \notin Rules!Row
  BY RuleBounds DEF Rules!RulesAssumption

LEMMA RowsAreNotNone ==
  ASSUME NEW r, RuleRow(r)
  PROVE  r # None /\ r.id \in Nat \ {0} /\ r.id <= MaxRules
<1>1. MaxRules \in Nat
  BY RuleConstants
<1> QED
  BY RuleConstants, <1>1 DEF RuleRow, Rules!Row

\* The name of a rule that is there.
LEMMA NameFacts ==
  ASSUME TableOK, NEW i \in Rules!Ids
  PROVE  /\ Rules!NameOf(i) \in RuleName /\ table[Rules!NameOf(i)] # None
         /\ table[Rules!NameOf(i)].id = i /\ RuleRow(table[Rules!NameOf(i)]) /\ i < nextId
<1>1. \E n \in RuleName : table[n] # None /\ table[n].id = i
  BY DEF Rules!Ids
<1>2. Rules!NameOf(i) \in RuleName /\ table[Rules!NameOf(i)] # None /\ table[Rules!NameOf(i)].id = i
  BY <1>1 DEF Rules!NameOf
<1> QED
  BY <1>2 DEF TableOK

LEMMA RulesInit == Rules!Init => RulesInv
<1> SUFFICES ASSUME Rules!Init PROVE RulesInv
  OBVIOUS
<1>1. TableOK /\ JobsOK /\ ~up
  BY DEF Rules!Init, Rules!Idle, TableOK, JobsOK
<1> QED
  BY <1>1 DEF RulesInv

\* A rendering that reports success leaves what the rules want.
LEMMA RenderFacts ==
  ASSUME NEW rules, NEW failed, NEW late \in BOOLEAN, Rules!render_all(rules, failed, late), settled',
         UNCHANGED table
  PROVE  FilesMatch'
<1>1. rules = Rules!list_enabled /\ \A k \in Rules!Kind : Rules!Reported(files[k], k, rules, failed[k])
  BY DEF Rules!render_all
<1>2. ASSUME NEW k \in Rules!Kind PROVE files'[k] = Rules!Wanted(k, rules)
  <2>0. PICK W : W = Rules!Wanted(k, rules)
    OBVIOUS
  <2>1. files'[k] = [x \in Rules!File |-> IF x \in failed[k] THEN files[k][x] ELSE W[x]]
    BY <2>0 DEF Rules!render_all, Rules!_render_kind_dir
  <2>2. W = [x \in Rules!File |-> W[x]]
    BY <2>0 DEF Rules!Wanted
  <2>3. failed[k] \cap {x \in Rules!File : W[x] # None \/ files[k][x] # None} = {}
    BY <1>1, <2>0 DEF Rules!Reported
  <2>4. \A x \in Rules!File : x \in failed[k] => W[x] = files[k][x]
    BY <2>3
  <2> QED
    BY <2>0, <2>1, <2>2, <2>4
<1>3. Rules!list_enabled' = Rules!list_enabled
  BY DEF Rules!list_enabled
<1>4. \A k : Rules!Wanted(k, rules)' = Rules!Wanted(k, rules)
  BY DEF Rules!Wanted
<1> QED
  BY <1>1, <1>2, <1>3 DEF FilesMatch, Rules!Wanted

\* A step that leaves the table, and no rendering request, alone.
LEMMA SameTable ==
  ASSUME RulesInv, NEW o \in RuleOperator, NEW j, job' = [job EXCEPT ![o] = j],
         UNCHANGED <<table, nextId, files, up, settled>>,
         j.at = "insert" => j.name \in RuleName /\ j.kind \in Rules!Kind /\ j.expr \in RuleExpr,
         j.at = "update" => RuleRow(j.row) /\ j.row.id < nextId,
         Rendering(o) => \/ j.at \in {"audit", "list", "write"}
                         \/ j.at = "reread" /\ j.id \in Rules!Ids
  PROVE  RulesInv'
<1>1. DOMAIN job = RuleOperator /\ job'[o] = j /\ \A p \in RuleOperator : p # o => job'[p] = job[p]
  BY DEF RulesInv, JobsOK
<1>2. TableOK'
  BY DEF RulesInv, TableOK, RuleRow
<1>3. JobsOK'
  BY <1>1 DEF RulesInv, JobsOK, RuleRow
<1>4. Rules!Ids' = Rules!Ids /\ FilesMatch' = FilesMatch
  BY DEF Rules!Ids, FilesMatch, Rules!Wanted, Rules!list_enabled
<1>5. ASSUME NEW p \in RuleOperator, Rendering(p) PROVE Rendering(p)'
  BY <1>1, <1>4, <1>5 DEF Rendering
<1> QED
  BY <1>2, <1>3, <1>4, <1>5 DEF RulesInv

\* A step that changes the table of rules and goes on to render it.
LEMMA NewTable ==
  ASSUME JobsOK, TableOK', NEW o \in RuleOperator, NEW j, job' = [job EXCEPT ![o] = j],
         nextId \in Nat, nextId' \in Nat, nextId <= nextId',
         j.at = "audit" \/ (j.at = "reread" /\ j.id \in Rules!Ids')
  PROVE  RulesInv'
<1>1. DOMAIN job = RuleOperator /\ job'[o] = j /\ \A p \in RuleOperator : p # o => job'[p] = job[p]
  BY DEF JobsOK
<1>2. JobsOK'
  <2>1. ASSUME NEW p \in RuleOperator, p # o, job[p].at = "update" PROVE RuleRow(job[p].row) /\ job[p].row.id < nextId'
    <3>1. RuleRow(job[p].row) /\ job[p].row.id < nextId
      BY <2>1 DEF JobsOK
    <3>2. job[p].row.id \in Nat
      BY <3>1, RowsAreNotNone
    <3> QED
      BY <3>1, <3>2
  <2>2. DOMAIN job' = RuleOperator
    BY <1>1
  <2>3. ASSUME NEW p \in RuleOperator
        PROVE  /\ job'[p].at = "insert" => job'[p].name \in RuleName /\ job'[p].kind \in Rules!Kind /\ job'[p].expr \in RuleExpr
               /\ job'[p].at = "update" => RuleRow(job'[p].row) /\ job'[p].row.id < nextId'
    <3>1. CASE p = o
      BY <1>1, <3>1
    <3>2. CASE p # o
      BY <1>1, <2>1, <3>2 DEF JobsOK, RuleRow
    <3> QED
      BY <3>1, <3>2
  <2> QED
    BY <2>2, <2>3 DEF JobsOK, RuleRow
<1>3. Rendering(o)'
  BY <1>1 DEF Rendering
<1> QED
  BY <1>2, <1>3 DEF RulesInv

LEMMA RequestKeeps ==
  ASSUME RulesInv, NEW o \in RuleOperator,
         \/ \E n \in RuleName, k \in Rules!Kind, e \in RuleExpr : Rules!CreateCheck(o, n, k, e)
         \/ \E i \in Rules!Ids : \E e \in RuleExpr \cup {None}, b \in {None, TRUE, FALSE} : Rules!PatchRead(o, i, e, b)
         \/ Rules!Reread(o) \/ Rules!List(o)
  PROVE  RulesInv'
<1>1. CASE \E n \in RuleName, k \in Rules!Kind, e \in RuleExpr : Rules!CreateCheck(o, n, k, e)
  <2>1. PICK n \in RuleName, k \in Rules!Kind, e \in RuleExpr : Rules!CreateCheck(o, n, k, e)
    BY <1>1
  <2>2. PICK j : /\ j = [at |-> "insert", name |-> n, kind |-> k, expr |-> e]
                 /\ job' = [job EXCEPT ![o] = j] /\ UNCHANGED <<table, nextId, files, up, settled>> /\ job[o] = Rules!Idle
    BY <2>1 DEF Rules!CreateCheck, Rules!Becomes
  <2>3. ~Rendering(o)
    BY <2>2 DEF Rendering, Rules!Idle
  <2> QED
    BY <2>2, <2>3, SameTable
<1>2. CASE \E i \in Rules!Ids : \E e \in RuleExpr \cup {None}, b \in {None, TRUE, FALSE} : Rules!PatchRead(o, i, e, b)
  <2>1. PICK i \in Rules!Ids, e \in RuleExpr \cup {None}, b \in {None, TRUE, FALSE} : Rules!PatchRead(o, i, e, b)
    BY <1>2
  <2>2. PICK old : old = table[Rules!NameOf(i)] /\ RuleRow(old) /\ old.id = i /\ i < nextId
    BY NameFacts DEF RulesInv
  <2>3. PICK new : new = [old EXCEPT !.expr = IF e = None THEN @ ELSE e, !.enabled = IF b = None THEN @ ELSE b]
    OBVIOUS
  <2>4. /\ job' = [job EXCEPT ![o] = [at |-> "update", row |-> new]]
        /\ UNCHANGED <<table, nextId, files, up, settled>> /\ job[o] = Rules!Idle
    BY <2>1, <2>2, <2>3 DEF Rules!PatchRead, Rules!Becomes
  <2>5. RuleRow(new) /\ new.id = i
    <3>1. PICK mid : mid = [old EXCEPT !.expr = IF e = None THEN @ ELSE e]
      OBVIOUS
    <3>2. mid \in Rules!Row /\ mid.id = i
      BY <2>2, <3>1 DEF RuleRow, Rules!Row
    <3>3. new = [mid EXCEPT !.enabled = IF b = None THEN @ ELSE b]
      BY <2>2, <2>3, <3>1 DEF RuleRow, Rules!Row
    <3>4. (IF b = None THEN mid.enabled ELSE b) \in BOOLEAN
      BY <3>2 DEF Rules!Row
    <3> QED
      BY <3>2, <3>3, <3>4 DEF RuleRow, Rules!Row
  <2>6. ~Rendering(o)
    BY <2>4 DEF Rendering, Rules!Idle
  <2>7. PICK j : j = [at |-> "update", row |-> new]
    OBVIOUS
  <2> QED
    BY <2>2, <2>4, <2>5, <2>6, <2>7, SameTable
<1>3. CASE Rules!Reread(o)
  <2>1. PICK j : /\ j = (IF job[o].id \in Rules!Ids THEN [at |-> "audit"] ELSE Rules!Idle)
                 /\ job' = [job EXCEPT ![o] = j] /\ UNCHANGED <<table, nextId, files, up, settled>> /\ job[o].at = "reread"
    BY <1>3 DEF Rules!Reread, Rules!Becomes, Rules!Ends
  <2>2. j.at \in {"audit", "idle"} /\ (job[o].id \in Rules!Ids => j.at = "audit")
    BY <2>1 DEF Rules!Idle
  <2>3. Rendering(o) => job[o].id \in Rules!Ids
    BY <2>1 DEF Rendering
  <2> QED
    BY <2>1, <2>2, <2>3, SameTable
<1>4. CASE Rules!List(o)
  <2>1. PICK j : /\ j = [at |-> "write", rules |-> Rules!list_enabled]
                 /\ job' = [job EXCEPT ![o] = j] /\ UNCHANGED <<table, nextId, files, up, settled>>
    BY <1>4 DEF Rules!List, Rules!Becomes
  <2> QED
    BY <2>1, SameTable
<1> QED
  BY <1>1, <1>2, <1>3, <1>4

\* A row that is written over its own leaves the table as good as it was.
LEMMA RowStays ==
  ASSUME TableOK, NEW n \in RuleName, table[n] # None, NEW r, RuleRow(r), r # None, r.id = table[n].id,
         table' = [table EXCEPT ![n] = r], UNCHANGED nextId
  PROVE  TableOK' /\ r.id \in Rules!Ids'
<1>1. DOMAIN table' = RuleName /\ table'[n] = r /\ \A m \in RuleName : m # n => table'[m] = table[m]
  BY DEF TableOK
<1>2. ASSUME NEW m \in RuleName, table'[m] # None
      PROVE  RuleRow(table'[m]) /\ table'[m].id = table[m].id /\ table[m] # None /\ table[m].id < nextId
  BY <1>1, <1>2 DEF TableOK
<1>3. ASSUME NEW m \in RuleName, NEW p \in RuleName, table'[m] # None, table'[p] # None, table'[m].id = table'[p].id
      PROVE  m = p
  BY <1>2, <1>3 DEF TableOK
<1>4. TableOK'
  BY <1>1, <1>2, <1>3 DEF TableOK, RuleRow
<1>5. r.id \in Rules!Ids'
  BY <1>1 DEF Rules!Ids
<1> QED
  BY <1>4, <1>5

LEMMA InsertKeeps == ASSUME RulesInv, NEW o \in RuleOperator, Rules!Insert(o) PROVE RulesInv'
<1>1. /\ job[o].at = "insert" /\ UNCHANGED <<files, up, settled>>
      /\ job[o].name \in RuleName /\ job[o].kind \in Rules!Kind /\ job[o].expr \in RuleExpr
      /\ TableOK /\ JobsOK /\ nextId \in Nat /\ nextId > 0
  BY DEF Rules!Insert, RulesInv, JobsOK, TableOK
<1>2. CASE ~(table[job[o].name] = None /\ nextId <= MaxRules)
  <2>1. job' = [job EXCEPT ![o] = Rules!Idle] /\ UNCHANGED <<table, nextId, files, up, settled>>
    BY <1>1, <1>2 DEF Rules!Insert, Rules!Ends, Rules!Becomes
  <2>2. ~Rendering(o)
    BY <1>1 DEF Rendering
  <2>3. PICK j : j = Rules!Idle
    OBVIOUS
  <2>4. j.at = "idle"
    BY <2>3 DEF Rules!Idle
  <2> QED
    BY <2>1, <2>2, <2>3, <2>4, SameTable
<1>3. CASE table[job[o].name] = None /\ nextId <= MaxRules
  <2>1. PICK r : r = [id |-> nextId, kind |-> job[o].kind, expr |-> job[o].expr, enabled |-> TRUE]
    OBVIOUS
  <2>2. PICK n \in RuleName : n = job[o].name
    BY <1>1
  <2>3. PICK j : j = [at |-> "reread", id |-> nextId]
    OBVIOUS
  <2>4. table' = [table EXCEPT ![n] = r] /\ nextId' = nextId + 1 /\ job' = [job EXCEPT ![o] = j]
    BY <1>3, <2>1, <2>2, <2>3 DEF Rules!Insert, Rules!Becomes
  <2>5. RuleRow(r) /\ r.id = nextId /\ r # None
    <3>1. nextId \in 1..MaxRules /\ TRUE \in BOOLEAN
      BY <1>1, <1>3, RuleConstants
    <3>2. r \in Rules!Row /\ r.id = nextId
      BY <1>1, <2>1, <3>1 DEF Rules!Row
    <3> QED
      BY <3>2, RowsAreNotNone DEF RuleRow
  <2>6. TableOK'
    <3>1. DOMAIN table' = RuleName /\ nextId' \in Nat \ {0} /\ table'[n] = r
      BY <1>1, <2>2, <2>4 DEF TableOK
    <3>2. \A m \in RuleName : m # n => table'[m] = table[m]
      BY <1>1, <2>4 DEF TableOK
    <3>3. \A m \in RuleName : table[m] # None => table[m].id \in Nat /\ table[m].id < nextId
      BY <1>1, RowsAreNotNone DEF TableOK
    <3>4. ASSUME NEW m \in RuleName, table'[m] # None
          PROVE  RuleRow(table'[m]) /\ table'[m].id < nextId' /\ (m # n => table'[m].id < nextId)
      BY <1>1, <2>4, <2>5, <3>1, <3>2, <3>3, <3>4 DEF TableOK
    <3>5. ASSUME NEW m \in RuleName, NEW p \in RuleName, table'[m] # None, table'[p] # None,
                 table'[m].id = table'[p].id
          PROVE  m = p
      BY <1>1, <2>5, <3>1, <3>2, <3>4, <3>5 DEF TableOK
    <3> QED
      BY <3>1, <3>4, <3>5 DEF TableOK, RuleRow
  <2>7. j.at = "reread" /\ j.id \in Rules!Ids'
    <3>1. table'[n] = r
      BY <1>1, <2>4 DEF TableOK
    <3> QED
      BY <2>2, <2>3, <2>5, <3>1 DEF Rules!Ids
  <2> QED
    BY <1>1, <2>4, <2>6, <2>7, nextId' \in Nat, nextId <= nextId', NewTable
<1> QED
  BY <1>2, <1>3

LEMMA UpdateKeeps == ASSUME RulesInv, NEW o \in RuleOperator, Rules!Update(o) PROVE RulesInv'
<1>1. PICK r : r = job[o].row
  OBVIOUS
<1>2. /\ job[o].at = "update" /\ UNCHANGED <<nextId, files, up, settled>>
      /\ RuleRow(r) /\ r.id < nextId /\ r # None
      /\ TableOK /\ JobsOK /\ nextId \in Nat
  BY <1>1, RowsAreNotNone DEF Rules!Update, RulesInv, JobsOK, TableOK
<1>3. PICK j : j = [at |-> "reread", id |-> r.id]
  OBVIOUS
<1>4. job' = [job EXCEPT ![o] = j]
  BY <1>1, <1>3 DEF Rules!Update, Rules!Becomes
<1>5. CASE r.id \notin Rules!Ids
  <2>1. UNCHANGED table
    BY <1>1, <1>5 DEF Rules!Update
  <2>2. ~Rendering(o)
    BY <1>2 DEF Rendering
  <2>3. j.at = "reread"
    BY <1>3
  <2> QED
    BY <1>2, <1>4, <2>1, <2>2, <2>3, SameTable
<1>6. CASE r.id \in Rules!Ids
  <2>1. PICK n \in RuleName : n = Rules!NameOf(r.id) /\ table[n] # None /\ table[n].id = r.id
    BY <1>2, <1>6, NameFacts
  <2>2. table' = [table EXCEPT ![n] = r]
    BY <1>1, <1>6, <2>1 DEF Rules!Update
  <2>3. TableOK' /\ r.id \in Rules!Ids'
    BY <1>2, <2>1, <2>2, RowStays
  <2> QED
    BY <1>2, <1>3, <1>4, <2>3, nextId' \in Nat, nextId <= nextId', NewTable
<1> QED
  BY <1>5, <1>6

LEMMA SetEnabledKeeps ==
  ASSUME RulesInv, NEW o \in RuleOperator, NEW i \in Rules!Ids, NEW b \in BOOLEAN, Rules!SetEnabled(o, i, b)
  PROVE  RulesInv'
<1>1. TableOK /\ JobsOK /\ nextId \in Nat /\ UNCHANGED <<nextId, files, up, settled>>
  BY DEF RulesInv, TableOK, Rules!SetEnabled
<1>2. PICK n \in RuleName : n = Rules!NameOf(i) /\ table[n] # None /\ table[n].id = i /\ RuleRow(table[n]) /\ i < nextId
  BY <1>1, NameFacts
<1>3. PICK r : r = [table[n] EXCEPT !.enabled = b]
  OBVIOUS
<1>4. RuleRow(r) /\ r.id = i
  BY <1>2, <1>3 DEF RuleRow, Rules!Row
<1>5. r # None
  BY <1>4, RowsAreNotNone
<1>6. table' = [table EXCEPT ![n] = r]
  BY <1>2, <1>3 DEF Rules!SetEnabled
<1>7. PICK j : j = [at |-> "reread", id |-> i]
  OBVIOUS
<1>8. job' = [job EXCEPT ![o] = j]
  BY <1>7 DEF Rules!SetEnabled, Rules!Becomes
<1>9. TableOK' /\ i \in Rules!Ids'
  BY <1>1, <1>2, <1>4, <1>5, <1>6, RowStays
<1> QED
  BY <1>1, <1>7, <1>8, <1>9, nextId' \in Nat, nextId <= nextId', NewTable

LEMMA DeleteKeeps ==
  ASSUME RulesInv, NEW o \in RuleOperator, NEW i \in Rules!Ids, Rules!Delete(o, i)
  PROVE  RulesInv'
<1>1. TableOK /\ JobsOK /\ nextId \in Nat /\ UNCHANGED <<nextId, files, up, settled>>
  BY DEF RulesInv, TableOK, Rules!Delete
<1>2. PICK n \in RuleName : n = Rules!NameOf(i)
  BY <1>1, NameFacts
<1>3. table' = [table EXCEPT ![n] = None]
  BY <1>2 DEF Rules!Delete
<1>4. DOMAIN table' = RuleName /\ \A m \in RuleName : table'[m] # None => table'[m] = table[m] /\ table[m] # None
  BY <1>1, <1>3 DEF TableOK
<1>5. TableOK'
  BY <1>1, <1>4 DEF TableOK, RuleRow
<1>6. PICK j : j = [at |-> "audit"]
  OBVIOUS
<1>7. job' = [job EXCEPT ![o] = j]
  BY <1>6 DEF Rules!Delete, Rules!Becomes
<1> QED
  BY <1>1, <1>5, <1>6, <1>7, nextId' \in Nat, nextId <= nextId', NewTable

\* A step that ends with no claim on the directories, or with one that is met.
LEMMA Resettled ==
  ASSUME RulesInv, UNCHANGED <<table, nextId>>,
         \/ UNCHANGED job
         \/ job' = [o \in RuleOperator |-> Rules!Idle]
         \/ \E o \in RuleOperator : job' = [job EXCEPT ![o] = Rules!Idle],
         ~up' \/ ~settled' \/ FilesMatch'
  PROVE  RulesInv'
<1>1. TableOK'
  BY DEF RulesInv, TableOK, RuleRow
<1>2. DOMAIN job' = RuleOperator /\ \A o \in RuleOperator : job'[o] = job[o] \/ job'[o] = Rules!Idle
  BY DEF RulesInv, JobsOK
<1>3. Rules!Idle.at = "idle"
  BY DEF Rules!Idle
<1>4. JobsOK'
  BY <1>2, <1>3 DEF RulesInv, JobsOK, RuleRow
<1> QED
  BY <1>1, <1>4 DEF RulesInv

LEMMA RenderingKeeps ==
  ASSUME RulesInv,
         \/ \E o \in RuleOperator : Rules!Audit(o) \/ Rules!Write(o)
         \/ Rules!Boot \/ Rules!Crash
  PROVE  RulesInv'
<1>1. ASSUME NEW o \in RuleOperator, Rules!Audit(o) PROVE RulesInv'
  <2>1. CASE Rules!Becomes(o, [at |-> "list"]) /\ UNCHANGED <<faults, settled>>
    <3>1. PICK j : j = [at |-> "list"]
      OBVIOUS
    <3>2. job' = [job EXCEPT ![o] = j] /\ UNCHANGED <<table, nextId, files, up, settled>>
      BY <1>1, <2>1, <3>1 DEF Rules!Audit, Rules!Becomes
    <3> QED
      BY <3>1, <3>2, SameTable
  <2>2. CASE settled' = FALSE /\ Rules!Ends(o)
    <3>1. job' = [job EXCEPT ![o] = Rules!Idle] /\ UNCHANGED <<table, nextId>> /\ ~settled'
      BY <1>1, <2>2 DEF Rules!Audit, Rules!Ends, Rules!Becomes
    <3> QED
      BY <3>1, Resettled
  <2> QED
    BY <1>1, <2>1, <2>2 DEF Rules!Audit
<1>2. ASSUME NEW o \in RuleOperator, Rules!Write(o) PROVE RulesInv'
  <2>1. PICK failed \in Rules!Failures, late \in BOOLEAN : Rules!render_all(job[o].rules, failed, late)
    BY <1>2 DEF Rules!Write
  <2>2. job' = [job EXCEPT ![o] = Rules!Idle] /\ UNCHANGED <<table, nextId>>
    BY <1>2 DEF Rules!Write, Rules!Ends, Rules!Becomes
  <2>3. settled' => FilesMatch'
    BY <2>1, <2>2, RenderFacts
  <2> QED
    BY <2>2, <2>3, Resettled
<1>3. CASE Rules!Boot
  <2>1. PICK failed \in Rules!Failures : Rules!render_all(Rules!list_enabled, failed, FALSE)
    BY <1>3 DEF Rules!Boot
  <2>2. UNCHANGED <<table, nextId, job>>
    BY <1>3 DEF Rules!Boot
  <2>3. settled' => FilesMatch'
    BY <2>1, <2>2, RenderFacts
  <2> QED
    BY <2>2, <2>3, Resettled
<1>4. CASE Rules!Crash
  <2>1. UNCHANGED <<table, nextId>> /\ ~up' /\ job' = [o \in RuleOperator |-> Rules!Idle]
    BY <1>4 DEF Rules!Crash
  <2> QED
    BY <2>1, Resettled
<1> QED
  BY <1>1, <1>2, <1>3, <1>4

LEMMA RulesNext == RulesInv /\ [Rules!Next]_(Rules!vars) => RulesInv'
<1> SUFFICES ASSUME RulesInv, [Rules!Next]_(Rules!vars) PROVE RulesInv'
  OBVIOUS
<1>1. CASE UNCHANGED Rules!vars
  <2>1. UNCHANGED <<table, nextId, job, files, up, settled>>
    BY <1>1 DEF Rules!vars
  <2> QED
    BY <2>1 DEF RulesInv, TableOK, JobsOK, RuleRow, FilesMatch, Rendering, Rules!Ids, Rules!Wanted, Rules!list_enabled
<1>2. ASSUME NEW o \in RuleOperator,
             \/ \E n \in RuleName, k \in Rules!Kind, e \in RuleExpr : Rules!CreateCheck(o, n, k, e)
             \/ \E i \in Rules!Ids :
                  \/ \E e \in RuleExpr \cup {None}, b \in {None, TRUE, FALSE} : Rules!PatchRead(o, i, e, b)
                  \/ \E b \in BOOLEAN : Rules!SetEnabled(o, i, b)
                  \/ Rules!Delete(o, i)
             \/ Rules!Insert(o) \/ Rules!Update(o) \/ Rules!Reread(o) \/ Rules!List(o)
      PROVE  RulesInv'
  BY <1>2, RequestKeeps, SetEnabledKeeps, DeleteKeeps, InsertKeeps, UpdateKeeps
<1> QED
  BY <1>1, <1>2, RenderingKeeps DEF Rules!Next

\* With no rendering under way, settled directories match the table.
LEMMA RulesSound == RulesInv => Rules!RulesAreRendered
<1> SUFFICES ASSUME RulesInv, up, settled, \A o \in RuleOperator : job[o] = Rules!Idle
             PROVE  \A k \in Rules!Kind : files[k] = Rules!Wanted(k, Rules!list_enabled)
  BY DEF Rules!RulesAreRendered
<1>1. FilesMatch
  BY DEF RulesInv, Rendering, Rules!Idle
<1> QED
  BY <1>1 DEF FilesMatch

\* The directories hold exactly the enabled rules whenever no request is under
\* way and the last write was not overtaken: for any number of names,
\* expressions, requests and faults.
THEOREM RulesFollowTheTable == Rules!Spec => []Rules!RulesAreRendered
<1>1. Rules!Spec => []RulesInv
  BY RulesInit, RulesNext, PTL DEF Rules!Spec
<1> QED
  BY <1>1, RulesSound, PTL

\* Of the part of the runs that keeps the rules.
THEOREM RulesStayRendered == MCSpec => []RulesAreRendered
<1> DEFINE Inv == part = "rules" => RulesInv
<1>1. MCInit => Inv
  BY RulesInit DEF MCInit, Pipelines
<1>2. Inv /\ [MCNext]_allVars => Inv'
  BY PartSteps, RulesNext
<1>3. Inv => RulesAreRendered
  BY RulesSound DEF RulesAreRendered
<1> QED
  BY <1>1, <1>2, <1>3, PTL DEF MCSpec
=============================================================================
