----------------------------- MODULE LogWriter -----------------------------
(***************************************************************************)
(* The lines that collectors write (logs/vl_writer.py): a bounded queue    *)
(* and the task that posts it to VictoriaLogs in batches.  Lines are their *)
(* numbers in the order of ingest.                                         *)
(***************************************************************************)
EXTENDS Naturals, Sequences

CONSTANTS
    Capacity,       \* queue_size
    BatchSize,
    MaxLines

\* What an instance assumes of the constants.
WriterAssumption == BatchSize \in Nat \ {0}

Sentinel == 0

VARIABLES
    lines,          \* how many lines were ingested
    queue,
    flusher,        \* where run_flusher is
    batch,
    stored,         \* what VictoriaLogs has
    dropped,        \* lines that dropped_count counts
    failed,         \* lines of batches that error_count counts
    stop,           \* _stop
    early           \* how many lines were ingested before stop was set

vars == <<lines, queue, flusher, batch, stored, dropped, failed, stop, early>>

IsLine(l) == l # Sentinel

TypeOK ==
    /\ lines \in 0..MaxLines /\ early \in 0..lines
    /\ queue \in Seq(0..lines) /\ Len(queue) <= Capacity
    /\ flusher \in {"idle", "posting", "done"}
    /\ batch \in Seq(1..lines) /\ Len(batch) <= BatchSize
    /\ stored \in Seq(1..lines)
    /\ dropped \subseteq 1..lines /\ failed \subseteq 1..lines
    /\ stop \in BOOLEAN

Init ==
    /\ lines = 0 /\ early = 0 /\ queue = <<>> /\ flusher = "idle" /\ batch = <<>>
    /\ stored = <<>> /\ dropped = {} /\ failed = {} /\ stop = FALSE

\* Mutant: what a full queue turns away is not counted.
Ingest_Uncounted ==
    /\ lines < MaxLines
    /\ lines' = lines + 1
    /\ early' = IF stop THEN early ELSE lines + 1
    /\ queue' = IF Len(queue) < Capacity THEN Append(queue, lines + 1) ELSE queue
    /\ UNCHANGED <<flusher, batch, stored, dropped, failed, stop>>

\* MultiplexLogsWriter hands it to the copy in memory first, which takes every line.
Ingest ==
    /\ lines < MaxLines
    /\ lines' = lines + 1
    /\ early' = IF stop THEN early ELSE lines + 1
    /\ IF Len(queue) < Capacity
       THEN queue' = Append(queue, lines + 1) /\ UNCHANGED dropped
       ELSE dropped' = dropped \cup {lines + 1} /\ UNCHANGED queue
    /\ UNCHANGED <<flusher, batch, stored, failed, stop>>

\* The first get takes a sentinel by itself.
Wake ==
    /\ flusher = "idle" /\ queue # <<>> /\ ~IsLine(Head(queue))
    /\ queue' = Tail(queue)
    /\ UNCHANGED <<lines, flusher, batch, stored, dropped, failed, stop, early>>

\* The place of the sentinel, of which there is at most one; without one, after the end.
SentinelAt ==
    IF \E k \in DOMAIN queue : ~IsLine(queue[k])
    THEN CHOOSE k \in DOMAIN queue : ~IsLine(queue[k]) ELSE Len(queue) + 1

\* How many items are taken: up to the last of BatchSize lines, or all.
Taken ==
    LET n == IF SentinelAt <= BatchSize THEN BatchSize + 1 ELSE BatchSize
    IN  IF n < Len(queue) THEN n ELSE Len(queue)

\* A sentinel among them is skipped.
Collect ==
    /\ flusher = "idle" /\ queue # <<>> /\ IsLine(Head(queue))
    /\ batch' = IF SentinelAt <= Taken
                THEN SubSeq(queue, 1, SentinelAt - 1) \o SubSeq(queue, SentinelAt + 1, Taken)
                ELSE SubSeq(queue, 1, Taken)
    /\ queue' = SubSeq(queue, Taken + 1, Len(queue))
    /\ flusher' = "posting"
    /\ UNCHANGED <<lines, stored, dropped, failed, stop, early>>

\* 2xx.
Posted ==
    /\ flusher = "posting"
    /\ stored' = stored \o batch
    /\ batch' = <<>> /\ flusher' = "idle"
    /\ UNCHANGED <<lines, queue, dropped, failed, stop, early>>

\* No answer, or another one; VictoriaLogs may have the lines all the same.
PostFails ==
    /\ flusher = "posting"
    /\ stored' \in {stored, stored \o batch}
    /\ failed' = failed \cup {batch[i] : i \in DOMAIN batch}
    /\ batch' = <<>> /\ flusher' = "idle"
    /\ UNCHANGED <<lines, queue, dropped, stop, early>>

Close ==
    /\ ~stop /\ stop' = TRUE
    /\ queue' = IF Len(queue) < Capacity THEN Append(queue, Sentinel) ELSE queue
    /\ UNCHANGED <<lines, flusher, batch, stored, dropped, failed, early>>

Exit ==
    /\ flusher = "idle" /\ stop /\ queue = <<>>
    /\ flusher' = "done"
    /\ UNCHANGED <<lines, queue, batch, stored, dropped, failed, stop, early>>

Next == Ingest \/ Wake \/ Collect \/ Posted \/ PostFails \/ Close \/ Exit

Spec == Init /\ [][Next]_vars

-----------------------------------------------------------------------------

\* A line is stored once and in its order; when the flusher has ended, every line of
\* before the shutdown is stored or counted as dropped or failed (ingest, _post_batch).
LinesAreAccountedFor ==
    /\ \A i, j \in DOMAIN stored : i < j => stored[i] < stored[j]
    /\ flusher = "done" =>
        \A l \in 1..early : l \in dropped \cup failed \/ \E i \in DOMAIN stored : stored[i] = l
=============================================================================
