----------------------------- MODULE MCAutoFix -----------------------------
(* AutoFix on small instances. *)
EXTENDS AutoFix, TLC

CONSTANTS t1, t2, r1, safe, risky, a1, i1, i2, i3

\* The alert matches the one runbook.
MCMatches == [al \in Alert |-> {r1}]

\* A behaviour has one crash, one edit of the registry or one kill-switch request.
MCSpec == Init /\ [][Next /\ crashes' + edits' + toggles' <= 1]_vars

\* Tasks and run ids are interchangeable.
Interchangeable == Permutations(Task) \cup Permutations(RunId)
=============================================================================
