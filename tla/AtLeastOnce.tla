---------------------------- MODULE AtLeastOnce -----------------------------
(***************************************************************************)
(* What a consumer of a log promises: it starts at some position, and the  *)
(* position passes an item only when the item is processed for good.       *)
(* Items that share their instant are only ordered by chance; the promise  *)
(* is about the others.                                                    *)
(***************************************************************************)
EXTENDS Integers

CONSTANTS Item, None

VARIABLES
    at,         \* the instant of each item that arrived
    done,       \* items processed for good
    position    \* the consumer's place in the log, None before it starts

vars == <<at, done, position>>

Arrived == {l \in Item : at[l] # None}
Twin(l) == \E k \in Arrived \ {l} : at[k] = at[l]

Init == at = [l \in Item |-> None] /\ done = {} /\ position = None

\* Items arrive in any order, but never behind the consumer.
Arrive(l) ==
    /\ at[l] = None
    /\ at' = [at EXCEPT ![l] = at'[l]] /\ at'[l] \in Int
    /\ position # None => at'[l] > position
    /\ UNCHANGED <<done, position>>

Process ==
    /\ done \subseteq done' /\ done' \subseteq Arrived
    /\ UNCHANGED <<at, position>>

Start ==
    /\ position = None /\ position' \in Int
    /\ UNCHANGED <<at, done>>

\* An item may be processed again after this, but it was processed before.
Advance ==
    /\ position # None /\ position' \in Int /\ position' >= position
    /\ \A l \in Arrived : position < at[l] /\ at[l] <= position' => l \in done \/ Twin(l)
    /\ UNCHANGED <<at, done>>

Next == (\E l \in Item : Arrive(l)) \/ Process \/ Start \/ Advance

\* An item ahead of the consumer is processed.
Deliver(l) ==
    /\ position # None /\ l \in Arrived \ done /\ at[l] > position /\ ~Twin(l)
    /\ \E more \in SUBSET Arrived : done' = done \cup more \cup {l}

Spec == Init /\ [][Next]_vars /\ \A l \in Item : WF_done(Deliver(l))
=============================================================================
