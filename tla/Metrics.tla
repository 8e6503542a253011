------------------------------ MODULE Metrics ------------------------------
(***************************************************************************)
(* What collectors read and write.  A call of a service returns an error,  *)
(* a payload that does not have the expected shape, or a payload; a        *)
(* payload has up to two items (entities, disks, clients) and an item two  *)
(* fields, each a number or unusable (missing, not a number).  What is     *)
(* written is a function from series to values; a series is a family and   *)
(* its labels.  Families have their names without the prefix homelab_.      *)
(***************************************************************************)
EXTENDS Integers, FiniteSets

CONSTANTS
    Down,      \* an error: not configured, not reachable, refused
    Odd,       \* an answer without the expected shape
    Unasked,   \* the call has not been made in this run
    Item,      \* items of a payload, in the order of their labels
    Cap        \* the cardinality cap of a family

Gone == <<>>
Bad  == -1

IsOk(r) == r \notin {Down, Odd, Unasked}
Answered(r) == r \notin {Down, Unasked}
Present(r) == IF IsOk(r) THEN {i \in Item : r[i] # Gone} ELSE {}
First(r, i) == r[i][1]
Second(r, i) == r[i][2]
Usable(r) == {i \in Present(r) : First(r, i) # Bad}
Bit(b) == IF b THEN 1 ELSE 0

-----------------------------------------------------------------------------
(* Series and what is written to them.                                     *)

\* Two functions as one; what is in both has the first value.
Joined(p) ==
    [s \in (DOMAIN p[1]) \cup (DOMAIN p[2]) |-> IF s \in DOMAIN p[1] THEN p[1][s] ELSE p[2][s]]
f ++ g == Joined(<<f, g>>)
Single(x, v) == [s \in {x} |-> v]

NoSeries == [s \in {} |-> 0]
NoLabels == [n \in {} |-> 0]
With(f, labels, v) == Single(<<f, labels>>, v)
One(f, v) == With(f, NoLabels, v)
When(b, out) == IF b THEN out ELSE NoSeries

\* The values V(i) of the items i of S, by their labels L(i).
Labelled(S, L(_), V(_)) == [l \in {L(i) : i \in S} |-> V(CHOOSE i \in S : L(i) = l)]

\* Series of each of the families F, from values by labels.
Series(F, values) == [s \in F \X DOMAIN values |-> values[s[2]]]

For(f, S, L(_), V(_)) == Series({f}, Labelled(S, L, V))

ById(i) == [id |-> i]

\* The usable numbers of a payload, one series per item.
EachOf(F, r) == Series(F, Labelled(Usable(r), ById, LAMBDA i : First(r, i)))
Each(f, r) == EachOf({f}, r)

Constant(F, v) == Series(F, Single(NoLabels, v))

\* Unlabelled gauges of the families F, from the first item of a payload.
Numbers(F, r) == When(1 \in Usable(r), Constant(F, First(r, 1)))

\* A flag of a payload: anything but a usable 1 counts as 0.
Flag(r) == Bit(1 \in Usable(r) /\ First(r, 1) = 1)

-----------------------------------------------------------------------------
(* Cardinality caps: the first Cap items in label order are written, and   *)
(* the gauge of dropped series always is.                                  *)

Survivors(S) == {i \in S : Cardinality({j \in S : j < i}) < Cap}

DroppedSeries(f, S) ==
    With("metric_family_dropped_series", [family |-> f],
         Cardinality(S) - Cardinality(Survivors(S)))

EmitFamily(f, S, L(_), V(_)) ==
    For(f, Survivors(S), L, V) ++ DroppedSeries(f, S)

\* Several families with the same series.
EmitFamilies(F, S, L(_), V(_)) ==
    Series(F, Labelled(Survivors(S), L, V))
    ++ Series({"metric_family_dropped_series"},
              [l \in {[family |-> f] : f \in F} |-> Cardinality(S) - Cardinality(Survivors(S))])

\* Unlabelled gauges with value v, if there is one.
EmitScalars(F, there, v) ==
    EmitFamilies(F, IF there THEN {1} ELSE {}, LAMBDA i : NoLabels, LAMBDA i : v)

EmitUsable(f, r) == EmitFamily(f, Usable(r), ById, LAMBDA i : First(r, i))

-----------------------------------------------------------------------------
(* The result of a run in the light of the replies so far: which calls it  *)
(* makes, in their order, whether it reports success, and what it has      *)
(* written.                                                                *)

Collected(calls, ok, out) == [calls |-> calls, ok |-> ok, out |-> out]

Done(calls, got) == \A k \in calls : got[k] # Unasked

\* A run of one call whose failure is reported and writes nothing.
Polled(r, out) == Collected({1}, IsOk(r), When(IsOk(r), out))

-----------------------------------------------------------------------------
(* The registry that is scraped: the first label names of a family are the *)
(* ones it keeps, and a write with others is dropped; a series stays until *)
(* its family is replaced.                                                 *)

FamiliesOf(out) == {s[1] : s \in DOMAIN out}

LabelNames(f, out) ==
    DOMAIN (CHOOSE s \in DOMAIN out : s[1] = f)[2]

GetOrCreate(names, out) ==
    names ++ [f \in FamiliesOf(out) |-> LabelNames(f, out)]

Accepted(names, out) ==
    LET known == GetOrCreate(names, out)
    IN  {s \in DOMAIN out : known[s[1]] = DOMAIN s[2]}

WriteGauges(registry, names, out) ==
    [s \in Accepted(names, out) |-> out[s]] ++ registry

=============================================================================
