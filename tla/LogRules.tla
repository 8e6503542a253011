------------------------------ MODULE LogRules ------------------------------
(* The alert rules an operator keeps (logs/user_rules_repo.py,               *)
(* user_rules_render.py, expr_validate.py, vmalert_dryrun.py and the         *)
(* endpoints of api/routers/logs.py): a table, and one YAML file for each    *)
(* enabled rule in the directory that the vmalert of its kind reads.         *)
(*                                                                           *)
(* Every request commits, writes its audit row, reads the enabled rules and  *)
(* then writes the directories; other requests run at each of its awaits, so *)
(* the directories may be written from a list that is out of date.  Nothing  *)
(* writes them again until the next request or the next start.               *)
(*                                                                           *)
(* An expression is the set of what is wrong with it: the checks of          *)
(* expr_validate.py it fails, and "grammar" where only vmalert's own parser  *)
(* sees it.                                                                  *)
EXTENDS Integers, FiniteSets

CONSTANTS
    None,
    Name,          \* rule names
    Expr,          \* expressions, each a subset of Defect
    Operator,      \* requests that may run at the same time
    MaxIds,        \* bound on the rules ever created
    MaxFaults      \* bound on failed audits, failed file operations and crashes

VARIABLES
    table,         \* log_user_rules, by rule_name (unique)
    nextId,        \* its AUTOINCREMENT
    job,           \* what each request is about to do
    files,         \* the content of both directories
    up,
    faults,
    settled        \* since the last write that reported success and was not overtaken,
                   \* no audit failed, no crash and no other write

vars == <<table, nextId, job, files, up, faults, settled>>

Kind == {"logsql", "metricsql"}
Defect == {"fields", "unbalanced_quotes", "unbalanced_parens", "missing_stats_pipe",
           "reserved_filter_field", "missing_threshold", "grammar"}

\* Files that are no rule's: the aggregate file of earlier versions (logs.yaml,
\* metrics.yaml) and a dry run's file that was not removed.
Stray == {"aggregate", "dryrun"}
File == Name \cup Stray

Row == [id : 1..MaxIds, kind : Kind, expr : Expr, enabled : BOOLEAN]

\* What an instance assumes of the constants.
RulesAssumption == MaxIds \in Nat /\ MaxFaults \in Nat /\ None \notin Expr /\ None \notin Row

Idle == [at |-> "idle"]

----------------------------------------------------------------------------
(* Validation (_validate_and_render_check): fields, the heuristics of the    *)
(* kind, and vmalert's own verdict unless the dry run could not be made.     *)

_validate_logsql ==
    {"unbalanced_quotes", "unbalanced_parens", "missing_stats_pipe", "reserved_filter_field"}
_validate_metricsql == {"unbalanced_quotes", "unbalanced_parens", "missing_threshold"}

validate_expr(k, e) ==
    e \cap (IF k = "logsql" THEN _validate_logsql ELSE _validate_metricsql) = {}

\* Skipped: no docker, no image, no mount, a timeout (fail-open).
run_vmalert_dryrun(e, skipped) == skipped \/ "grammar" \notin e

Admitted(k, e) ==
    /\ "fields" \notin e
    /\ validate_expr(k, e)
    /\ \E skipped \in BOOLEAN : run_vmalert_dryrun(e, skipped)

----------------------------------------------------------------------------
(* Rendering: user_rules_render.py                                           *)

Ids == {table[n].id : n \in {m \in Name : table[m] # None}}
NameOf(i) == CHOOSE n \in Name : table[n] # None /\ table[n].id = i

list_enabled ==
    {[name |-> n, kind |-> table[n].kind, expr |-> table[n].expr] :
        n \in {m \in Name : table[m] # None /\ table[m].enabled}}

\* What the directory of kind k has to hold for the listed rules.
Wanted(k, rules) ==
    [x \in File |-> IF \E r \in rules : r.kind = k /\ r.name = x
                    THEN (CHOOSE r \in rules : r.kind = k /\ r.name = x).expr
                    ELSE None]

\* The directory d after its files were written and its orphans removed; the
\* operations on the files in `failed` did not succeed.
_render_kind_dir(d, k, rules, failed) ==
    [x \in File |-> IF x \in failed THEN d[x] ELSE Wanted(k, rules)[x]]

\* Only an operation that was needed can fail: every listed rule's file is
\* written, and every other file that is there is removed.
Reported(d, k, rules, failed) ==
    failed \cap {x \in File : Wanted(k, rules)[x] # None \/ d[x] # None} = {}

\* A write that failed after the file was replaced (its chmod) reports failure
\* with the file in place: `failed` then lacks it, and ok is FALSE all the same.
render_all(rules, failed, late) ==
    /\ files' = [k \in Kind |-> _render_kind_dir(files[k], k, rules, failed[k])]
    /\ settled' = /\ \A k \in Kind : Reported(files[k], k, rules, failed[k])
                  /\ ~ late
                  /\ rules = list_enabled
    /\ faults' = faults + (IF late \/ \E k \in Kind : failed[k] # {} THEN 1 ELSE 0)
    /\ faults' <= MaxFaults

\* The failures of one rendering: none, one file, or a whole directory.
Failures ==
    {[k \in Kind |-> {}]}
    \cup {[k \in Kind |-> IF k = j THEN X ELSE {}] :
            j \in Kind, X \in {{x} : x \in File} \cup {File}}

----------------------------------------------------------------------------
(* Requests                                                                  *)

\* The directories of a first start, and those that an earlier version left.
NoFiles == [k \in Kind |-> [x \in File |-> None]]
OldFiles == [NoFiles EXCEPT !["logsql"]["aggregate"] = {}]

Init ==
    /\ table = [n \in Name |-> None] /\ nextId = 1
    /\ job = [o \in Operator |-> Idle]
    /\ files \in {NoFiles, OldFiles}
    /\ up = FALSE /\ faults = 0 /\ settled = FALSE

Becomes(o, j) == job' = [job EXCEPT ![o] = j]
Ends(o) == Becomes(o, Idle)

\* LogUserRulesRepository.create: validation, and the check of the name.
CreateCheck(o, n, k, e) ==
    /\ up /\ job[o] = Idle
    /\ nextId <= MaxIds
    /\ Admitted(k, e)
    /\ table[n] = None
    /\ Becomes(o, [at |-> "insert", name |-> n, kind |-> k, expr |-> e])
    /\ UNCHANGED <<table, nextId, files, up, faults, settled>>

\* The INSERT: the unique index refuses a name that was taken in between.
Insert(o) ==
    LET j == job[o] IN
    /\ up /\ j.at = "insert"
    /\ IF table[j.name] = None /\ nextId <= MaxIds
       THEN /\ table' = [table EXCEPT ![j.name] = [id |-> nextId, kind |-> j.kind, expr |-> j.expr,
                                                  enabled |-> TRUE]]
            /\ nextId' = nextId + 1
            /\ Becomes(o, [at |-> "reread", id |-> nextId])
       ELSE Ends(o) /\ UNCHANGED <<table, nextId>>
    /\ UNCHANGED <<files, up, faults, settled>>

\* LogUserRulesRepository.update: reads the row and merges the fields given.
PatchRead(o, i, e, b) ==
    LET old == table[NameOf(i)]
        new == [old EXCEPT !.expr = IF e = None THEN @ ELSE e, !.enabled = IF b = None THEN @ ELSE b] IN
    /\ up /\ job[o] = Idle
    /\ Admitted(new.kind, new.expr)
    /\ Becomes(o, [at |-> "update", row |-> new])
    /\ UNCHANGED <<table, nextId, files, up, faults, settled>>

\* UPDATE ... WHERE id: all the columns of the merged row.
Update(o) ==
    LET i == job[o].row.id IN
    /\ up /\ job[o].at = "update"
    /\ IF i \in Ids THEN table' = [table EXCEPT ![NameOf(i)] = job[o].row] ELSE UNCHANGED table
    /\ Becomes(o, [at |-> "reread", id |-> i])
    /\ UNCHANGED <<nextId, files, up, faults, settled>>

\* set_enabled, of /enable and /disable.
SetEnabled(o, i, b) ==
    /\ up /\ job[o] = Idle
    /\ table' = [table EXCEPT ![NameOf(i)].enabled = b]
    /\ Becomes(o, [at |-> "reread", id |-> i])
    /\ UNCHANGED <<nextId, files, up, faults, settled>>

Delete(o, i) ==
    /\ up /\ job[o] = Idle
    /\ table' = [table EXCEPT ![NameOf(i)] = None]
    /\ Becomes(o, [at |-> "audit"])
    /\ UNCHANGED <<nextId, files, up, faults, settled>>

\* A bug the properties find: a request that changed nothing else ends early.
RereadOrEnd(o) ==
    /\ up /\ job[o].at = "reread"
    /\ IF job[o].id \in Ids /\ ~ table[NameOf(job[o].id)].enabled THEN Becomes(o, [at |-> "audit"]) ELSE Ends(o)
    /\ UNCHANGED <<table, nextId, files, up, faults, settled>>

\* The row is read back: one that was deleted in between is a 404, or an error
\* of create, and the request ends without audit and rendering.
Reread(o) ==
    /\ up /\ job[o].at = "reread"
    /\ IF job[o].id \in Ids THEN Becomes(o, [at |-> "audit"]) ELSE Ends(o)
    /\ UNCHANGED <<table, nextId, files, up, faults, settled>>

\* audit_write; when it raises the rule is kept and nothing is rendered.
Audit(o) ==
    /\ up /\ job[o].at = "audit"
    /\ \/ Becomes(o, [at |-> "list"]) /\ UNCHANGED <<faults, settled>>
       \/ faults < MaxFaults /\ faults' = faults + 1 /\ settled' = FALSE /\ Ends(o)
    /\ UNCHANGED <<table, nextId, files, up>>

\* render_all: the enabled rules are read, and then both directories are
\* written without an await.
List(o) ==
    /\ up /\ job[o].at = "list"
    /\ Becomes(o, [at |-> "write", rules |-> list_enabled])
    /\ UNCHANGED <<table, nextId, files, up, faults, settled>>

Write(o) ==
    /\ up /\ job[o].at = "write"
    /\ \E failed \in Failures, late \in BOOLEAN : render_all(job[o].rules, failed, late)
    /\ Ends(o)
    /\ UNCHANGED <<table, nextId, up>>

\* The rendering of a start, before any request is served.
Boot ==
    /\ ~ up /\ up' = TRUE
    /\ \E failed \in Failures : render_all(list_enabled, failed, FALSE)
    /\ UNCHANGED <<table, nextId, job>>

\* The process ends; a dry run it was waiting for leaves its file.
Crash ==
    /\ up /\ faults < MaxFaults
    /\ up' = FALSE /\ faults' = faults + 1
    /\ job' = [o \in Operator |-> Idle]
    /\ settled' = FALSE
    /\ \/ UNCHANGED files
       \/ \E e \in Expr : files' = [files EXCEPT !["logsql"]["dryrun"] = e]
    /\ UNCHANGED <<table, nextId>>

Next ==
    \/ \E o \in Operator :
        \/ \E n \in Name, k \in Kind, e \in Expr : CreateCheck(o, n, k, e)
        \/ \E i \in Ids :
            \/ \E e \in Expr \cup {None}, b \in {None, TRUE, FALSE} : PatchRead(o, i, e, b)
            \/ \E b \in BOOLEAN : SetEnabled(o, i, b)
            \/ Delete(o, i)
        \/ Insert(o) \/ Update(o) \/ Reread(o) \/ Audit(o) \/ List(o) \/ Write(o)
    \/ Boot \/ Crash

Spec == Init /\ [][Next]_vars

----------------------------------------------------------------------------

\* Types.
TypeOK ==
    /\ table \in [Name -> Row \cup {None}] /\ nextId \in 1..(MaxIds + 1)
    /\ files \in [Kind -> [File -> Expr \cup {None}]]
    /\ up \in BOOLEAN /\ settled \in BOOLEAN /\ faults \in 0..MaxFaults

\* Between requests the directories hold exactly the enabled rules, each in its
\* own: every way through a request that changes the table ends in a rendering,
\* and one rendering repairs whatever failed or overtaken ones, crashes, dry runs
\* and earlier versions left there.  It does not hold from an audit row that
\* failed, or a write that failed or was overtaken, to the next rendering
\* (user_rules_render.py: "Reconcile per-rule YAML files in BOTH user-rule dirs";
\* routers/logs.py: "next boot reconcile or rule mutation will retry").
RulesAreRendered ==
    up /\ settled /\ (\A o \in Operator : job[o] = Idle) =>
      \A k \in Kind : files[k] = Wanted(k, list_enabled)
=============================================================================
