------------------------------ MODULE TimeTravel ------------------------------
(***************************************************************************)
(* Which snapshot a scan reads, and which columns its names mean there.     *)
(* R resolves `as_of` and `snapshot_id`, then `select` and `filter`, when   *)
(* the scan is built (R/snapshots.R, R/scan.R, R/filter.R); Rust resolves   *)
(* the same names when it is collected (table.rs, scan.rs, predicate.rs);   *)
(* iceberg-rust plans with what they hand it.  All three answer from the    *)
(* metadata of one table handle, so the state here is a table's metadata,   *)
(* which any engine may commit to, roll back, branch, alter and expire, and *)
(* a handle opened on it sees it as it stands.                              *)
(***************************************************************************)
EXTENDS Integers, Sequences

CONSTANTS
    Names,          \* the names columns have and scans ask for
    lower,          \* tolower()
    Schemas,        \* the schemas of the table: a field for each of its names
    NoSchema,       \* a snapshot of a v1 table may name no schema
    NoSelect,       \* select = NULL
    MaxSnapshots,   \* bound: snapshots ever made
    MaxLog,         \* bound: entries of the snapshot log
    MaxTime,        \* bound: the clock stops here
    Skews           \* what a writer's clock may be off by

ASSUME TableAssumption ==
    /\ lower \in [Names -> Names]
    /\ NoSchema \notin Schemas
    /\ MaxSnapshots \in Nat /\ MaxLog \in Nat /\ MaxTime \in Nat
    /\ Skews \subseteq Int

ASSUME SchemasAssumption ==
    /\ Schemas # {}
    /\ \A S \in Schemas : DOMAIN S \subseteq Names

VARIABLES
    snapshots,      \* the schema each listed snapshot names
    log,            \* the snapshot log
    current,        \* the current snapshot, or None
    schema,         \* the table's current schema
    made,           \* snapshots made so far; they are numbered in that order
    now,            \* the time
    was,            \* the snapshot that was current when each tick ended
    skewed,         \* some entry of the log has another time than its commit
    expired         \* some snapshot has been expired

metadata == <<snapshots, log, current, schema>>
ghosts == <<was, skewed, expired>>
vars == <<metadata, made, now, ghosts>>

None == 0
Ids == 1..MaxSnapshots
Times == 0..MaxTime

Init ==
    /\ snapshots = <<>> /\ log = <<>> /\ current = None
    /\ schema \in Schemas
    /\ made = 0 /\ now = 0
    /\ was = [t \in Times |-> None]
    /\ skewed = FALSE /\ expired = FALSE

-----------------------------------------------------------------------------
(* What engines do to the table.                                            *)

Known == DOMAIN snapshots

\* Snapshot s becomes the current one, by a writer whose clock is off by d.
BecomesCurrent(s, d) ==
    /\ Len(log) < MaxLog
    /\ log' = Append(log, [id |-> s, time |-> now + d])
    /\ current' = s
    /\ was' = [was EXCEPT ![now] = s]
    /\ skewed' = (skewed \/ d # 0)

NewSnapshot(named) ==
    /\ made < MaxSnapshots
    /\ made' = made + 1
    /\ snapshots' = [s \in Known \cup {made'} |-> IF s = made' THEN named ELSE snapshots[s]]

Commit(named, d) ==
    /\ NewSnapshot(named)
    /\ BecomesCurrent(made', d)
    /\ UNCHANGED <<schema, now, expired>>

\* A snapshot of a branch is listed, and was never the table's current one.
Branch(named) ==
    /\ NewSnapshot(named)
    /\ UNCHANGED <<log, current, schema, now, ghosts>>

Rollback(s, d) ==
    /\ s # current
    /\ BecomesCurrent(s, d)
    /\ UNCHANGED <<snapshots, schema, made, now, expired>>

\* Any schema may be made the current one, that it already is included.
Alter(S) ==
    /\ schema' = S
    /\ UNCHANGED <<snapshots, log, current, made, now, ghosts>>

\* A snapshot leaves the list, and the log what led up to it.
Expire(s) ==
    /\ s # current
    /\ snapshots' = [k \in Known \ {s} |-> snapshots[k]]
    /\ \E n \in 0..Len(log) :
         /\ \A i \in DOMAIN log : log[i].id = s => i <= n
         /\ n > 0 => log[n].id = s
         /\ log' = SubSeq(log, n + 1, Len(log))
    /\ expired' = TRUE
    /\ UNCHANGED <<current, schema, made, now, was, skewed>>

Tick ==
    /\ now < MaxTime
    /\ now' = now + 1
    /\ was' = [was EXCEPT ![now'] = current]
    /\ UNCHANGED <<metadata, made, skewed, expired>>

Next ==
    \/ \E named \in {schema, NoSchema}, d \in Skews : Commit(named, d)
    \/ \E named \in {schema, NoSchema} : Branch(named)
    \/ \E s \in Known, d \in Skews : Rollback(s, d)
    \/ \E S \in Schemas : Alter(S)
    \/ \E s \in Known : Expire(s)
    \/ Tick

Spec == Init /\ [][Next]_vars

-----------------------------------------------------------------------------
(* Which snapshot a scan reads.                                             *)

Eligible(t) == {i \in DOMAIN log : log[i].time <= t}

\* BUG: the entry with the latest time, not the latest entry.
entry_of_clock(t) ==
    IF Eligible(t) = {} THEN 0
    ELSE CHOOSE i \in Eligible(t) : \A j \in Eligible(t) : log[j].time <= log[i].time

IsLast(i, S) == i \in S /\ \A j \in S : j <= i

\* The entry of the log that as_of = t resolves to; 0 when it is refused.
entry_as_of(t) ==
    IF Eligible(t) = {} THEN 0 ELSE CHOOSE i \in DOMAIN log : IsLast(i, Eligible(t))

\* BUG: resolved against the snapshots listed, newest first.
snapshot_of_list(t) ==
    LET made_by == {s \in Known : \E i \in DOMAIN log : log[i].id = s /\ log[i].time <= t}
    IN  IF made_by = {} THEN None ELSE CHOOSE s \in made_by : \A k \in made_by : k <= s

snapshot_as_of(t) == IF entry_as_of(t) = 0 THEN None ELSE log[entry_as_of(t)].id

\* icebergr_scan() is given neither, an id, or a time.
Moments ==
    {[by |-> "nothing", value |-> 0]}
      \cup {[by |-> "snapshot_id", value |-> s] : s \in 0..MaxSnapshots + 1}
      \cup {[by |-> "as_of", value |-> t] : t \in Times}

\* The snapshot it pins, or None for the current one.
pinned(m) ==
    CASE m.by = "nothing"     -> None
      [] m.by = "snapshot_id" -> m.value
      [] m.by = "as_of"       -> snapshot_as_of(m.value)

moment_refused(m) ==
    \/ m.by = "snapshot_id" /\ m.value \notin Known
    \/ m.by = "as_of" /\ snapshot_as_of(m.value) = None

\* What Rust makes of the snapshot R pinned.
resolves(s) == s = None \/ s \in Known

-----------------------------------------------------------------------------
(* Which schema its names are resolved against.                             *)

SnapshotSchema(s) == IF snapshots[s] = NoSchema THEN schema ELSE snapshots[s]

schema_at(s) == IF s = None THEN schema ELSE SnapshotSchema(s)

\* BUG: a read of the current state resolves against the current schema.
read_schema_current(s) == schema_at(s)

read_schema(s) == schema_at(IF s = None THEN current ELSE s)

\* BUG: as above, in R.
table_columns_current(s) == DOMAIN schema_at(s)

table_columns(s) == DOMAIN schema_at(IF s = None THEN current ELSE s)

\* iceberg-rust plans with the schema the snapshot names; without a snapshot
\* there is nothing to plan.
PlansNothing(s) == s = None /\ current = None
PlanSchema(s) == SnapshotSchema(IF s = None THEN current ELSE s)

-----------------------------------------------------------------------------
(* What its names mean.                                                     *)

alike(n, columns) == {c \in columns : lower[c] = lower[n]}

\* BUG: ignoring case, a name matches the first column that is alike.
column_index_loose(n, columns, cs) ==
    IF cs THEN {n} \cap columns
    ELSE IF alike(n, columns) = {} THEN {}
         ELSE {CHOOSE c \in alike(n, columns) : TRUE}

\* The column a name refers to, if it refers to one.  An exact match wins,
\* and a name that is like several columns is refused.
column_index(n, columns, cs) ==
    IF n \in columns THEN {n}
    ELSE {c \in alike(n, columns) : ~cs /\ alike(n, columns) = {c}}

\* BUG: only the name as it is written is looked for among the columns.
value_columns_exact(n, columns, cs) == n \in columns

\* Whether a name on the value side of a comparison is a column's.
value_columns(n, columns, cs) ==
    IF cs THEN n \in columns ELSE alike(n, columns) # {}

ambiguous(n, columns, cs) ==
    ~cs /\ n \notin columns /\ \E c, k \in alike(n, columns) : c # k

\* The columns a list of names selects, in its order, or {} if it is refused.
selection(select, columns, cs) ==
    { picked \in [DOMAIN select -> columns] :
        /\ \A i \in DOMAIN select : picked[i] \in column_index(select[i], columns, cs)
        /\ \A i, j \in DOMAIN select : picked[i] = picked[j] => i = j }

\* What translate_filter() makes of `left > right`: a column and a name that
\* is evaluated where the call was written, or {} if it is refused.
comparison(left, right, columns, cs) ==
    IF ambiguous(left, columns, cs) THEN {}
    ELSE IF column_index(left, columns, cs) # {}
         THEN {[col |-> c, variable |-> right] :
                 c \in {k \in column_index(left, columns, cs) : ~value_columns(right, columns, cs)}}
         ELSE {[col |-> c, variable |-> left] :
                 c \in {k \in column_index(right, columns, cs) : ~value_columns(left, columns, cs)}}

\* The columns Rust may take a predicate's name for: without an exact match,
\* iceberg-rust's index has any one of those alike.
reference(col, S, cs) ==
    IF col \in DOMAIN S THEN {col}
    ELSE IF cs THEN {} ELSE alike(col, DOMAIN S)

\* The fields that were selected, or {} if there is none of a name.
Projected(select, S) ==
    IF select = NoSelect THEN {S}
    ELSE {fields \in {[i \in DOMAIN select |-> S[select[i]]]} :
            \A i \in DOMAIN select : select[i] \in DOMAIN S}

\* fallback_schema(): the columns an empty result has.
fallback_schema(select, s) == Projected(select, read_schema(s))

\* The columns a result with rows has.
batch_schema(select, s) == Projected(select, PlanSchema(s))

-----------------------------------------------------------------------------
TypeOK ==
    /\ made \in 0..MaxSnapshots /\ now \in Times
    /\ Known \subseteq 1..made
    /\ \A s \in Known : snapshots[s] \in Schemas \cup {NoSchema}
    /\ log \in Seq([id : Known, time : Int])
    /\ current \in Known \cup {None}
    /\ schema \in Schemas
    /\ was \in [Times -> Ids \cup {None}]
    /\ skewed \in BOOLEAN /\ expired \in BOOLEAN

\* With true clocks, a table read as of a time is the table that was there at
\* that time, whatever was rolled back, branched or expired since; what was
\* expired may be refused, and nothing else is read in its place.
AsOfIsHistory ==
    ~skewed =>
      \A t \in Times :
        \/ snapshot_as_of(t) = IF t < now THEN was[t] ELSE current
        \/ expired /\ snapshot_as_of(t) = None

\* With any clocks, a later time never reads what a commit before had
\* already superseded.
AsOfMovesForward ==
    \A t, u \in Times : t <= u => entry_as_of(t) <= entry_as_of(u)

\* The snapshots that the scans R builds are pinned to.
Pins == {pinned(m) : m \in {k \in Moments : ~moment_refused(k)}}

Selects == UNION {[1..n -> Names] : n \in 1..2}

\* A scan that R builds is one that Rust plans, and a column of the snapshot
\* it reads can be named: the three resolutions use one schema, after a
\* change of schema without a commit too.
ScansPlan ==
    \A s \in Pins : ~PlansNothing(s) =>
      /\ resolves(s)
      /\ \A n \in Names : n \in DOMAIN PlanSchema(s) <=> column_index(n, table_columns(s), TRUE) # {}
      /\ \A select \in Selects, cs \in BOOLEAN :
           \A picked \in selection(select, table_columns(s), cs) :
             \A i \in DOMAIN picked : picked[i] \in DOMAIN PlanSchema(s)

\* A name is the column spelt so or else the only one spelt alike, and the
\* predicate that Rust builds is about the column that R found.
NamesMeanOneColumn ==
    \A s \in Pins, n \in Names, cs \in BOOLEAN :
      \A c \in column_index(n, table_columns(s), cs) :
        /\ c # n => \A k \in DOMAIN read_schema(s) : lower[k] = lower[n] => k = c
        /\ reference(c, read_schema(s), cs) = {c}
        /\ ~PlansNothing(s) => c \in DOMAIN PlanSchema(s)

\* What a filter evaluates where the call was written is no column of the
\* snapshot, under the rule by which the scan matches names.
NoVariableShadowsAColumn ==
    \A s \in Pins, left, right \in Names, cs \in BOOLEAN :
      \A made_of \in comparison(left, right, table_columns(s), cs) :
        /\ made_of.variable \notin DOMAIN read_schema(s)
        /\ ~cs => \A c \in DOMAIN read_schema(s) : lower[c] # lower[made_of.variable]

\* A scan that finds no rows has the columns of one that does.
EmptyReadsAlike ==
    \A s \in Pins, cs \in BOOLEAN : ~PlansNothing(s) =>
      /\ fallback_schema(NoSelect, s) = batch_schema(NoSelect, s)
      /\ \A select \in Selects :
           \A picked \in selection(select, table_columns(s), cs) :
             fallback_schema(picked, s) = batch_schema(picked, s)
=============================================================================
