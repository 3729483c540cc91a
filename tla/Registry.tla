------------------------------- MODULE Registry -------------------------------
(***************************************************************************)
(* Namespaces and tables by name: icebergr_create_namespace(), which makes  *)
(* the parents that are missing one call at a time, icebergr_create_table() *)
(* and icebergr_register_table(), icebergr_table_exists() and               *)
(* icebergr_table(), by sessions that share a catalog with other engines.   *)
(* Each call of the catalog is an await of block_on(), which may give up on *)
(* it and leave the request on its way.                                     *)
(*                                                                          *)
(* A name is a sequence of levels, and that of a table ends in its own.     *)
(***************************************************************************)
EXTENDS Integers, Sequences

CONSTANTS
    Sessions,
    Calls,          \* bound: calls of all sessions
    Engines,        \* bound: what other engines make
    Nobody,
    Levels,         \* the levels of names
    Blank,          \* the empty level, between two dots
    Spellings,      \* names as they are written, split at the dots
    LocalWarehouse  \* the catalog's warehouse is a local directory

ASSUME NamesAssumption ==
    /\ Blank \notin Levels
    /\ Spellings \subseteq Seq(Levels \cup {Blank})
    /\ LocalWarehouse \in BOOLEAN

ASSUME MakersAssumption ==
    /\ Calls \cap Engines = {}
    /\ Nobody \notin Calls

VARIABLES
    namespaces,     \* the namespaces of the catalog, and who made each
    tables,         \* its tables, and who made or registered each
    late,           \* requests that were given up on and may still arrive
    at,             \* what each session awaits, or "R"
    call,           \* the call each session is in
    asked,          \* per call: the operation and the name
    level,          \* per call: levels of the name it has come to
    result,         \* per call: what R was told
    there,          \* ghost, per call: the table was there when it ended
    created,        \* ghost: all that was ever made
    dropped,        \* ghost: all that was ever dropped
    lost            \* ghost, per call: what was dropped of the levels it was past

catalog == <<namespaces, tables, created, dropped, lost>>
calls == <<at, call, asked, level, result, there>>
vars == <<catalog, late, calls>>

Operations == {"create_namespace", "create_table", "register_table", "table_exists", "table"}
Awaits == {"check", "parent", "leaf", "entry", "exists", "open"}
Results == {"new", "running", "invalid", "ok", "yes", "no", "taken", "missing", "broken"}

Init ==
    /\ namespaces = <<>> /\ tables = <<>>
    /\ late = {}
    /\ at = [s \in Sessions |-> "R"] /\ call = [s \in Sessions |-> Nobody]
    /\ asked = [c \in Calls |-> [op |-> "table", path |-> <<>>]]
    /\ level = [c \in Calls |-> 0]
    /\ result = [c \in Calls |-> "new"] /\ there = [c \in Calls |-> FALSE]
    /\ created = {} /\ dropped = {} /\ lost = [c \in Calls |-> {}]

-----------------------------------------------------------------------------
(* Names.                                                                   *)

named(l) == l # Blank

\* BUG: an empty level is one like any other.
as_namespace_kept(spelling) == spelling

\* The levels of a name, one by one, less those with nothing in them.
without_blanks(spelling) ==
    LET upto[n \in 0..Len(spelling)] ==
          IF n = 0 THEN <<>>
          ELSE IF named(spelling[n]) THEN Append(upto[n - 1], spelling[n])
          ELSE upto[n - 1]
    IN  upto[Len(spelling)]

as_namespace(spelling) == without_blanks(spelling)

parse_identifier(spelling) ==
    LET parts == without_blanks(spelling)
    IN  [namespace |-> SubSeq(parts, 1, Len(parts) - 1), parts |-> parts]

Prefix(path, n) == SubSeq(path, 1, n)
Parent(path) == Prefix(path, Len(path) - 1)

-----------------------------------------------------------------------------
(* The catalog.                                                             *)

Entries(kind) == IF kind = "namespace" THEN namespaces ELSE tables

Taken(r) == r.path \in DOMAIN Entries(r.kind)
Homeless(r) == Len(r.path) > 1 /\ Parent(r.path) \notin DOMAIN namespaces
Accepts(r) == ~Taken(r) /\ ~Homeless(r)

Entered(entries, r) == [p \in DOMAIN entries \cup {r.path} |-> IF p = r.path THEN r.by ELSE entries[p]]

Enter(r) ==
    /\ namespaces' = IF r.kind = "namespace" THEN Entered(namespaces, r) ELSE namespaces
    /\ tables' = IF r.kind = "table" THEN Entered(tables, r) ELSE tables
    /\ created' = created \cup {r}
    /\ UNCHANGED <<dropped, lost>>

-----------------------------------------------------------------------------
(* The calls of a session.                                                  *)

\* What the session asks the catalog to make.
Request(s) ==
    LET c == call[s]
    IN  [kind |-> IF at[s] = "entry" THEN "table" ELSE "namespace",
         path |-> Prefix(asked[c].path, level[c]),
         by |-> c]

Finish(s, answer) ==
    /\ at' = [at EXCEPT ![s] = "R"] /\ call' = [call EXCEPT ![s] = Nobody]
    /\ result' = [result EXCEPT ![call[s]] = answer]
    /\ there' = [there EXCEPT ![call[s]] = asked[call[s]].path \in DOMAIN tables]
    /\ UNCHANGED <<asked, level>>

Start(s, c, op, path, await, n) ==
    /\ at[s] = "R" /\ result[c] = "new"
    /\ at' = [at EXCEPT ![s] = await] /\ call' = [call EXCEPT ![s] = c]
    /\ asked' = [asked EXCEPT ![c] = [op |-> op, path |-> path]]
    /\ level' = [level EXCEPT ![c] = n]
    /\ result' = [result EXCEPT ![c] = "running"]
    /\ UNCHANGED <<catalog, late, there>>

\* BUG: the last parent is forgotten.
parents_short(path) == Len(path) - 2

\* How many levels are looked for and filled in before the leaf is made.
parents(path) == Len(path) - 1

\* The next of the parents, or the leaf.
Walk(path, n) ==
    IF n <= parents(path) THEN [await |-> "check", level |-> n]
    ELSE [await |-> "leaf", level |-> Len(path)]

BeginNamespace(s, c, spelling) ==
    LET path == as_namespace(spelling)
    IN  /\ path # <<>>
        /\ Start(s, c, "create_namespace", path, Walk(path, 1).await, Walk(path, 1).level)

BeginTable(s, c, op, spelling) ==
    LET path == parse_identifier(spelling).parts
        await == CASE op = "table_exists" -> "exists"
                   [] op = "table"        -> "open"
                   [] OTHER               -> "entry"
    IN  /\ Len(path) >= 2
        /\ Start(s, c, op, path, await, Len(path))

\* A file that is in no warehouse is registered if the caller says so, or if
\* there is no directory that it could be in.
may_register(file, confine) ==
    /\ file # "nowhere"
    /\ confine /\ LocalWarehouse => file = "inside"

BeginRegister(s, c, spelling, file, confine) ==
    /\ may_register(file, confine)
    /\ BeginTable(s, c, "register_table", spelling)

\* R's own checks: nothing is sent.
RefuseName(s, c, op, spelling) ==
    /\ at[s] = "R" /\ result[c] = "new"
    /\ IF op = "create_namespace" THEN as_namespace(spelling) = <<>>
       ELSE Len(parse_identifier(spelling).parts) < 2
    /\ result' = [result EXCEPT ![c] = "invalid"]
    /\ UNCHANGED <<catalog, late, at, call, asked, level, there>>

RefuseFile(s, c, spelling, file, confine) ==
    /\ at[s] = "R" /\ result[c] = "new"
    /\ Len(parse_identifier(spelling).parts) >= 2
    /\ ~may_register(file, confine)
    /\ result' = [result EXCEPT ![c] = "invalid"]
    /\ UNCHANGED <<catalog, late, at, call, asked, level, there>>

NextParent(s) ==
    LET c == call[s]
        next == Walk(asked[c].path, level[c] + 1)
    IN  /\ at' = [at EXCEPT ![s] = next.await]
        /\ level' = [level EXCEPT ![c] = next.level]
        /\ UNCHANGED <<call, asked, result, there>>

ParentExists(s) ==
    /\ at[s] = "check"
    /\ Request(s).path \in DOMAIN namespaces
    /\ NextParent(s)
    /\ UNCHANGED <<catalog, late>>

ParentMissing(s) ==
    /\ at[s] = "check"
    /\ Request(s).path \notin DOMAIN namespaces
    /\ at' = [at EXCEPT ![s] = "parent"]
    /\ UNCHANGED <<catalog, late, call, asked, level, result, there>>

CreateParent(s) ==
    /\ at[s] = "parent" /\ Accepts(Request(s))
    /\ Enter(Request(s))
    /\ NextParent(s)
    /\ UNCHANGED late

\* BUG: that the namespace is there already is success.
CreateNamespaceQuietly(s) ==
    /\ at[s] = "leaf" /\ ~Homeless(Request(s))
    /\ IF Taken(Request(s)) THEN UNCHANGED catalog ELSE Enter(Request(s))
    /\ Finish(s, "ok")
    /\ UNCHANGED late

CreateNamespace(s) ==
    /\ at[s] = "leaf" /\ Accepts(Request(s))
    /\ Enter(Request(s))
    /\ Finish(s, "ok")
    /\ UNCHANGED late

CreateTable(s) ==
    /\ at[s] = "entry" /\ Accepts(Request(s))
    /\ Enter(Request(s))
    /\ Finish(s, "ok")
    /\ UNCHANGED late

Refused(s) ==
    /\ at[s] \in {"parent", "leaf", "entry"} /\ ~Accepts(Request(s))
    /\ Finish(s, IF Homeless(Request(s)) THEN "missing" ELSE "taken")
    /\ UNCHANGED <<catalog, late>>

\* A table of a namespace that is not there is not there.
TableExists(s) ==
    /\ at[s] = "exists"
    /\ Finish(s, IF Request(s).path \in DOMAIN tables THEN "yes" ELSE "no")
    /\ UNCHANGED <<catalog, late>>

OpenTable(s) ==
    /\ at[s] = "open"
    /\ Finish(s, IF Request(s).path \in DOMAIN tables THEN "ok" ELSE "missing")
    /\ UNCHANGED <<catalog, late>>

\* The catalog cannot be reached, its answer is lost, block_on() gives up or
\* R dies: whatever was sent may still arrive.
Break(s) ==
    /\ at[s] \in Awaits
    /\ late' = IF at[s] \in {"parent", "leaf", "entry"} THEN late \cup {Request(s)} ELSE late
    /\ Finish(s, "broken")
    /\ UNCHANGED catalog

Arrive(r) ==
    /\ r \in late
    /\ late' = late \ {r}
    /\ IF Accepts(r) THEN Enter(r) ELSE UNCHANGED catalog
    /\ UNCHANGED calls

Vanish(r) ==
    /\ r \in late
    /\ late' = late \ {r}
    /\ UNCHANGED <<catalog, calls>>

-----------------------------------------------------------------------------
(* Other engines.                                                           *)

EngineMakes(kind, path, e) ==
    LET r == [kind |-> kind, path |-> path, by |-> e]
    IN  /\ \A made \in created : made.by # e
        /\ Accepts(r) /\ Enter(r)
        /\ UNCHANGED <<late, calls>>

\* The levels a walk has found or made, and left behind.
Past(c) ==
    {Prefix(asked[c].path, n) :
       n \in {m \in 1..(level[c] - 1) : result[c] = "running" /\ asked[c].op = "create_namespace"}}

EngineDrops(kind, path) ==
    /\ path \in DOMAIN Entries(kind)
    /\ kind = "namespace" =>
         \A child \in DOMAIN namespaces \cup DOMAIN tables : Len(child) > 1 => Parent(child) # path
    /\ namespaces' = [p \in DOMAIN namespaces \ {q \in {path} : kind = "namespace"} |-> namespaces[p]]
    /\ tables' = [p \in DOMAIN tables \ {q \in {path} : kind = "table"} |-> tables[p]]
    /\ dropped' = dropped \cup {[kind |-> kind, path |-> path]}
    /\ lost' = [c \in Calls |-> lost[c] \cup {q \in {path} \cap Past(c) : kind = "namespace"}]
    /\ UNCHANGED <<created, late, calls>>

\* Other engines may have levels that no name in R can spell, which no call
\* here comes near.
Paths == {parse_identifier(x).parts : x \in Spellings} \ {<<>>}

Next ==
    \/ \E s \in Sessions, c \in Calls, x \in Spellings :
         \/ BeginNamespace(s, c, x)
         \/ \E op \in {"create_table", "table_exists", "table"} : BeginTable(s, c, op, x)
         \/ \E file \in {"inside", "outside", "nowhere"}, confine \in BOOLEAN :
              BeginRegister(s, c, x, file, confine) \/ RefuseFile(s, c, x, file, confine)
         \/ \E op \in Operations : RefuseName(s, c, op, x)
    \/ \E s \in Sessions :
         \/ ParentExists(s) \/ ParentMissing(s) \/ CreateParent(s) \/ CreateNamespace(s)
         \/ CreateTable(s) \/ Refused(s) \/ TableExists(s) \/ OpenTable(s) \/ Break(s)
    \/ \E r \in late : Arrive(r) \/ Vanish(r)
    \/ \E kind \in {"namespace", "table"}, p \in Paths :
         \/ EngineDrops(kind, p)
         \/ \E e \in Engines : EngineMakes(kind, p, e)

Spec == Init /\ [][Next]_vars

-----------------------------------------------------------------------------
(* Properties.                                                              *)

MadeBy(c, kind, path) == [kind |-> kind, path |-> path, by |-> c] \in created
Kind(c) == IF asked[c].op = "create_namespace" THEN "namespace" ELSE "table"
Makes(c) == asked[c].op \in {"create_namespace", "create_table", "register_table"}

TypeOK ==
    /\ at \in [Sessions -> Awaits \cup {"R"}] /\ call \in [Sessions -> Calls \cup {Nobody}]
    /\ result \in [Calls -> Results] /\ there \in [Calls -> BOOLEAN]
    /\ \A c \in Calls : asked[c].op \in Operations /\ level[c] \in 0..Len(asked[c].path)
    /\ \A s \in Sessions : at[s] # "R" <=> call[s] # Nobody
    /\ \A r \in created : r.by \in Calls \cup Engines
    /\ \A r \in late : r.by \in Calls /\ r.path # <<>>

\* The walk of icebergr_create_namespace() never fails by its own doing: if
\* what it came to was taken then another made it, and if a parent was
\* missing then another dropped it after this walk had found or made it.
WalkRefusedByOthers ==
    \A c \in Calls :
      asked[c].op = "create_namespace" =>
        LET came == Prefix(asked[c].path, level[c])
        IN  /\ result[c] = "taken" => \E r \in created : r.kind = "namespace" /\ r.path = came /\ r.by # c
            /\ result[c] = "missing" => Parent(came) \in lost[c]

\* What a call says is so.  Success is the making of exactly what was asked
\* for, by this call and no other that still stands; a refusal is final; the
\* answer to whether a table exists was true when it came; and a call that
\* broke off made nothing but parents, or what was asked for.
OutcomesAreTrue ==
    \A c \in Calls :
      /\ result[c] = "ok" /\ Makes(c) => MadeBy(c, Kind(c), asked[c].path)
      /\ result[c] \in {"invalid", "taken", "missing"} =>
           /\ ~MadeBy(c, Kind(c), asked[c].path)
           /\ \A r \in late : r.by # c
      /\ result[c] = "yes" => there[c]
      /\ result[c] = "no" => ~there[c]
      /\ \A r \in created : r.by = c => Makes(c) /\ \E n \in 1..Len(asked[c].path) : r.path = Prefix(asked[c].path, n)
      /\ \A d \in Calls \ {c} :
           /\ result[c] = "ok" /\ result[d] = "ok" /\ Makes(c) /\ Makes(d)
           /\ Kind(c) = Kind(d) /\ asked[c].path = asked[d].path
           => [kind |-> Kind(c), path |-> asked[c].path] \in dropped

\* A namespace that was made can be named again: as the beginning of a
\* table's name it is read as the namespace that it is.
NamespacesCanBeNamed ==
    \A p \in DOMAIN namespaces : \A l \in Levels : parse_identifier(Append(p, l)).namespace = p
=============================================================================
