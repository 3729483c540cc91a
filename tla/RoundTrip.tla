------------------------------- MODULE RoundTrip -------------------------------
(***************************************************************************)
(* A value's way into a table and out again.  align_batch() puts the        *)
(* columns of a data frame under the table's names and casts them to its    *)
(* types (write.rs); the cells come back as R values (R/arrow-bridge.R),    *)
(* and what was read may be the value of a filter on its own column         *)
(* (Literals).                                                              *)
(*                                                                          *)
(* A data frame is one row: a column is cast cell by cell, and refused for  *)
(* any of them.  What R's vectors are as Arrow's, and Arrow's as R's, is    *)
(* nanoarrow's; the cast is arrow_cast's.                                   *)
(***************************************************************************)
EXTENDS Literals, Sequences

CONSTANTS
    Null,           \* a cell without a value
    Appends         \* data frames and the tables that they are appended to

\* A table's schema names each column once (Iceberg), a double holds every
\* 32-bit integer, and what is missing or infinite is no cell's value.
ASSUME CellsAssumption ==
    /\ {Null, Infinite} \cap (Int \cup Texts) = {} /\ Null # Infinite
    /\ \A n \in Int32 : n * Grid \in Doubles
    /\ \A a \in Appends :
         /\ a.data \in Seq([name : STRING, value : Values])
         /\ a.table \in Seq([name : STRING, type : Types, required : BOOLEAN])
         /\ \A i, j \in DOMAIN a.table : a.table[i].name = a.table[j].name => i = j

VARIABLES
    data,           \* a data frame: its columns' names and values
    table,          \* a table: its columns' names, types and requirements
    cells,          \* what was written, under the table's names
    bit64,          \* the package is installed
    read            \* the cell that `value` was read from, or <<>>

rvars == <<vars, data, table, cells, bit64, read>>

Names(columns) == {columns[i].name : i \in DOMAIN columns}

\* By name; the first, where two share it.
Named(columns, name) ==
    columns[CHOOSE i \in DOMAIN columns :
              columns[i].name = name /\ \A j \in 1..(i - 1) : columns[j].name # name]

\* A NaN is written as a null.
Absent(v) == v.class \in {"NA", "NaN"}

-----------------------------------------------------------------------------
(* External: the cells that a value may become.                             *)

\* A number that has a cell of its own gets it, and another one next to it.
Near(v, ty) == {c \in Cells(ty) : Distance(c * Grid, v.x * Unit(ty)) < Grid}

\* R's times are microseconds before they are nanoseconds.
AtTime(v, ty) ==
    Cells(ty) \cap {(t * Unit(ty)) \div Micros : t \in Near(v, Typed("timestamptz"))}

Closest(S, x) == {y \in S : \A z \in S : Distance(x, y) <= Distance(x, z)}

arrow_cast(v, ty) ==
    IF Counts(v, ty) /\ ty.name \in {"float", "double"} THEN Closest(Cells(ty), v.x)
    ELSE IF Counts(v, ty) \/ Dates(v, ty) THEN Near(v, ty)
    ELSE IF Instants(v, ty) THEN AtTime(v, ty)
    ELSE { x \in {v.x} : \/ v.class = "double" /\ ty.name \in {"float", "double"}
                         \/ v.class = "logical" /\ ty.name = "boolean" }
           \cup {t \in {v} \cap Texts : ty.name = "string"}

-----------------------------------------------------------------------------
(* align_batch().                                                           *)

repeated == \E i, j \in DOMAIN data : i # j /\ data[i].name = data[j].name

unexpected == Names(data) \ Names(table)

missing == Names(table) \ Names(data)

\* BUG: the cast is a safe one, and writes a null for what does not fit.
cast_safe(v, ty) ==
    IF Absent(v) \/ arrow_cast(v, ty) = {} THEN {Null} ELSE arrow_cast(v, ty)

\* What does not fit has no cell.
cast(v, ty) == IF Absent(v) THEN {Null} ELSE arrow_cast(v, ty)

\* A required column takes no null.
column(field) ==
    {c \in cast(Named(data, field.name).value, field.type) : field.required => c # Null}

aligned ==
    /\ ~repeated /\ unexpected = {} /\ missing = {}
    /\ \A i \in DOMAIN table : column(table[i]) # {}

Align ==
    /\ stage = "data" /\ aligned
    /\ cells' \in {cs \in [Names(table) -> UNION {column(table[i]) : i \in DOMAIN table}] :
                     \A i \in DOMAIN table : cs[table[i].name] \in column(table[i])}
    /\ stage' = "written"
    /\ UNCHANGED <<value, type, json, literal, data, table, bit64, read>>

RefuseData ==
    /\ stage = "data" /\ ~aligned
    /\ stage' = "declined"
    /\ UNCHANGED <<value, type, json, literal, data, table, cells, bit64, read>>

-----------------------------------------------------------------------------
(* collect_stream().                                                        *)

\* The doubles nearest to a cell.
AsDouble(c, ty) ==
    {x \in Doubles : \A y \in Doubles :
       Distance(x * Unit(ty), c * Grid) <= Distance(y * Unit(ty), c * Grid)}

\* The least integer's bits are those of R's NA.
Integer(class, c, least) == IF c = least THEN Of("NA", 0) ELSE Of(class, c * Grid)

\* BUG: nanoarrow is left to its default.
int64_ptype_default(installed) == "double"

\* What a column of longs is asked for as.
int64_ptype(installed) == IF installed THEN "integer64" ELSE "double"

convert(c, ty, installed) ==
    IF c = Null THEN {Of("NA", 0)}
    ELSE IF c = Infinite THEN {Of("double", c)}
    ELSE CASE ty.name = "int"       -> {Integer("integer", c, -(MaxInt + 1))}
           [] ty.name = "long" /\ int64_ptype(installed) = "integer64"
                                    -> {Integer("integer64", c, -(MaxLong + 1))}
           [] ty.name = "date"      -> {Of("Date", c * Grid)}
           [] ty.name \in Timestamps -> {Of("POSIXct", x) : x \in AsDouble(c, ty)}
           [] ty.name = "boolean"   -> {Of("logical", c)}
           [] ty.name = "string"    -> {c}
           [] OTHER                 -> {Of("double", x) : x \in AsDouble(c, ty)}

\* What is read of a column becomes the value of a filter on that column.
Read(name) ==
    /\ stage = "written"
    /\ bit64' \in BOOLEAN
    /\ type' = Named(table, name).type
    /\ value' \in convert(cells[name], type', bit64')
    /\ read' = <<cells[name]>>
    /\ stage' = "R"
    /\ UNCHANGED <<json, literal, data, table, cells>>

\* A filter's value comes from R, or from a table that it was appended to.
RInit ==
    /\ cells = <<>> /\ bit64 = FALSE /\ read = <<>>
    /\ \/ Init /\ data = <<>> /\ table = <<>>
       \/ /\ \E a \in Appends : data = a.data /\ table = a.table
          /\ stage = "data"
          /\ value = Of("NA", 0) /\ type = Typed("string") /\ json = value /\ literal = 0

RNext ==
    \/ Align \/ RefuseData
    \/ \E name \in Names(table) : Read(name)
    \/ Next /\ UNCHANGED <<data, table, cells, bit64, read>>

RSpec == RInit /\ [][RNext]_rvars

-----------------------------------------------------------------------------
Given(field) == {data[i].value : i \in {j \in DOMAIN data : data[j].name = field.name}}

\* What fits a column: a null unless it is required, or a value that is the
\* column's or has a cell beside it.
Fits(v, field) == IF Absent(v) THEN ~field.required ELSE arrow_cast(v, field.type) # {}

\* An append writes what its caller gave: each column under its own name,
\* nulls where it had none and nowhere else, a number that the column can
\* hold as that number and no column of the data left out.  One that cannot
\* do so writes nothing, and no other is refused.
WrittenAsGiven ==
    /\ stage = "written" =>
         /\ Names(data) = Names(table) /\ Len(data) = Len(table)
         /\ \A i \in DOMAIN table : \A v \in Given(table[i]) :
              LET c == cells[table[i].name]
                  ty == table[i].type
              IN  /\ c = Null <=> Absent(v)
                  /\ c = Null => ~table[i].required
                  /\ Counts(v, ty) => c \in Near(v, ty) \/ c \in Closest(Cells(ty), v.x)
    /\ stage = "declined" =>
         \/ Names(data) # Names(table) \/ Len(data) # Len(table)
         \/ \E i \in DOMAIN table : \E v \in Given(table[i]) : ~Fits(v, table[i])

\* Whether R's type for a column tells a cell from the others: longs are
\* exact with bit64 only, times as long as doubles are finer than
\* microseconds, decimals as long as they have a double of their own.
Told(c, ty) ==
    CASE ty.name = "long"                           -> bit64
      [] ty.name \in {"timestamp", "timestamptz"}   ->
           \A x \in AsDouble(c, ty) : 2 * Distance(x * Unit(ty), c * Grid) < Grid
      [] ty.name = "decimal"                        ->
           \E x \in Doubles : x * Unit(ty) = c * Grid
      [] OTHER                                      -> ty.name \notin Timestamps

\* A value that was read from a table, put into a filter on its own column,
\* is the cell it was read from; or it is refused, because it is missing or
\* infinite, nothing that a date or a time can spell, past the nanoseconds of
\* 64 bits, or a number that R does not tell from the next.
CellsFilterToThemselves ==
    /\ stage = "built" /\ read # <<>> =>
         (Told(read[1], type) => literal = read[1])
    /\ stage = "refused" /\ read # <<>> /\ ~Absent(value) /\ value.x # Infinite =>
         \/ type.name = "date" /\ read[1] \notin Calendar
         \/ type.name \in Timestamps /\ iso_utc(value.x) \notin Clock
         \/ type.name \in {"timestamp_ns", "timestamptz_ns"} /\ iso_utc(value.x) * Nanos \notin Int64
         \/ type.name \in {"long", "decimal"} /\ ~Told(read[1], type)
=============================================================================
