------------------------------- MODULE Literals -------------------------------
(***************************************************************************)
(* What becomes of the value in `column > value`.  json_scalar() writes it  *)
(* as JSON (R/filter.R), and datum() reads that as a literal of the         *)
(* column's own type or refuses it (predicate.rs).  A literal that is not   *)
(* the value that was written answers another question without a word.      *)
(*                                                                          *)
(* Numbers are whole numbers of ticks, Grid of which are 1, so that a       *)
(* number may have a fraction; a double is the number that its shortest     *)
(* spelling gives, and a literal is in the unit of its column.  A           *)
(* string is what parsing it would find: a numeral, a day, an instant with  *)
(* or without a zone, or words.                                             *)
(***************************************************************************)
EXTENDS Integers

CONSTANTS
    Ten,            \* the powers of ten
    Places,         \* decimal places of a tick
    Doubles,        \* the finite doubles
    Singles,        \* the finite 32-bit floats
    MaxInt,         \* 2^31 - 1
    MaxLong,        \* 2^63 - 1
    Micros,         \* microseconds of a second
    Nanos,          \* nanoseconds of a microsecond
    Calendar,       \* the days that a date can spell
    Clock,          \* the microseconds that an instant can spell
    Precision,      \* digits of a decimal column
    Scales,         \* decimal places of decimal columns
    Numerals,       \* the numbers that character values spell
    Infinite        \* what no number is

MaxPlaces == IF Precision > Places THEN Precision ELSE Places

ASSUME TenAssumption ==
    /\ Places \in Nat /\ Precision \in Nat /\ Scales \subseteq 0..Precision
    /\ Ten \in [0..MaxPlaces -> Nat \ {0}]
    /\ Ten[0] = 1
    /\ \A i, j \in 0..MaxPlaces : i + j \in 0..MaxPlaces => Ten[i + j] = Ten[i] * Ten[j]

ASSUME NumbersAssumption ==
    /\ Doubles \subseteq Int /\ Numerals \subseteq Int /\ Infinite \notin Int
    /\ Singles \subseteq Doubles /\ Singles # {}
    /\ MaxInt \in Nat /\ MaxLong \in Nat /\ MaxInt <= MaxLong
    /\ Calendar \subseteq -MaxInt..MaxInt /\ Clock \subseteq -MaxLong..MaxLong
    /\ Micros \in Nat \ {0} /\ Nanos \in Nat \ {0}

VARIABLES
    value,          \* what the filter compares a column with
    type,           \* that column's type
    stage,          \* how far it has come
    json,           \* as JSON
    literal         \* as the literal that Rust built

vars == <<value, type, stage, json, literal>>

Grid == Ten[Places]

Int32 == -(MaxInt + 1)..MaxInt
Int64 == -(MaxLong + 1)..MaxLong

Typed(name) == [name |-> name, scale |-> 0]

Types ==
    {Typed(name) : name \in {"boolean", "int", "long", "float", "double", "date",
                             "timestamp", "timestamptz", "timestamp_ns", "timestamptz_ns",
                             "string", "time"}}
      \cup {[name |-> "decimal", scale |-> s] : s \in Scales}

\* A numeral spells a number with at least the decimal places that it needs.
Spells(x, p) == (x * Ten[p]) % Grid = 0

Of(class, x) == [class |-> class, x |-> x, places |-> 0]

Texts ==
    {t \in {[class |-> "numeral", x |-> x, places |-> p] : x \in Numerals, p \in 0..Places} :
       Spells(t.x, t.places)}
      \cup {Of("day", n) : n \in Calendar}
      \cup {Of(class, n) : class \in {"instant", "naive"}, n \in Clock}
      \cup {Of("words", 0)}

Values ==
    {Of(class, x) : class \in {"double", "Date", "POSIXct"}, x \in Doubles \cup {Infinite}}
      \cup {Of("integer", n * Grid) : n \in Int32}
      \cup {Of("integer64", n * Grid) : n \in Int64}
      \cup Texts
      \cup {Of("logical", b) : b \in {0, 1}}
      \cup {Of("NA", 0), Of("NaN", 0)}

Init ==
    /\ value \in Values /\ type \in Types
    /\ stage = "R"
    /\ json = Of("NA", 0) /\ literal = 0

-----------------------------------------------------------------------------
(* json_scalar().                                                           *)

\* a / b to the nearest whole number, and to the even one between two.
Rounded(a, b) ==
    LET below == a \div b
        rest == a % b
    IN  IF 2 * rest < b \/ (2 * rest = b /\ below % 2 = 0) THEN below ELSE below + 1

\* The instant of x seconds in microseconds.
iso_utc(x) == Rounded(x * Micros, Grid)

json_scalar(v) ==
    CASE v.class \in {"double", "integer"} -> Of("number", v.x)
      [] v.class = "integer64"             -> Of("numeral", v.x)
      [] v.class = "Date"                  -> Of("day", v.x \div Grid)
      [] v.class = "POSIXct"               -> Of("instant", iso_utc(v.x))
      [] OTHER                             -> v

\* JSON has no token for these.
written(v) == v.class \notin {"NA", "NaN"} /\ v.x # Infinite

-----------------------------------------------------------------------------
(* datum().  Each is the set of the literals a JSON value is read as: one,  *)
(* or none when it is refused.                                              *)

whole(x) == x % Grid = 0

\* A number, or digits alone.
spells_long(j) == j.class = "number" \/ (j.class = "numeral" /\ j.places = 0)

\* BUG: a double past the range is clamped to it, as `f as i64` does.
as_i64_saturating(j) ==
    {IF n > MaxLong THEN MaxLong ELSE n : n \in {m \in {j.x \div Grid} : whole(j.x) /\ spells_long(j)}}

\* A whole number of 64 bits.
as_i64(j) == {n \in {j.x \div Grid} : n \in Int64 /\ whole(j.x) /\ spells_long(j)}

as_f64(j) == {x \in {j.x} : j.class = "number"}

\* Rounding to 32 bits takes one of the nearest; which one of two is left open.
Distance(x, y) == IF x < y THEN y - x ELSE x - y
Nearest(x) == {s \in Singles : \A t \in Singles : Distance(s, x) <= Distance(t, x)}

\* The decimal places that a number needs.
shortest(x) ==
    {p \in 0..Places : Spells(x, p) /\ \A q \in 0..Places : Spells(x, q) => p <= q}

\* BUG: a number below 1 is spelt with an exponent, which is then refused.
decimal_places_serde(j) ==
    CASE j.class = "numeral" -> {j.places}
      [] j.class = "number"  -> {p \in shortest(j.x) : p = 0 \/ Distance(j.x, 0) >= Grid}
      [] OTHER               -> {}

\* The decimal places that a number is written out with.
decimal_places(j) ==
    CASE j.class = "numeral" -> {j.places}
      [] j.class = "number"  -> shortest(j.x)
      [] OTHER               -> {}

\* The digits of a number of p places, filled or cut to `scale` of them.
\* Only zeros are cut.
rescale_decimal(x, p, scale) ==
    LET digits == (x * Ten[p]) \div Grid
    IN  IF p <= scale THEN {digits * Ten[scale - p]}
        ELSE {m \in {digits \div Ten[p - scale]} : digits % Ten[p - scale] = 0}

decimal(j, scale) ==
    {m \in UNION {rescale_decimal(j.x, p, scale) : p \in decimal_places(j)} :
       Distance(m, 0) < Ten[Precision]}

\* The instant a string gives: a day gives none, and a zone is needed where
\* the column has one.
instant(j, zoned) ==
    {t \in {j.x} \cap Clock : j.class = "instant" \/ (j.class = "naive" /\ ~zoned)}

nanos(j, zoned) == {t \in {s * Nanos : s \in instant(j, zoned)} : t \in Int64}

\* Numbers are taken for what the column stores.
stored(j) == IF j.class = "number" THEN as_i64(j) ELSE {}

datum(j, ty) ==
    CASE ty.name = "boolean"        -> {b \in {j.x} : j.class = "logical"}
      [] ty.name = "int"            -> as_i64(j) \cap Int32
      [] ty.name = "long"           -> as_i64(j)
      [] ty.name = "float"          -> UNION {Nearest(x) : x \in as_f64(j)}
      [] ty.name = "double"         -> as_f64(j)
      [] ty.name = "date"           -> {d \in {j.x} \cap Calendar : j.class = "day"} \cup (stored(j) \cap Int32)
      [] ty.name = "timestamp"      -> instant(j, FALSE) \cup stored(j)
      [] ty.name = "timestamptz"    -> instant(j, TRUE) \cup stored(j)
      [] ty.name = "timestamp_ns"   -> nanos(j, FALSE) \cup stored(j)
      [] ty.name = "timestamptz_ns" -> nanos(j, TRUE) \cup stored(j)
      [] ty.name = "string"         -> {j} \cap Texts
      [] ty.name = "decimal"        -> decimal(j, ty.scale)
      [] OTHER                      -> {}

-----------------------------------------------------------------------------
Encode ==
    /\ stage = "R" /\ written(value)
    /\ json' = json_scalar(value)
    /\ stage' = "JSON"
    /\ UNCHANGED <<value, type, literal>>

RefuseValue ==
    /\ stage = "R" /\ ~written(value)
    /\ stage' = "refused"
    /\ UNCHANGED <<value, type, json, literal>>

Build ==
    /\ stage = "JSON"
    /\ literal' \in datum(json, type)
    /\ stage' = "built"
    /\ UNCHANGED <<value, type, json>>

RefuseLiteral ==
    /\ stage = "JSON" /\ datum(json, type) = {}
    /\ stage' = "refused"
    /\ UNCHANGED <<value, type, json, literal>>

Next == Encode \/ RefuseValue \/ Build \/ RefuseLiteral

Spec == Init /\ [][Next]_vars

-----------------------------------------------------------------------------
(* What the value means.                                                    *)

Timestamps == {"timestamp", "timestamptz", "timestamp_ns", "timestamptz_ns"}

\* How many of the column's units are 1, or one second.
Unit(ty) ==
    CASE ty.name \in {"float", "double"}                -> Grid
      [] ty.name = "decimal"                            -> Ten[ty.scale]
      [] ty.name \in {"timestamp", "timestamptz"}       -> Micros
      [] ty.name \in {"timestamp_ns", "timestamptz_ns"} -> Micros * Nanos
      [] OTHER                                          -> 1

\* The cells that a column of a type may have.
Cells(ty) ==
    CASE ty.name = "boolean"                -> {0, 1}
      [] ty.name \in {"int", "date"}        -> Int32
      [] ty.name = "float"                  -> Singles
      [] ty.name = "double"                 -> Doubles
      [] ty.name = "decimal"                -> -(Ten[Precision] - 1)..(Ten[Precision] - 1)
      [] ty.name = "string"                 -> Texts
      [] OTHER                              -> Int64

Exact(lit, v, ty) == lit * Grid = v.x * Unit(ty)

\* R's numbers against the columns that hold numbers.
Counts(v, ty) ==
    /\ v.class \in {"double", "integer", "integer64"} /\ v.x # Infinite
    /\ ty.name \in {"int", "long", "float", "double", "decimal"}

Dates(v, ty) == v.class = "Date" /\ v.x # Infinite /\ ty.name = "date"
Instants(v, ty) == v.class = "POSIXct" /\ v.x # Infinite /\ ty.name \in Timestamps

-----------------------------------------------------------------------------
\* A literal is the number that R's caller wrote, in the unit and at the
\* scale of the column: never clamped, wrapped, cut or at another scale.  A
\* float column takes a nearest float, a timestamp a nearest microsecond and
\* a date the day that a time falls in.
LiteralIsTheValue ==
    stage = "built" =>
      /\ Counts(value, type) =>
           IF type.name = "float" THEN literal \in Nearest(value.x) ELSE Exact(literal, value, type)
      /\ Dates(value, type) => literal * Grid <= value.x /\ value.x < (literal + 1) * Grid
      /\ Instants(value, type) =>
           2 * Micros * Distance(literal * Grid, value.x * Unit(type)) <= Grid * Unit(type)
      /\ type.name = "decimal" => Exact(literal, value, type)
      /\ type.name = "string" /\ value \in Texts => literal = value

\* A number that some cell of the column may equal is not refused, however
\* large or small and however R writes it, unless it is an integer64 and the
\* column one of doubles.
RefusedForAReason ==
    stage = "refused" =>
      /\ Counts(value, type) /\ (value.class = "integer64" => type.name \notin {"float", "double"}) =>
           \A c \in Cells(type) : ~Exact(c, value, type)
      /\ Dates(value, type) => value.x \div Grid \notin Calendar
      /\ Instants(value, type) /\ iso_utc(value.x) \in Clock =>
             Unit(type) # Micros /\ iso_utc(value.x) * Nanos \notin Int64
      /\ type.name = "string" => value \notin Texts

\* What the documentation of icebergr_scan() says: a filter keeps the rows
\* that R's own evaluation of it would keep.  So a cell compares with the
\* literal as it does with the value in R.
ComparesAsInR ==
    stage = "built" /\ (Counts(value, type) \/ Dates(value, type) \/ Instants(value, type)) =>
      \A c \in Cells(type) :
        /\ c < literal <=> c * Grid < value.x * Unit(type)
        /\ c = literal <=> c * Grid = value.x * Unit(type)
=============================================================================
