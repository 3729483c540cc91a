---------------------------- MODULE RoundTripProofs ----------------------------
(***************************************************************************)
(* What holds of values, literals and cells for numbers of any width, any   *)
(* calendar and clock, and data frames and tables of any size.              *)
(*                                                                         *)
(* The states are shallow and the arithmetic is not: the invariant says of  *)
(* each stage which function of R's value it holds, and the lemmas before   *)
(* it say what these functions do to numbers.                               *)
(***************************************************************************)
EXTENDS RoundTrip, TLAPS, FiniteSetTheorems, NaturalsInduction, WellFoundedInduction

-----------------------------------------------------------------------------
(* Numbers.                                                                 *)

LEMMA Tens ==
    /\ Grid \in Nat \ {0}
    /\ \A p \in 0..MaxPlaces : Ten[p] \in Nat \ {0}
    /\ 0..Places \subseteq 0..MaxPlaces /\ 0..Precision \subseteq 0..MaxPlaces
  BY TenAssumption DEF Grid, MaxPlaces

\* What a product by a number that is not 0 says of the factors.
LEMMA Cancel ==
    ASSUME NEW a \in Int, NEW b \in Int, NEW n \in Nat \ {0}
    PROVE  /\ a * n = b * n <=> a = b
           /\ a * n <= b * n <=> a <= b
           /\ a * n < b * n <=> a < b
  <1>1. CASE a < b
    <2>1. a * n + (b - a) * n = b * n  OBVIOUS
    <2>2. (b - a) * n > 0  BY <1>1
    <2>. QED  BY <1>1, <2>1, <2>2
  <1>2. CASE a > b
    <2>1. b * n + (a - b) * n = a * n  OBVIOUS
    <2>2. (a - b) * n > 0  BY <1>2
    <2>. QED  BY <1>2, <2>1, <2>2
  <1>3. CASE a = b  BY <1>3
  <1>. QED  BY <1>1, <1>2, <1>3

\* Division with the rest.
LEMMA Divided ==
    ASSUME NEW x \in Int, NEW n \in Nat \ {0}
    PROVE  /\ x \div n \in Int /\ x % n \in 0..(n - 1)
           /\ x = (x \div n) * n + (x % n)
  OBVIOUS

\* What divides has no rest.
LEMMA Multiple ==
    ASSUME NEW a \in Int, NEW n \in Nat \ {0}
    PROVE  (a * n) % n = 0 /\ (a * n) \div n = a
  <1>. DEFINE q == (a * n) \div n
              r == (a * n) % n
  <1>0. a * n \in Int  OBVIOUS
  <1>1. q \in Int /\ r \in 0..(n - 1) /\ a * n = q * n + r  BY <1>0, Divided
  <1>. HIDE DEF q, r
  <1>2. q * n <= a * n /\ a * n < q * n + n  BY <1>1
  <1>3. q <= a  BY <1>1, <1>2, Cancel
  <1>4. (q + 1) * n = q * n + n  BY <1>1
  <1>5. a < q + 1  BY <1>1, <1>2, <1>4, Cancel
  <1>6. a = q  BY <1>1, <1>3, <1>5
  <1>7. r = 0  BY <1>1, <1>6
  <1>. QED  BY <1>6, <1>7 DEF q, r

\* How far it is from x to y.
LEMMA Distances ==
    ASSUME NEW x \in Int, NEW y \in Int
    PROVE  /\ Distance(x, y) \in Nat
           /\ Distance(x, y) = Distance(y, x)
           /\ Distance(x, y) = 0 <=> x = y
           /\ \A d \in Int : Distance(x, y) <= d <=> x - y <= d /\ y - x <= d
           /\ \A d \in Int : Distance(x, y) < d <=> x - y < d /\ y - x < d
  BY DEF Distance

LEMMA DistanceScaled ==
    ASSUME NEW x \in Int, NEW y \in Int, NEW n \in Nat \ {0}
    PROVE  Distance(x * n, y * n) = Distance(x, y) * n
  <1>1. x * n < y * n <=> x < y  BY Cancel
  <1>2. x * n \in Int /\ y * n \in Int  OBVIOUS
  <1>3. y * n - x * n = (y - x) * n /\ x * n - y * n = (x - y) * n  OBVIOUS
  <1>. QED  BY <1>1, <1>2, <1>3 DEF Distance

\* Rounding goes no further than halfway.
LEMMA RoundedIsNear ==
    ASSUME NEW a \in Int, NEW b \in Nat \ {0}
    PROVE  /\ Rounded(a, b) \in Int
           /\ 2 * Distance(Rounded(a, b) * b, a) <= b
  <1>. DEFINE q == a \div b
              r == a % b
  <1>1. q \in Int /\ r \in 0..(b - 1) /\ a = q * b + r  BY Divided
  <1>2. \/ Rounded(a, b) = q /\ 2 * r <= b
        \/ Rounded(a, b) = q + 1 /\ 2 * r >= b
    <2>1. Rounded(a, b) = IF 2 * r < b \/ (2 * r = b /\ q % 2 = 0) THEN q ELSE q + 1
      BY DEF Rounded
    <2>. HIDE DEF q, r
    <2>. QED  BY <1>1, <2>1
  <1>. HIDE DEF q, r
  <1>3. q * b \in Int /\ (q + 1) * b = q * b + b  BY <1>1
  <1>4. PICK m \in Int : m = q * b  BY <1>3
  <1>5. CASE Rounded(a, b) = q /\ 2 * r <= b
    <2>1. Distance(m, a) = r  BY <1>1, <1>4 DEF Distance
    <2>. QED  BY <1>1, <1>4, <1>5, <2>1
  <1>6. CASE Rounded(a, b) = q + 1 /\ 2 * r >= b
    <2>1. Distance(m + b, a) = b - r  BY <1>1, <1>4 DEF Distance
    <2>. QED  BY <1>1, <1>3, <1>4, <1>6, <2>1
  <1>. QED  BY <1>2, <1>5, <1>6

\* The instant of a whole number of microseconds, give or take less than
\* half of one, is that number.
LEMMA RoundedBack ==
    ASSUME NEW a \in Int, NEW b \in Nat \ {0}, NEW c \in Int,
           2 * Distance(a, c * b) < b
    PROVE  Rounded(a, b) = c
  <1>. DEFINE r == Rounded(a, b)
  <1>1. r \in Int /\ 2 * Distance(r * b, a) <= b  BY RoundedIsNear
  <1>. HIDE DEF r
  <1>2. PICK m \in Int, k \in Int : m = r * b /\ k = c * b  BY <1>1
  <1>3. m - a <= Distance(m, a) /\ a - m <= Distance(m, a) /\ Distance(m, a) \in Int
    BY <1>2 DEF Distance
  <1>4. k - a <= Distance(a, k) /\ a - k <= Distance(a, k) /\ Distance(a, k) \in Int
    BY <1>2 DEF Distance
  <1>5. m - k < b /\ k - m < b  BY <1>1, <1>2, <1>3, <1>4
  <1>6. (r - c) * b = m - k /\ (c - r) * b = k - m /\ 1 * b = b  BY <1>1, <1>2
  <1>7. r - c < 1 /\ c - r < 1  BY <1>1, <1>5, <1>6, Cancel
  <1>. QED  BY <1>1, <1>7 DEF r

Less == {ss \in Nat \X Nat : ss[1] < ss[2]}

\* Some member of a set of natural numbers is the least.
LEMMA LeastOf ==
    ASSUME NEW S \in SUBSET Nat, S # {}
    PROVE  \E m \in S : \A k \in S : m <= k
  <1>1. Less = OpToRel(<, Nat)  BY Zenon DEF Less, OpToRel
  <1>2. IsWellFoundedOn(Less, Nat)
    BY <1>1, NatLessThanWellFounded
  <1>3. PICK m \in S : \A y \in S : ~ (<<y, m>> \in Less)
    BY <1>2, WFMin
  <1>4. \A y \in S : y \in Nat /\ m \in Nat /\ ~(y < m)  BY <1>3 DEF Less
  <1>. QED  BY <1>4
-----------------------------------------------------------------------------
(* Literals.                                                                *)

\* A whole number of ticks is the only one that is so many.
LEMMA Whole ==
    ASSUME NEW x \in Int
    PROVE  /\ x \div Grid \in Int
           /\ whole(x) => (x \div Grid) * Grid = x
           /\ \A c \in Int : c * Grid = x => whole(x) /\ x \div Grid = c
  <1>1. x \div Grid \in Int /\ x % Grid \in Int /\ x = (x \div Grid) * Grid + (x % Grid)
    BY Tens, Divided
  <1>2. (x \div Grid) * Grid \in Int  BY <1>1, Tens
  <1>3. whole(x) => (x \div Grid) * Grid = x  BY <1>1, <1>2 DEF whole
  <1>4. \A c \in Int : c * Grid = x => whole(x) /\ x \div Grid = c
    BY Tens, Multiple DEF whole
  <1>. QED  BY <1>1, <1>3, <1>4

\* The day that a time falls in.
LEMMA DayOf ==
    ASSUME NEW x \in Int
    PROVE  (x \div Grid) * Grid <= x /\ x < (x \div Grid + 1) * Grid
  <1>. DEFINE q == x \div Grid
              r == x % Grid
  <1>1. q \in Int /\ r \in 0..(Grid - 1) /\ x = q * Grid + r /\ Grid \in Nat
    BY Tens, Divided
  <1>. HIDE DEF q, r
  <1>2. q * Grid \in Int /\ (q + 1) * Grid = q * Grid + Grid  BY <1>1
  <1>3. q * Grid <= x /\ x < q * Grid + Grid  BY <1>1, <1>2
  <1>. QED  BY <1>2, <1>3 DEF q

\* Every number is spelt by as many places as a tick has, and some number of
\* places is the least that spell it.
LEMMA ShortestExists ==
    ASSUME NEW x \in Int
    PROVE  \E p \in 0..Places : p \in shortest(x)
  <1>. DEFINE S == {p \in 0..Places : Spells(x, p)}
  <1>1. Places \in Nat  BY TenAssumption
  <1>2. Spells(x, Places)
    BY Tens, Multiple DEF Spells, Grid
  <1>3. S \in SUBSET Nat /\ S # {}  BY <1>1, <1>2
  <1>4. PICK m \in S : \A k \in S : m <= k  BY <1>3, LeastOf
  <1>. QED  BY <1>4 DEF shortest

\* Digits that spell a number are that number at any scale, or none at all.
LEMMA Rescaled ==
    ASSUME NEW x \in Int, NEW p \in 0..MaxPlaces, NEW scale \in 0..Precision,
           Spells(x, p)
    PROVE  /\ \A m \in rescale_decimal(x, p, scale) : m \in Int /\ m * Grid = x * Ten[scale]
           /\ \A c \in Int : c * Grid = x * Ten[scale] => rescale_decimal(x, p, scale) = {c}
  <1>. DEFINE digits == (x * Ten[p]) \div Grid
  <1>1. PICK g \in Nat \ {0}, t \in Nat \ {0}, s \in Nat \ {0} :
            g = Grid /\ t = Ten[p] /\ s = Ten[scale]
    BY Tens
  <1>2. digits \in Int /\ digits * g = x * t
    <2>1. x * t \in Int  BY <1>1
    <2>2. digits \in Int /\ x * t = digits * g + ((x * t) % g)  BY <1>1, <2>1, Divided
    <2>3. (x * t) % g = 0  BY <1>1 DEF Spells
    <2>4. digits * g \in Int  BY <1>1, <2>2
    <2>. QED  BY <2>2, <2>3, <2>4
  <1>3. p \in Nat /\ scale \in Nat /\ MaxPlaces \in Nat /\ Precision \in Nat /\ scale \in 0..MaxPlaces
    BY Tens, TenAssumption DEF MaxPlaces
  <1>4. CASE p <= scale
    <2>1. scale - p \in 0..MaxPlaces  BY <1>3, <1>4
    <2>2. PICK k \in Nat \ {0} : k = Ten[scale - p]  BY <2>1, Tens
    <2>3. s = t * k
      <3>1. p + (scale - p) = scale  BY <1>3
      <3>. QED  BY <1>1, <1>3, <2>1, <2>2, <3>1, TenAssumption
    <2>4. rescale_decimal(x, p, scale) = {digits * k}
      BY <1>4, <2>2 DEF rescale_decimal
    <2>. HIDE DEF digits
    <2>5. digits * k \in Int  BY <1>2, <2>2
    <2>6. (digits * k) * g = (digits * g) * k  BY <1>1, <1>2, <2>2
    <2>7. (x * t) * k = x * s  BY <1>1, <2>2, <2>3
    <2>8. (digits * k) * g = x * s  BY <1>2, <2>6, <2>7
    <2>9. \A c \in Int : c * g = x * s => c = digits * k
      BY <1>1, <2>5, <2>8, Cancel
    <2>. QED  BY <1>1, <2>4, <2>5, <2>8, <2>9
  <1>5. CASE scale < p
    <2>1. p - scale \in 0..MaxPlaces  BY <1>3, <1>5
    <2>2. PICK k \in Nat \ {0} : k = Ten[p - scale]  BY <2>1, Tens
    <2>3. t = s * k
      <3>1. scale + (p - scale) = p  BY <1>3
      <3>. QED  BY <1>1, <1>3, <2>1, <2>2, <3>1, TenAssumption
    <2>4. rescale_decimal(x, p, scale) = {m \in {digits \div k} : digits % k = 0}
      BY <1>3, <1>5, <2>2 DEF rescale_decimal
    <2>. HIDE DEF digits
    <2>5. \A m \in Int : m * k = digits <=> m * g = x * s
      <3>. TAKE m \in Int
      <3>1. (m * k) * g = (m * g) * k /\ x * t = (x * s) * k  BY <1>1, <2>2, <2>3
      <3>2. m * k = digits <=> (m * k) * g = digits * g
        <4>1. m * k \in Int  BY <2>2
        <4>. QED  BY <1>1, <1>2, <4>1, Cancel
      <3>3. m * g = x * s <=> (m * g) * k = (x * s) * k
        <4>1. m * g \in Int /\ x * s \in Int  BY <1>1
        <4>. QED  BY <2>2, <4>1, Cancel
      <3>. QED  BY <1>2, <3>1, <3>2, <3>3
    <2>6. digits \div k \in Int /\ (digits % k = 0 => (digits \div k) * k = digits)
      <3>1. digits \div k \in Int /\ digits = (digits \div k) * k + (digits % k)
        BY <1>2, <2>2, Divided
      <3>2. (digits \div k) * k \in Int  BY <2>2, <3>1
      <3>. QED  BY <3>1, <3>2
    <2>7. \A c \in Int : c * k = digits => digits % k = 0 /\ digits \div k = c
      BY <2>2, Multiple
    <2>. QED  BY <1>1, <2>4, <2>5, <2>6, <2>7
  <1>. QED  BY <1>3, <1>4, <1>5
\* What R's values are.
LEMMA TextKinds ==
    ASSUME NEW t \in Texts
    PROVE  /\ t.class \in {"numeral", "day", "instant", "naive", "words"}
           /\ t.x \in Int
           /\ t.class = "numeral" => t.places \in 0..Places /\ Spells(t.x, t.places)
  <1>1. 0 \in Int /\ Numerals \subseteq Int /\ Calendar \subseteq Int /\ Clock \subseteq Int
    BY NumbersAssumption
  <1>. QED  BY <1>1 DEF Texts, Of

LEMMA ValueKinds ==
    ASSUME NEW v \in Values
    PROVE  /\ v \notin Texts => v.class \in {"double", "Date", "POSIXct", "integer", "integer64",
                                             "logical", "NA", "NaN"}
           /\ v.x # Infinite => v.x \in Int
           /\ v.class \in {"double", "Date", "POSIXct"} => v.x \in Doubles \cup {Infinite}
           /\ v.class = "integer" => \E n \in Int32 : v.x = n * Grid
           /\ v.class = "integer64" => \E n \in Int64 : v.x = n * Grid
           /\ v.class = "logical" => v.x \in {0, 1}
  <1>1. Doubles \subseteq Int /\ {0, 1} \subseteq Int /\ Int32 \subseteq Int /\ Int64 \subseteq Int
    BY NumbersAssumption DEF Int32, Int64
  <1>2. \A n \in Int : n * Grid \in Int  BY Tens
  <1>3. CASE v \in Texts  BY <1>3, TextKinds
  <1>4. CASE v \in {Of(class, x) : class \in {"double", "Date", "POSIXct"}, x \in Doubles \cup {Infinite}}
    BY <1>1, <1>4 DEF Of
  <1>5. CASE v \in {Of("integer", n * Grid) : n \in Int32}  BY <1>1, <1>2, <1>5 DEF Of
  <1>6. CASE v \in {Of("integer64", n * Grid) : n \in Int64}  BY <1>1, <1>2, <1>6 DEF Of
  <1>7. CASE v \in {Of("logical", b) : b \in {0, 1}} \cup {Of("NA", 0), Of("NaN", 0)}
    BY <1>1, <1>7 DEF Of
  <1>. QED  BY <1>3, <1>4, <1>5, <1>6, <1>7 DEF Values

LEMMA WrittenKinds ==
    ASSUME NEW v \in Values, written(v)
    PROVE  /\ v.x \in Int
           /\ v.class \notin {"NA", "NaN"}
           /\ v \in Texts => json_scalar(v) = v
           /\ v.class \in {"double", "integer"} => json_scalar(v) = Of("number", v.x)
           /\ v.class = "integer64" => json_scalar(v) = Of("numeral", v.x)
           /\ v.class = "Date" => json_scalar(v) = Of("day", v.x \div Grid)
           /\ v.class = "POSIXct" => json_scalar(v) = Of("instant", iso_utc(v.x))
           /\ v.class = "logical" => json_scalar(v) = v
  <1>1. v.x \in Int /\ v.class \notin {"NA", "NaN"}  BY ValueKinds DEF written
  <1>2. v \in Texts => json_scalar(v) = v
    <2>1. v \in Texts => v.class \notin {"double", "integer", "integer64", "Date", "POSIXct"}
      BY TextKinds
    <2>. QED  BY <2>1 DEF json_scalar
  <1>3. v.class \in {"double", "integer"} => json_scalar(v) = Of("number", v.x)
    BY DEF json_scalar
  <1>4. v.class = "integer64" => json_scalar(v) = Of("numeral", v.x)
    BY DEF json_scalar
  <1>5. v.class = "Date" => json_scalar(v) = Of("day", v.x \div Grid)
    BY DEF json_scalar
  <1>6. v.class = "POSIXct" => json_scalar(v) = Of("instant", iso_utc(v.x))
    BY DEF json_scalar
  <1>7. v.class = "logical" => json_scalar(v) = v
    BY DEF json_scalar
  <1>. QED  BY <1>1, <1>2, <1>3, <1>4, <1>5, <1>6, <1>7

\* Every value has a JSON of one of these kinds.
LEMMA JsonKinds ==
    ASSUME NEW v \in Values, written(v)
    PROVE  LET j == json_scalar(v) IN
           /\ j.x \in Int
           /\ j.class = "number" => v.class \in {"double", "integer"} /\ j.x = v.x
           /\ j.class = "numeral" =>
                /\ v.class \in {"integer64", "numeral"} /\ j.x = v.x
                /\ j.places \in 0..Places /\ Spells(j.x, j.places)
                /\ v.class = "integer64" => j.places = 0
  <1>1. iso_utc(v.x) \in Int /\ v.x \div Grid \in Int
    <2>1. v.x \in Int  BY WrittenKinds
    <2>2. v.x * Micros \in Int  BY <2>1, NumbersAssumption
    <2>. QED  BY <2>1, <2>2, RoundedIsNear, Whole, Tens DEF iso_utc
  <1>2. CASE v \in Texts  BY <1>2, WrittenKinds, TextKinds
  <1>3. CASE v.class \in {"double", "integer", "Date", "POSIXct", "logical"}
    BY <1>1, <1>3, WrittenKinds DEF Of
  <1>4. CASE v.class = "integer64"
    <2>1. PICK n \in Int64 : v.x = n * Grid  BY <1>4, ValueKinds
    <2>2. n \in Int /\ Places \in Nat  BY NumbersAssumption, TenAssumption DEF Int64
    <2>3. Spells(v.x, 0)
      <3>1. v.x * 1 = n * Grid  BY <2>1, <2>2, Tens
      <3>. QED  BY <2>2, <3>1, Tens, Multiple, TenAssumption DEF Spells
    <2>. QED  BY <1>4, <2>2, <2>3, WrittenKinds DEF Of
  <1>. QED  BY <1>2, <1>3, <1>4, ValueKinds, WrittenKinds
\* What a JSON value is read as, type by type.
LEMMA DatumByType ==
    ASSUME NEW j, NEW ty
    PROVE  /\ ty.name = "boolean" => datum(j, ty) = {b \in {j.x} : j.class = "logical"}
           /\ ty.name = "int" => datum(j, ty) = as_i64(j) \cap Int32
           /\ ty.name = "long" => datum(j, ty) = as_i64(j)
           /\ ty.name = "float" => datum(j, ty) = UNION {Nearest(x) : x \in as_f64(j)}
           /\ ty.name = "double" => datum(j, ty) = as_f64(j)
           /\ ty.name = "date" =>
                datum(j, ty) = {d \in {j.x} \cap Calendar : j.class = "day"} \cup (stored(j) \cap Int32)
           /\ ty.name = "timestamp" => datum(j, ty) = instant(j, FALSE) \cup stored(j)
           /\ ty.name = "timestamptz" => datum(j, ty) = instant(j, TRUE) \cup stored(j)
           /\ ty.name = "timestamp_ns" => datum(j, ty) = nanos(j, FALSE) \cup stored(j)
           /\ ty.name = "timestamptz_ns" => datum(j, ty) = nanos(j, TRUE) \cup stored(j)
           /\ ty.name = "string" => datum(j, ty) = {j} \cap Texts
           /\ ty.name = "decimal" => datum(j, ty) = decimal(j, ty.scale)
           /\ ty.name = "time" => datum(j, ty) = {}
  <1>1. ty.name = "boolean" => datum(j, ty) = {b \in {j.x} : j.class = "logical"}
    BY Zenon DEF datum
  <1>2. ty.name = "int" => datum(j, ty) = as_i64(j) \cap Int32
    BY Zenon DEF datum
  <1>3. ty.name = "long" => datum(j, ty) = as_i64(j)
    BY Zenon DEF datum
  <1>4. ty.name = "float" => datum(j, ty) = UNION {Nearest(x) : x \in as_f64(j)}
    BY Zenon DEF datum
  <1>5. ty.name = "double" => datum(j, ty) = as_f64(j)
    BY Zenon DEF datum
  <1>6. ty.name = "date" =>
          datum(j, ty) = {d \in {j.x} \cap Calendar : j.class = "day"} \cup (stored(j) \cap Int32)
    BY Zenon DEF datum
  <1>7. ty.name = "timestamp" => datum(j, ty) = instant(j, FALSE) \cup stored(j)
    BY Zenon DEF datum
  <1>8. ty.name = "timestamptz" => datum(j, ty) = instant(j, TRUE) \cup stored(j)
    BY Zenon DEF datum
  <1>9. ty.name = "timestamp_ns" => datum(j, ty) = nanos(j, FALSE) \cup stored(j)
    BY Zenon DEF datum
  <1>10. ty.name = "timestamptz_ns" => datum(j, ty) = nanos(j, TRUE) \cup stored(j)
    BY Zenon DEF datum
  <1>11. ty.name = "string" => datum(j, ty) = {j} \cap Texts
    BY Zenon DEF datum
  <1>12. ty.name = "decimal" => datum(j, ty) = decimal(j, ty.scale)
    BY Zenon DEF datum
  <1>13. ty.name = "time" => datum(j, ty) = {}
    BY Zenon DEF datum
  <1>. QED  BY <1>1, <1>2, <1>3, <1>4, <1>5, <1>6, <1>7, <1>8, <1>9, <1>10, <1>11, <1>12, <1>13

LEMMA UnitByType ==
    ASSUME NEW ty
    PROVE  /\ ty.name \in {"float", "double"} => Unit(ty) = Grid
           /\ ty.name = "decimal" => Unit(ty) = Ten[ty.scale]
           /\ ty.name \in {"timestamp", "timestamptz"} => Unit(ty) = Micros
           /\ ty.name \in {"timestamp_ns", "timestamptz_ns"} => Unit(ty) = Micros * Nanos
           /\ ty.name \in {"boolean", "int", "long", "date", "string", "time"} => Unit(ty) = 1
  <1>1. ty.name \in {"float", "double"} => Unit(ty) = Grid
    BY Zenon DEF Unit, Timestamps
  <1>2. ty.name = "decimal" => Unit(ty) = Ten[ty.scale]
    BY Zenon DEF Unit, Timestamps
  <1>3. ty.name = "timestamp" => Unit(ty) = Micros
    BY Zenon DEF Unit, Timestamps
  <1>4. ty.name = "timestamptz" => Unit(ty) = Micros
    BY Zenon DEF Unit, Timestamps
  <1>5. ty.name = "timestamp_ns" => Unit(ty) = Micros * Nanos
    BY Zenon DEF Unit, Timestamps
  <1>6. ty.name = "timestamptz_ns" => Unit(ty) = Micros * Nanos
    BY Zenon DEF Unit, Timestamps
  <1>7. ty.name = "boolean" => Unit(ty) = 1
    BY Zenon DEF Unit, Timestamps
  <1>8. ty.name = "int" => Unit(ty) = 1
    BY Zenon DEF Unit, Timestamps
  <1>9. ty.name = "long" => Unit(ty) = 1
    BY Zenon DEF Unit, Timestamps
  <1>10. ty.name = "date" => Unit(ty) = 1
    BY Zenon DEF Unit, Timestamps
  <1>11. ty.name = "string" => Unit(ty) = 1
    BY Zenon DEF Unit, Timestamps
  <1>12. ty.name = "time" => Unit(ty) = 1
    BY Zenon DEF Unit, Timestamps
  <1>. QED  BY <1>1, <1>2, <1>3, <1>4, <1>5, <1>6, <1>7, <1>8, <1>9, <1>10, <1>11, <1>12

LEMMA CellsByType ==
    ASSUME NEW ty
    PROVE  /\ ty.name = "boolean" => Cells(ty) = {0, 1}
           /\ ty.name \in {"int", "date"} => Cells(ty) = Int32
           /\ ty.name = "float" => Cells(ty) = Singles
           /\ ty.name = "double" => Cells(ty) = Doubles
           /\ ty.name = "decimal" => Cells(ty) = -(Ten[Precision] - 1)..(Ten[Precision] - 1)
           /\ ty.name = "string" => Cells(ty) = Texts
           /\ ty.name \in Timestamps \cup {"long", "time"} => Cells(ty) = Int64
  <1>1. ty.name = "boolean" => Cells(ty) = {0, 1}
    BY Zenon DEF Cells, Timestamps
  <1>2. ty.name \in {"int", "date"} => Cells(ty) = Int32
    BY Zenon DEF Cells, Timestamps
  <1>3. ty.name = "float" => Cells(ty) = Singles
    BY Zenon DEF Cells, Timestamps
  <1>4. ty.name = "double" => Cells(ty) = Doubles
    BY Zenon DEF Cells, Timestamps
  <1>5. ty.name = "decimal" => Cells(ty) = -(Ten[Precision] - 1)..(Ten[Precision] - 1)
    BY Zenon DEF Cells, Timestamps
  <1>6. ty.name = "string" => Cells(ty) = Texts
    BY Zenon DEF Cells, Timestamps
  <1>7. ty.name \in Timestamps \cup {"long", "time"} => Cells(ty) = Int64
    BY Zenon DEF Cells, Timestamps
  <1>. QED  BY <1>1, <1>2, <1>3, <1>4, <1>5, <1>6, <1>7

LEMMA TypeKinds ==
    ASSUME NEW ty \in Types
    PROVE  /\ ty.name \in {"boolean", "int", "long", "float", "double", "date", "timestamp",
                           "timestamptz", "timestamp_ns", "timestamptz_ns", "string", "time",
                           "decimal"}
           /\ ty.name = "decimal" => ty.scale \in Scales /\ ty.scale \in 0..Precision
           /\ Unit(ty) \in Nat \ {0}
           /\ ty.name # "string" => Cells(ty) \subseteq Int
  <1>1. /\ ty.name \in {"boolean", "int", "long", "float", "double", "date", "timestamp",
                        "timestamptz", "timestamp_ns", "timestamptz_ns", "string", "time", "decimal"}
        /\ ty.name = "decimal" => ty.scale \in Scales /\ ty.scale \in 0..Precision
    BY TenAssumption DEF Types, Typed
  <1>2. Micros * Nanos \in Nat \ {0} /\ Micros \in Nat \ {0}  BY NumbersAssumption
  <1>3. Unit(ty) \in Nat \ {0}
    BY <1>1, <1>2, UnitByType, Tens
  <1>4. Int32 \subseteq Int /\ Int64 \subseteq Int /\ Singles \subseteq Int /\ Doubles \subseteq Int
    BY NumbersAssumption DEF Int32, Int64
  <1>5. -(Ten[Precision] - 1)..(Ten[Precision] - 1) \subseteq Int /\ {0, 1} \subseteq Int
    OBVIOUS
  <1>6. ty.name # "string" => Cells(ty) \subseteq Int
    BY <1>1, <1>4, <1>5, CellsByType DEF Timestamps
  <1>. QED  BY <1>1, <1>3, <1>6
-----------------------------------------------------------------------------
(* What a literal that was built is, and why one was not.                   *)

\* A decimal literal is the number, and a number that has one gets it.
LEMMA DecimalIsExact ==
    ASSUME NEW v \in Values, written(v), NEW ty \in Types, ty.name = "decimal",
           NEW m \in datum(json_scalar(v), ty)
    PROVE  m \in Int /\ Exact(m, v, ty)
  <1>. DEFINE j == json_scalar(v)
  <1>1. m \in decimal(j, ty.scale) /\ ty.scale \in 0..Precision /\ Unit(ty) = Ten[ty.scale]
    BY DatumByType, TypeKinds, UnitByType
  <1>2. PICK p \in decimal_places(j) : m \in rescale_decimal(j.x, p, ty.scale)
    BY <1>1 DEF decimal
  <1>3. j.class \in {"numeral", "number"}
    <2>1. j.class \notin {"numeral", "number"} => decimal_places(j) = {}
      BY Zenon DEF decimal_places
    <2>. QED  BY <1>2, <2>1
  <1>4. j.x = v.x /\ j.x \in Int  BY <1>3, JsonKinds
  <1>5. p \in 0..Places /\ Spells(j.x, p)
    <2>1. CASE j.class = "numeral"
      <3>1. decimal_places(j) = {j.places}  BY Zenon, <2>1 DEF decimal_places
      <3>. QED  BY <1>2, <2>1, <3>1, JsonKinds
    <2>2. CASE j.class = "number"
      <3>1. decimal_places(j) = shortest(j.x)  BY Zenon, <2>2 DEF decimal_places
      <3>. QED  BY <1>2, <3>1 DEF shortest
    <2>. QED  BY <1>3, <2>1, <2>2
  <1>. HIDE DEF j
  <1>6. m \in Int /\ m * Grid = j.x * Ten[ty.scale]
    BY <1>1, <1>2, <1>4, <1>5, Rescaled, Tens
  <1>. QED  BY <1>1, <1>4, <1>6 DEF Exact

LEMMA DecimalIsFound ==
    ASSUME NEW v \in Values, written(v), NEW ty \in Types, ty.name = "decimal",
           v.class \in {"double", "integer", "integer64"},
           NEW c \in Cells(ty), Exact(c, v, ty)
    PROVE  datum(json_scalar(v), ty) = {c}
  <1>. DEFINE j == json_scalar(v)
  <1>1. /\ datum(j, ty) = decimal(j, ty.scale) /\ ty.scale \in 0..Precision
        /\ Unit(ty) = Ten[ty.scale]
    BY DatumByType, TypeKinds, UnitByType
  <1>2. j.x = v.x /\ j.x \in Int /\ j.class \in {"number", "numeral"}
    BY WrittenKinds, JsonKinds DEF Of
  <1>3. decimal_places(j) # {} /\ \A p \in decimal_places(j) : p \in 0..Places /\ Spells(j.x, p)
    <2>1. CASE j.class = "numeral"
      <3>1. decimal_places(j) = {j.places}  BY Zenon, <2>1 DEF decimal_places
      <3>. QED  BY <2>1, <3>1, JsonKinds
    <2>2. CASE j.class = "number"
      <3>1. decimal_places(j) = shortest(j.x)  BY Zenon, <2>2 DEF decimal_places
      <3>. QED  BY <1>2, <3>1, ShortestExists DEF shortest
    <2>. QED  BY <1>2, <2>1, <2>2
  <1>4. c \in Int /\ c * Grid = j.x * Ten[ty.scale]
    BY <1>1, <1>2, TypeKinds DEF Exact
  <1>5. Distance(c, 0) < Ten[Precision]
    <2>1. c \in -(Ten[Precision] - 1)..(Ten[Precision] - 1)  BY CellsByType
    <2>2. Ten[Precision] \in Nat \ {0}  BY Tens, TenAssumption
    <2>. QED  BY <1>4, <2>1, <2>2, Distances
  <1>. HIDE DEF j
  <1>6. \A p \in decimal_places(j) : rescale_decimal(j.x, p, ty.scale) = {c}
    BY <1>1, <1>2, <1>3, <1>4, Rescaled, Tens
  <1>7. UNION {rescale_decimal(j.x, p, ty.scale) : p \in decimal_places(j)} = {c}
    BY <1>3, <1>6
  <1>8. decimal(j, ty.scale) = {c}  BY <1>5, <1>7 DEF decimal
  <1>. QED  BY <1>1, <1>8 DEF j

\* A column of whole numbers takes the number, if it is one of 64 bits.
LEMMA LongIsExact ==
    ASSUME NEW v \in Values, written(v), NEW n \in as_i64(json_scalar(v))
    PROVE  n \in Int64 /\ (v.class \in {"double", "integer", "integer64"} => n * Grid = v.x)
  <1>1. /\ n \in Int64 /\ n = json_scalar(v).x \div Grid /\ whole(json_scalar(v).x)
    BY DEF as_i64
  <1>2. v.class \in {"double", "integer", "integer64"} => json_scalar(v).x = v.x
    BY WrittenKinds DEF Of
  <1>. QED  BY <1>1, <1>2, WrittenKinds, Whole

LEMMA LongIsFound ==
    ASSUME NEW v \in Values, written(v), v.class \in {"double", "integer", "integer64"},
           NEW c \in Int64, c * Grid = v.x
    PROVE  as_i64(json_scalar(v)) = {c}
  <1>1. json_scalar(v).x = v.x /\ spells_long(json_scalar(v))
    BY WrittenKinds DEF Of, spells_long
  <1>2. c \in Int  BY NumbersAssumption DEF Int64
  <1>3. whole(v.x) /\ v.x \div Grid = c  BY <1>2, WrittenKinds, Whole
  <1>. QED  BY <1>1, <1>3 DEF as_i64
\* A number, against the columns that hold numbers.
LEMMA NumbersKept ==
    ASSUME NEW v \in Values, written(v), NEW ty \in Types, Counts(v, ty),
           NEW lit \in datum(json_scalar(v), ty)
    PROVE  IF ty.name = "float" THEN lit \in Nearest(v.x) ELSE Exact(lit, v, ty)
  <1>1. v.class \in {"double", "integer", "integer64"}  BY DEF Counts
  <1>2. v.x \in Int  BY WrittenKinds
  <1>3. CASE ty.name \in {"int", "long"}
    <2>0. \/ datum(json_scalar(v), ty) = as_i64(json_scalar(v)) \cap Int32
          \/ datum(json_scalar(v), ty) = as_i64(json_scalar(v))
      BY <1>3, DatumByType
    <2>1. lit \in as_i64(json_scalar(v))  BY <2>0
    <2>2. lit \in Int64 /\ lit * Grid = v.x  BY <1>1, <2>1, LongIsExact
    <2>3. Unit(ty) = 1  BY <1>3, UnitByType
    <2>. QED  BY <1>2, <1>3, <2>2, <2>3 DEF Exact
  <1>4. CASE ty.name \in {"float", "double"}
    <2>1. as_f64(json_scalar(v)) \subseteq {v.x}
      BY JsonKinds DEF as_f64
    <2>2. CASE ty.name = "float"
      <3>1. lit \in UNION {Nearest(x) : x \in as_f64(json_scalar(v))}  BY <2>2, DatumByType
      <3>. QED  BY <2>1, <2>2, <3>1
    <2>3. CASE ty.name = "double"
      <3>1. lit = v.x /\ Unit(ty) = Grid  BY <2>1, <2>3, DatumByType, UnitByType
      <3>. QED  BY <2>3, <3>1 DEF Exact
    <2>. QED  BY <1>4, <2>2, <2>3
  <1>5. CASE ty.name = "decimal"  BY <1>5, DecimalIsExact
  <1>. QED  BY <1>3, <1>4, <1>5 DEF Counts

\* A day.
LEMMA DatesKept ==
    ASSUME NEW v \in Values, written(v), NEW ty \in Types, Dates(v, ty),
           NEW lit \in datum(json_scalar(v), ty)
    PROVE  lit * Grid <= v.x /\ v.x < (lit + 1) * Grid
  <1>1. v.x \in Int /\ json_scalar(v) = Of("day", v.x \div Grid)  BY WrittenKinds DEF Dates
  <1>2. LET j == json_scalar(v) IN
        datum(j, ty) = {d \in {j.x} \cap Calendar : j.class = "day"} \cup (stored(j) \cap Int32)
    BY DatumByType DEF Dates
  <1>3. stored(json_scalar(v)) = {}  BY <1>1 DEF Of, stored
  <1>4. lit = v.x \div Grid  BY <1>1, <1>2, <1>3 DEF Of
  <1>. QED  BY <1>1, <1>4, DayOf

\* A column of times takes the instant, in its own unit.
LEMMA InstantLiterals ==
    ASSUME NEW v \in Values, written(v), NEW ty \in Types, Instants(v, ty)
    PROVE  LET s == iso_utc(v.x) IN
           /\ v.x \in Int /\ s \in Int
           /\ Unit(ty) = Micros \/ Unit(ty) = Micros * Nanos
           /\ ty.name \in {"timestamp", "timestamptz"} =>
                datum(json_scalar(v), ty) = {s} \cap Clock /\ Unit(ty) = Micros
           /\ ty.name \in {"timestamp_ns", "timestamptz_ns"} =>
                /\ datum(json_scalar(v), ty) = {t \in {u * Nanos : u \in {s} \cap Clock} : t \in Int64}
                /\ Unit(ty) = Micros * Nanos
  <1>. DEFINE s == iso_utc(v.x)
              j == json_scalar(v)
  <1>1. v.x \in Int /\ j = Of("instant", s)  BY WrittenKinds DEF Instants
  <1>2. s \in Int
    <2>1. v.x * Micros \in Int  BY <1>1, NumbersAssumption
    <2>. QED  BY <2>1, RoundedIsNear, Tens DEF iso_utc
  <1>. HIDE DEF s, j
  <1>3. stored(j) = {}  BY <1>1 DEF stored, Of
  <1>4. \A zoned \in BOOLEAN : instant(j, zoned) = {s} \cap Clock  BY <1>1 DEF instant, Of
  <1>5. \A zoned \in BOOLEAN :
          nanos(j, zoned) = {t \in {u * Nanos : u \in {s} \cap Clock} : t \in Int64}
    BY <1>4 DEF nanos
  <1>6. ty.name \in {"timestamp", "timestamptz"} =>
          datum(j, ty) = {s} \cap Clock /\ Unit(ty) = Micros
    <2>1. ty.name = "timestamp" => datum(j, ty) = instant(j, FALSE) \cup stored(j)
      BY DatumByType
    <2>2. ty.name = "timestamptz" => datum(j, ty) = instant(j, TRUE) \cup stored(j)
      BY DatumByType
    <2>3. ty.name \in {"timestamp", "timestamptz"} => Unit(ty) = Micros  BY UnitByType
    <2>. QED  BY <1>3, <1>4, <2>1, <2>2, <2>3
  <1>7. ty.name \in {"timestamp_ns", "timestamptz_ns"} =>
          /\ datum(j, ty) = {t \in {u * Nanos : u \in {s} \cap Clock} : t \in Int64}
          /\ Unit(ty) = Micros * Nanos
    <2>1. ty.name = "timestamp_ns" => datum(j, ty) = nanos(j, FALSE) \cup stored(j)
      BY DatumByType
    <2>2. ty.name = "timestamptz_ns" => datum(j, ty) = nanos(j, TRUE) \cup stored(j)
      BY DatumByType
    <2>3. ty.name \in {"timestamp_ns", "timestamptz_ns"} => Unit(ty) = Micros * Nanos  BY UnitByType
    <2>4. nanos(j, TRUE) \cup stored(j) = nanos(j, TRUE) /\ nanos(j, FALSE) \cup stored(j) = nanos(j, FALSE)
      BY <1>3
    <2>. QED  BY <1>5, <2>1, <2>2, <2>3, <2>4
  <1>. QED  BY <1>1, <1>2, <1>6, <1>7 DEF s, j, Instants, Timestamps

LEMMA InstantsKept ==
    ASSUME NEW v \in Values, written(v), NEW ty \in Types, Instants(v, ty),
           NEW lit \in datum(json_scalar(v), ty)
    PROVE  2 * Micros * Distance(lit * Grid, v.x * Unit(ty)) <= Grid * Unit(ty)
  <1>. DEFINE s == iso_utc(v.x)
  <1>1. PICK g \in Nat \ {0}, u \in Nat \ {0}, n \in Nat \ {0} : g = Grid /\ u = Micros /\ n = Nanos
    BY Tens, NumbersAssumption
  <1>2. v.x \in Int /\ s \in Int  BY InstantLiterals
  <1>3. v.x * u \in Int /\ s * g \in Int  BY <1>1, <1>2
  <1>4. 2 * Distance(s * g, v.x * u) <= g  BY <1>1, <1>3, RoundedIsNear DEF iso_utc
  <1>5. PICK d \in Nat : d = Distance(s * g, v.x * u)  BY <1>3, Distances
  <1>6. CASE ty.name \in {"timestamp", "timestamptz"}
    <2>1. lit = s /\ Unit(ty) = u  BY <1>1, <1>6, InstantLiterals
    <2>2. (2 * d) * u <= g * u  BY <1>1, <1>4, <1>5, Cancel
    <2>. QED  BY <1>1, <1>5, <2>1, <2>2
  <1>7. CASE ty.name \in {"timestamp_ns", "timestamptz_ns"}
    <2>1. lit = s * n /\ Unit(ty) = u * n  BY <1>1, <1>7, InstantLiterals
    <2>2. lit * g = (s * g) * n /\ v.x * Unit(ty) = (v.x * u) * n  BY <1>1, <1>2, <2>1
    <2>3. Distance(lit * g, v.x * Unit(ty)) = d * n
      <3>1. Distance((s * g) * n, (v.x * u) * n) = Distance(s * g, v.x * u) * n
        BY <1>1, <1>3, DistanceScaled
      <3>. QED  BY <1>5, <2>2, <3>1
    <2>4. u * n \in Nat \ {0}  BY <1>1
    <2>5. (2 * d) * (u * n) <= g * (u * n)  BY <1>1, <1>4, <1>5, <2>4, Cancel
    <2>6. 2 * u * (d * n) = (2 * d) * (u * n)  BY <1>1, <1>5
    <2>. QED  BY <1>1, <2>1, <2>3, <2>5, <2>6
  <1>. QED  BY <1>6, <1>7 DEF Instants, Timestamps
\* A number is refused only where no cell can equal it.
LEMMA NumbersRefused ==
    ASSUME NEW v \in Values, written(v), NEW ty \in Types, Counts(v, ty),
           v.class = "integer64" => ty.name \notin {"float", "double"},
           NEW c \in Cells(ty), Exact(c, v, ty)
    PROVE  datum(json_scalar(v), ty) # {}
  <1>1. v.class \in {"double", "integer", "integer64"} /\ v.x \in Int
    BY WrittenKinds DEF Counts
  <1>2. c \in Int  BY TypeKinds DEF Counts
  <1>3. CASE ty.name \in {"int", "long"}
    <2>1. c \in Int64 /\ (ty.name = "int" => c \in Int32)
      <3>1. ty.name = "int" => c \in Int32  BY CellsByType
      <3>2. ty.name = "long" => c \in Int64  BY CellsByType
      <3>3. Int32 \subseteq Int64  BY NumbersAssumption DEF Int32, Int64
      <3>. QED  BY <1>3, <3>1, <3>2, <3>3
    <2>2. c * Grid = v.x
      <3>1. Unit(ty) = 1  BY <1>3, UnitByType
      <3>. QED  BY <1>1, <3>1 DEF Exact
    <2>3. as_i64(json_scalar(v)) = {c}  BY <1>1, <2>1, <2>2, LongIsFound
    <2>4. ty.name = "int" => datum(json_scalar(v), ty) = {c} \cap Int32  BY <2>3, DatumByType
    <2>5. ty.name = "long" => datum(json_scalar(v), ty) = {c}  BY <2>3, DatumByType
    <2>. QED  BY <1>3, <2>1, <2>4, <2>5
  <1>4. CASE ty.name \in {"float", "double"}
    <2>1. as_f64(json_scalar(v)) = {v.x}
      <3>1. json_scalar(v) = Of("number", v.x)  BY <1>1, <1>4, WrittenKinds
      <3>. QED  BY <3>1 DEF as_f64, Of
    <2>2. c = v.x
      <3>1. Unit(ty) = Grid  BY <1>4, UnitByType
      <3>2. c * Grid = v.x * Grid  BY <3>1 DEF Exact
      <3>. QED  BY <1>1, <1>2, <3>2, Tens, Cancel
    <2>3. ty.name = "double" => datum(json_scalar(v), ty) = {v.x}  BY <2>1, DatumByType
    <2>4. ASSUME ty.name = "float"
          PROVE  c \in datum(json_scalar(v), ty)
      <3>1. c \in Singles /\ Singles \subseteq Int
        BY <2>4, CellsByType, NumbersAssumption
      <3>2. \A t \in Singles : Distance(c, v.x) <= Distance(t, v.x)
        <4>. TAKE t \in Singles
        <4>1. Distance(c, v.x) = 0 /\ Distance(t, v.x) \in Nat  BY <1>1, <2>2, <3>1, Distances
        <4>. QED  BY <4>1
      <3>3. c \in Nearest(v.x)  BY <3>1, <3>2 DEF Nearest
      <3>4. datum(json_scalar(v), ty) = UNION {Nearest(x) : x \in as_f64(json_scalar(v))}
        BY <2>4, DatumByType
      <3>. QED  BY <2>1, <3>3, <3>4
    <2>. QED  BY <1>4, <2>3, <2>4
  <1>5. CASE ty.name = "decimal"
    BY <1>1, <1>5, DecimalIsFound
  <1>. QED  BY <1>3, <1>4, <1>5 DEF Counts

LEMMA DatesRefused ==
    ASSUME NEW v \in Values, written(v), NEW ty \in Types, Dates(v, ty),
           v.x \div Grid \in Calendar
    PROVE  datum(json_scalar(v), ty) # {}
  <1>1. LET j == json_scalar(v) IN
        datum(j, ty) = {d \in {j.x} \cap Calendar : j.class = "day"} \cup (stored(j) \cap Int32)
    BY DatumByType DEF Dates
  <1>2. json_scalar(v) = Of("day", v.x \div Grid)  BY WrittenKinds DEF Dates
  <1>. QED  BY <1>1, <1>2 DEF Of

LEMMA InstantsRefused ==
    ASSUME NEW v \in Values, written(v), NEW ty \in Types, Instants(v, ty),
           datum(json_scalar(v), ty) = {}, iso_utc(v.x) \in Clock
    PROVE  /\ Unit(ty) # Micros /\ iso_utc(v.x) * Nanos \notin Int64
           /\ ty.name \in {"timestamp_ns", "timestamptz_ns"}
  <1>. DEFINE s == iso_utc(v.x)
  <1>1. ty.name \in {"timestamp_ns", "timestamptz_ns"}
    <2>1. ty.name \in {"timestamp", "timestamptz"} => datum(json_scalar(v), ty) = {s} \cap Clock
      BY InstantLiterals
    <2>. QED  BY <2>1 DEF Instants, Timestamps
  <1>2. /\ datum(json_scalar(v), ty) = {t \in {u * Nanos : u \in {s} \cap Clock} : t \in Int64}
        /\ Unit(ty) = Micros * Nanos /\ s \in Int
    BY <1>1, InstantLiterals
  <1>3. s * Nanos \notin Int64  BY <1>2
  <1>4. Nanos # 1
    <2>1. s * 1 = s  BY <1>2
    <2>2. Clock \subseteq Int64  BY NumbersAssumption DEF Int64
    <2>. QED  BY <1>3, <2>1, <2>2
  <1>5. Micros * Nanos # Micros
    <2>1. Micros \in Nat \ {0} /\ Nanos \in Nat \ {0}  BY NumbersAssumption
    <2>2. PICK m \in Nat \ {0}, n \in Nat \ {0} : m = Micros /\ n = Nanos  BY <2>1
    <2>3. n * m = 1 * m => n = 1  BY <2>2, Cancel
    <2>4. m * n = n * m /\ 1 * m = m  BY <2>2
    <2>. QED  BY <1>4, <2>2, <2>3, <2>4
  <1>. QED  BY <1>1, <1>2, <1>3, <1>5

LEMMA TextsKept ==
    ASSUME NEW v \in Texts, written(v), NEW ty, ty.name = "string"
    PROVE  datum(json_scalar(v), ty) = {v}
  <1>1. v \in Values  BY DEF Values
  <1>2. json_scalar(v) = v  BY <1>1, WrittenKinds
  <1>3. datum(json_scalar(v), ty) = {json_scalar(v)} \cap Texts  BY DatumByType
  <1>. QED  BY <1>2, <1>3
-----------------------------------------------------------------------------
(* Cells, and what is read of them.                                         *)

\* What a cell of a type may hold, once it was written.
Held(ty) ==
    {c \in Cells(ty) \cup {Null, Infinite} :
       /\ c = Infinite => ty.name \in {"float", "double"}
       /\ ty.name = "time" => c = Null}

LEMMA CellsAreCells ==
    ASSUME NEW ty \in Types
    PROVE  Null \notin Cells(ty) /\ Infinite \notin Cells(ty)
  <1>1. {Null, Infinite} \cap (Int \cup Texts) = {}  BY CellsAssumption
  <1>2. ty.name = "string" => Cells(ty) = Texts  BY CellsByType
  <1>3. ty.name # "string" => Cells(ty) \subseteq Int  BY TypeKinds
  <1>. QED  BY <1>1, <1>2, <1>3

\* A cast gives no null.
LEMMA CastCells ==
    ASSUME NEW v \in Values, NEW ty \in Types, NEW c \in arrow_cast(v, ty)
    PROVE  c # Null /\ c \in Held(ty)
  <1>1. Null \notin Cells(ty) /\ Infinite \notin Cells(ty) /\ Null # Infinite
    BY CellsAreCells, CellsAssumption
  <1>2. CASE Counts(v, ty) \/ Dates(v, ty) \/ Instants(v, ty)
    <2>1. c \in Cells(ty)
      <3>1. CASE Counts(v, ty) /\ ty.name \in {"float", "double"}
        <4>1. arrow_cast(v, ty) = Closest(Cells(ty), v.x)  BY Zenon, <3>1 DEF arrow_cast
        <4>. QED  BY <4>1 DEF Closest
      <3>2. CASE (Counts(v, ty) /\ ty.name \notin {"float", "double"}) \/ Dates(v, ty)
        <4>1. ty.name \notin {"float", "double"}  BY <3>2 DEF Dates
        <4>2. arrow_cast(v, ty) = Near(v, ty)  BY Zenon, <3>2, <4>1 DEF arrow_cast
        <4>. QED  BY <4>2 DEF Near
      <3>3. CASE Instants(v, ty)
        <4>1. ~Counts(v, ty) /\ ~Dates(v, ty)  BY <3>3 DEF Instants, Counts, Dates
        <4>2. arrow_cast(v, ty) = AtTime(v, ty)  BY Zenon, <3>3, <4>1 DEF arrow_cast
        <4>. QED  BY <4>2 DEF AtTime
      <3>. QED  BY <1>2, <3>1, <3>2, <3>3
    <2>2. ty.name # "time"  BY <1>2 DEF Counts, Dates, Instants, Timestamps
    <2>. QED  BY <1>1, <2>1, <2>2 DEF Held
  <1>3. CASE ~Counts(v, ty) /\ ~Dates(v, ty) /\ ~Instants(v, ty)
    <2>1. arrow_cast(v, ty) =
            { x \in {v.x} : \/ v.class = "double" /\ ty.name \in {"float", "double"}
                            \/ v.class = "logical" /\ ty.name = "boolean" }
              \cup {t \in {v} \cap Texts : ty.name = "string"}
      BY Zenon, <1>3 DEF arrow_cast
    <2>2. CASE v.class = "double" /\ ty.name \in {"float", "double"} /\ c = v.x
      <3>1. v.x = Infinite  BY <1>3, <2>2 DEF Counts
      <3>. QED  BY <1>1, <2>2, <3>1 DEF Held
    <2>3. CASE v.class = "logical" /\ ty.name = "boolean" /\ c = v.x
      <3>1. c \in Cells(ty)  BY <2>3, ValueKinds, CellsByType
      <3>. QED  BY <1>1, <2>3, <3>1 DEF Held
    <2>4. CASE c \in Texts /\ ty.name = "string"
      <3>1. c \in Cells(ty)  BY <2>4, CellsByType
      <3>. QED  BY <1>1, <2>4, <3>1 DEF Held
    <2>. QED  BY <2>1, <2>2, <2>3, <2>4
  <1>. QED  BY <1>2, <1>3

\* A cell's value in R, type by type.
LEMMA ConvertByType ==
    ASSUME NEW ty, NEW installed, NEW c, c # Null, c # Infinite
    PROVE  /\ ty.name = "int" => convert(c, ty, installed) = {Integer("integer", c, -(MaxInt + 1))}
           /\ ty.name = "date" => convert(c, ty, installed) = {Of("Date", c * Grid)}
           /\ ty.name \in Timestamps => convert(c, ty, installed) = {Of("POSIXct", x) : x \in AsDouble(c, ty)}
           /\ ty.name = "boolean" => convert(c, ty, installed) = {Of("logical", c)}
           /\ ty.name = "string" => convert(c, ty, installed) = {c}
           /\ ty.name \in {"float", "double", "decimal", "time"} =>
                convert(c, ty, installed) = {Of("double", x) : x \in AsDouble(c, ty)}
  <1>1. ty.name = "int" => convert(c, ty, installed) = {Integer("integer", c, -(MaxInt + 1))}
    BY Zenon DEF convert, Timestamps
  <1>2. ty.name = "date" => convert(c, ty, installed) = {Of("Date", c * Grid)}
    BY Zenon DEF convert, Timestamps
  <1>3. ty.name \in Timestamps => convert(c, ty, installed) = {Of("POSIXct", x) : x \in AsDouble(c, ty)}
    <2>1. ty.name \in Timestamps => ty.name \notin {"int", "long", "date", "boolean", "string"}
      BY DEF Timestamps
    <2>. QED  BY Zenon, <2>1 DEF convert
  <1>4. ty.name = "boolean" => convert(c, ty, installed) = {Of("logical", c)}
    BY Zenon DEF convert, Timestamps
  <1>5. ty.name = "string" => convert(c, ty, installed) = {c}
    BY Zenon DEF convert, Timestamps
  <1>6. ty.name \in {"float", "double", "decimal", "time"} =>
          convert(c, ty, installed) = {Of("double", x) : x \in AsDouble(c, ty)}
    <2>1. ty.name \in {"float", "double", "decimal", "time"} =>
            ty.name \notin {"int", "long", "date", "boolean", "string"} /\ ty.name \notin Timestamps
      BY DEF Timestamps
    <2>. QED  BY Zenon, <2>1 DEF convert
  <1>. QED  BY <1>1, <1>2, <1>3, <1>4, <1>5, <1>6

LEMMA ConvertLong ==
    ASSUME NEW ty, ty.name = "long", NEW c, c # Null, c # Infinite
    PROVE  /\ convert(c, ty, TRUE) = {Integer("integer64", c, -(MaxLong + 1))}
           /\ convert(c, ty, FALSE) = {Of("double", x) : x \in AsDouble(c, ty)}
  BY Zenon DEF convert, Timestamps, int64_ptype

LEMMA ToldByType ==
    ASSUME NEW ty, NEW c, Told(c, ty)
    PROVE  /\ ty.name = "long" => bit64
           /\ ty.name \in {"timestamp", "timestamptz"} =>
                \A x \in AsDouble(c, ty) : 2 * Distance(x * Unit(ty), c * Grid) < Grid
           /\ ty.name = "decimal" => \E x \in Doubles : x * Unit(ty) = c * Grid
           /\ ty.name \notin {"timestamp_ns", "timestamptz_ns"}
  <1>1. ty.name = "long" => bit64  BY Zenon DEF Told
  <1>2. ty.name = "timestamp" \/ ty.name = "timestamptz" =>
          \A x \in AsDouble(c, ty) : 2 * Distance(x * Unit(ty), c * Grid) < Grid
    BY Zenon DEF Told
  <1>3. ty.name = "decimal" => \E x \in Doubles : x * Unit(ty) = c * Grid
    BY Zenon DEF Told
  <1>4. ty.name # "timestamp_ns" /\ ty.name # "timestamptz_ns"
    BY Zenon DEF Told, Timestamps
  <1>. QED  BY <1>1, <1>2, <1>3, <1>4
LEMMA ReadValues ==
    ASSUME NEW ty \in Types, NEW c \in Held(ty), NEW installed \in BOOLEAN,
           NEW w \in convert(c, ty, installed)
    PROVE  w \in Values /\ (written(w) => c \in Cells(ty) /\ c # Null /\ c # Infinite)
  <1>1. CASE c = Null
    <2>1. w = Of("NA", 0)  BY <1>1 DEF convert
    <2>. QED  BY <2>1 DEF Values, written, Of
  <1>2. CASE c = Infinite /\ c # Null
    <2>1. w = Of("double", Infinite)  BY <1>2 DEF convert
    <2>2. w \in Values  BY <2>1 DEF Values
    <2>3. ~written(w)  BY <2>1 DEF written, Of
    <2>. QED  BY <2>2, <2>3
  <1>3. CASE c # Null /\ c # Infinite
    <2>1. c \in Cells(ty)  BY <1>3 DEF Held
    <2>2. AsDouble(c, ty) \subseteq Doubles  BY DEF AsDouble
    <2>3. CASE ty.name = "int"
      <3>1. w = Integer("integer", c, -(MaxInt + 1)) /\ c \in Int32
        BY <1>3, <2>1, <2>3, ConvertByType, CellsByType
      <3>. QED  BY <1>3, <2>1, <3>1 DEF Integer, Values
    <2>4. CASE ty.name = "long" /\ installed = TRUE
      <3>1. w = Integer("integer64", c, -(MaxLong + 1))  BY <1>3, <2>4, ConvertLong
      <3>2. c \in Int64  BY <2>1, <2>4, CellsByType
      <3>. QED  BY <1>3, <2>1, <3>1, <3>2 DEF Integer, Values
    <2>5. CASE ty.name = "date"
      <3>1. w = Of("Date", c * Grid) /\ c \in Int32
        BY <1>3, <2>1, <2>5, ConvertByType, CellsByType
      <3>2. c * Grid \in Doubles  BY <3>1, CellsAssumption
      <3>. QED  BY <1>3, <2>1, <3>1, <3>2 DEF Values
    <2>6. CASE ty.name \in Timestamps
      <3>1. convert(c, ty, installed) = {Of("POSIXct", x) : x \in AsDouble(c, ty)}
        BY <1>3, <2>6, ConvertByType
      <3>. QED  BY <1>3, <2>1, <2>2, <3>1 DEF Values
    <2>7. CASE ty.name = "boolean"
      <3>1. w = Of("logical", c) /\ c \in {0, 1}
        BY <1>3, <2>1, <2>7, ConvertByType, CellsByType
      <3>. QED  BY <1>3, <2>1, <3>1 DEF Values
    <2>8. CASE ty.name = "string"
      <3>1. w = c /\ c \in Texts  BY <1>3, <2>1, <2>8, ConvertByType, CellsByType
      <3>. QED  BY <1>3, <2>1, <3>1 DEF Values
    <2>9. CASE ty.name \in {"float", "double", "decimal", "time"} \/ (ty.name = "long" /\ installed = FALSE)
      <3>1. convert(c, ty, installed) = {Of("double", x) : x \in AsDouble(c, ty)}
        <4>1. CASE ty.name = "long" /\ installed = FALSE
          BY <1>3, <4>1, ConvertLong
        <4>2. CASE ty.name \in {"float", "double", "decimal", "time"}
          BY <1>3, <4>2, ConvertByType
        <4>. QED  BY <2>9, <4>1, <4>2
      <3>. QED  BY <1>3, <2>1, <2>2, <3>1 DEF Values
    <2>. QED  BY <2>3, <2>4, <2>5, <2>6, <2>7, <2>8, <2>9, TypeKinds DEF Timestamps
  <1>. QED  BY <1>1, <1>2, <1>3

\* A number that has a double of its own is read as that one.
LEMMA OwnDouble ==
    ASSUME NEW ty \in Types, NEW c \in Int, NEW x \in AsDouble(c, ty),
           NEW y \in Doubles, y * Unit(ty) = c * Grid
    PROVE  x * Unit(ty) = c * Grid
  <1>1. x \in Int /\ y \in Int  BY NumbersAssumption DEF AsDouble
  <1>2. x * Unit(ty) \in Int /\ c * Grid \in Int  BY <1>1, TypeKinds, Tens
  <1>3. Distance(x * Unit(ty), c * Grid) <= Distance(y * Unit(ty), c * Grid)
    BY DEF AsDouble
  <1>4. Distance(y * Unit(ty), c * Grid) = 0  BY <1>2, Distances
  <1>. QED  BY <1>2, <1>3, <1>4, Distances

\* What a cell reads as, against the cell.
LEMMA ReadNumbers ==
    ASSUME NEW ty \in Types, NEW c \in Held(ty), NEW w \in convert(c, ty, bit64),
           bit64 \in BOOLEAN, written(w), Told(c, ty)
    PROVE  /\ ty.name \in {"int", "long", "float", "double", "decimal"} =>
                Counts(w, ty) /\ Exact(c, w, ty) /\ w.class \in {"double", "integer", "integer64"}
           /\ ty.name \in {"float", "double", "decimal"} => w.class = "double"
  <1>1. w \in Values /\ c \in Cells(ty) /\ c # Null /\ c # Infinite  BY ReadValues
  <1>2. w.x \in Int /\ w.x # Infinite  BY <1>1, WrittenKinds DEF written
  <1>3. ASSUME ty.name = "int"
        PROVE  w.class = "integer" /\ w.x = c * Grid
    <2>1. w = Integer("integer", c, -(MaxInt + 1))  BY <1>1, <1>3, ConvertByType
    <2>. QED  BY <2>1 DEF Integer, written, Of
  <1>4. ASSUME ty.name = "long"
        PROVE  w.class = "integer64" /\ w.x = c * Grid
    <2>1. bit64 = TRUE
      <3>1. bit64  BY Zenon, <1>4, ToldByType
      <3>. QED  BY <3>1
    <2>2. w = Integer("integer64", c, -(MaxLong + 1))  BY <1>1, <1>4, <2>1, ConvertLong
    <2>. QED  BY <2>2 DEF Integer, written, Of
  <1>5. ASSUME ty.name \in {"float", "double", "decimal"}
        PROVE  w.class = "double" /\ w.x * Unit(ty) = c * Grid
    <2>1. PICK x \in AsDouble(c, ty) : w = Of("double", x)
      <3>1. convert(c, ty, bit64) = {Of("double", x) : x \in AsDouble(c, ty)}
        BY <1>1, <1>5, ConvertByType
      <3>. QED  BY <3>1
    <2>2. \E y \in Doubles : y * Unit(ty) = c * Grid
      <3>1. CASE ty.name = "decimal"  BY <3>1, ToldByType
      <3>2. CASE ty.name \in {"float", "double"}
        <4>1. Unit(ty) = Grid  BY <3>2, UnitByType
        <4>2. c \in Doubles  BY <1>1, <3>2, CellsByType, NumbersAssumption
        <4>. QED  BY <4>1, <4>2
      <3>. QED  BY <1>5, <3>1, <3>2
    <2>3. c \in Int  BY <1>1, <1>5, TypeKinds
    <2>. QED  BY <2>1, <2>2, <2>3, OwnDouble DEF Of
  <1>6. ty.name \in {"int", "long"} => w.x * Unit(ty) = w.x
    BY <1>2, UnitByType
  <1>. QED  BY <1>2, <1>3, <1>4, <1>5, <1>6 DEF Counts, Exact
LEMMA ToldAlways ==
    ASSUME NEW ty, NEW c, ty.name \in {"int", "float", "double"}
    PROVE  Told(c, ty)
  <1>1. ty.name \notin {"long", "timestamp", "timestamptz", "decimal"} /\ ty.name \notin Timestamps
    BY DEF Timestamps
  <1>. QED  BY Zenon, <1>1 DEF Told

\* What days, times and the rest are read as.
LEMMA ReadOthers ==
    ASSUME NEW ty \in Types, NEW c \in Held(ty), NEW w \in convert(c, ty, bit64),
           bit64 \in BOOLEAN, written(w)
    PROVE  /\ ty.name = "date" => c \in Int /\ w = Of("Date", c * Grid) /\ Dates(w, ty)
           /\ ty.name \in Timestamps =>
                c \in Int /\ w.x \in AsDouble(c, ty) /\ Instants(w, ty)
           /\ ty.name = "boolean" => w = Of("logical", c)
           /\ ty.name = "string" => c \in Texts /\ w = c
           /\ ty.name # "time"
  <1>1. w \in Values /\ c \in Cells(ty) /\ c # Null /\ c # Infinite  BY ReadValues
  <1>2. w.x \in Int /\ w.x # Infinite  BY <1>1, WrittenKinds DEF written
  <1>3. ty.name # "string" => c \in Int  BY <1>1, TypeKinds
  <1>4. ty.name = "date" => w = Of("Date", c * Grid)  BY <1>1, ConvertByType
  <1>5. ASSUME ty.name \in Timestamps
        PROVE  w.class = "POSIXct" /\ w.x \in AsDouble(c, ty)
    <2>1. convert(c, ty, bit64) = {Of("POSIXct", x) : x \in AsDouble(c, ty)}
      BY <1>1, <1>5, ConvertByType
    <2>. QED  BY <2>1 DEF Of
  <1>6. ty.name = "boolean" => w = Of("logical", c)  BY <1>1, ConvertByType
  <1>7. ty.name = "string" => w = c /\ c \in Texts  BY <1>1, ConvertByType, CellsByType
  <1>8. ty.name # "time"  BY <1>1 DEF Held
  <1>9. ty.name = "date" => Dates(w, ty)  BY <1>2, <1>4 DEF Dates, Of
  <1>10. ty.name \in Timestamps => Instants(w, ty)  BY <1>2, <1>5 DEF Instants
  <1>11. ty.name \in Timestamps => ty.name # "string"  BY DEF Timestamps
  <1>. QED  BY <1>3, <1>4, <1>5, <1>6, <1>7, <1>8, <1>9, <1>10, <1>11

\* A literal made of what was read of a cell is the cell.
LEMMA LiteralIsTheCell ==
    ASSUME NEW ty \in Types, NEW c \in Held(ty), NEW w \in convert(c, ty, bit64),
           bit64 \in BOOLEAN, written(w), Told(c, ty),
           NEW lit \in datum(json_scalar(w), ty)
    PROVE  lit = c
  <1>1. w \in Values /\ c \in Cells(ty)  BY ReadValues
  <1>2. w.x \in Int  BY <1>1, WrittenKinds
  <1>3. CASE ty.name \in {"int", "long", "float", "double", "decimal"}
    <2>1. Counts(w, ty) /\ Exact(c, w, ty)  BY <1>3, ReadNumbers
    <2>2. c \in Int  BY <1>1, <1>3, TypeKinds
    <2>3. CASE ty.name = "float"
      <3>1. c * Grid = w.x * Grid  BY <2>1, <2>3, UnitByType DEF Exact
      <3>2. c = w.x  BY <1>2, <2>2, <3>1, Tens, Cancel
      <3>3. lit \in Nearest(w.x)  BY <1>1, <2>1, <2>3, NumbersKept
      <3>4. lit \in Singles /\ c \in Singles /\ Singles \subseteq Int
        BY <1>1, <2>3, <3>3, CellsByType, NumbersAssumption DEF Nearest
      <3>5. Distance(lit, c) <= Distance(c, c)  BY <3>2, <3>3, <3>4 DEF Nearest
      <3>6. Distance(c, c) = 0 /\ Distance(lit, c) \in Nat /\ (Distance(lit, c) = 0 => lit = c)
        BY <2>2, <3>4, Distances
      <3>. QED  BY <3>5, <3>6
    <2>4. CASE ty.name # "float"
      <3>1. Exact(lit, w, ty)
        <4>1. IF ty.name = "float" THEN lit \in Nearest(w.x) ELSE Exact(lit, w, ty)
          BY <1>1, <2>1, NumbersKept
        <4>. QED  BY <2>4, <4>1
      <3>2. lit \in Int
        <4>1. CASE ty.name \in {"int", "long"}
          <5>1. \/ datum(json_scalar(w), ty) = as_i64(json_scalar(w)) \cap Int32
                \/ datum(json_scalar(w), ty) = as_i64(json_scalar(w))
            BY <4>1, DatumByType
          <5>2. lit \in Int64  BY <1>1, <5>1, LongIsExact
          <5>. QED  BY <5>2, NumbersAssumption DEF Int64
        <4>2. CASE ty.name = "double"
          <5>1. lit = json_scalar(w).x  BY <4>2, DatumByType DEF as_f64
          <5>. QED  BY <1>1, <5>1, JsonKinds
        <4>3. CASE ty.name = "decimal"  BY <1>1, <4>3, DecimalIsExact
        <4>. QED  BY <1>3, <2>4, <4>1, <4>2, <4>3
      <3>. QED  BY <2>1, <2>2, <3>1, <3>2, Tens, Cancel DEF Exact
    <2>. QED  BY <2>3, <2>4
  <1>4. CASE ty.name = "date"
    <2>1. c \in Int /\ w.x = c * Grid /\ Dates(w, ty)  BY <1>4, ReadOthers DEF Of
    <2>2. lit * Grid <= c * Grid /\ c * Grid < (lit + 1) * Grid
      BY <1>1, <2>1, DatesKept
    <2>3. lit \in Int
      <3>1. LET j == json_scalar(w) IN
            datum(j, ty) = {d \in {j.x} \cap Calendar : j.class = "day"} \cup (stored(j) \cap Int32)
        BY <1>4, DatumByType
      <3>2. lit \in Calendar \cup Int32  BY <3>1
      <3>3. Int32 \subseteq Int /\ -MaxInt..MaxInt \subseteq Int  BY NumbersAssumption DEF Int32
      <3>. QED  BY <3>2, <3>3, NumbersAssumption
    <2>4. lit <= c /\ c < lit + 1
      <3>1. lit + 1 \in Int  BY <2>3
      <3>. QED  BY <2>1, <2>2, <2>3, <3>1, Tens, Cancel
    <2>. QED  BY <2>1, <2>3, <2>4
  <1>5. CASE ty.name \in Timestamps
    <2>1. c \in Int /\ w.x \in AsDouble(c, ty) /\ Instants(w, ty)  BY <1>5, ReadOthers
    <2>2. ty.name \in {"timestamp", "timestamptz"}
      <3>1. ty.name \notin {"timestamp_ns", "timestamptz_ns"}  BY ToldByType
      <3>. QED  BY <1>5, <3>1 DEF Timestamps
    <2>3. lit = iso_utc(w.x) /\ Unit(ty) = Micros
      <3>1. datum(json_scalar(w), ty) = {iso_utc(w.x)} \cap Clock /\ Unit(ty) = Micros
        BY <1>1, <2>1, <2>2, InstantLiterals
      <3>. QED  BY <3>1
    <2>4. 2 * Distance(w.x * Micros, c * Grid) < Grid  BY <2>1, <2>2, <2>3, ToldByType
    <2>5. w.x * Micros \in Int  BY <1>2, NumbersAssumption
    <2>6. Rounded(w.x * Micros, Grid) = c  BY <2>1, <2>4, <2>5, Tens, RoundedBack
    <2>. QED  BY <2>3, <2>6 DEF iso_utc
  <1>6. CASE ty.name = "boolean"
    <2>1. w = Of("logical", c)  BY <1>6, ReadOthers
    <2>2. json_scalar(w) = w  BY <1>1, <2>1, WrittenKinds DEF Of
    <2>3. datum(w, ty) = {b \in {w.x} : w.class = "logical"}  BY <1>6, DatumByType
    <2>. QED  BY <2>1, <2>2, <2>3 DEF Of
  <1>7. CASE ty.name = "string"
    <2>1. c \in Texts /\ w = c  BY <1>7, ReadOthers
    <2>. QED  BY <1>7, <2>1, TextsKept
  <1>. QED  BY <1>3, <1>4, <1>5, <1>6, <1>7, ReadOthers, TypeKinds DEF Timestamps

\* And why it was not made.
LEMMA CellsRefused ==
    ASSUME NEW ty \in Types, NEW c \in Held(ty), NEW w \in convert(c, ty, bit64),
           bit64 \in BOOLEAN, written(w), datum(json_scalar(w), ty) = {}
    PROVE  \/ ty.name = "date" /\ c \notin Calendar
           \/ ty.name \in Timestamps /\ iso_utc(w.x) \notin Clock
           \/ ty.name \in {"timestamp_ns", "timestamptz_ns"} /\ iso_utc(w.x) * Nanos \notin Int64
           \/ ty.name \in {"long", "decimal"} /\ ~Told(c, ty)
  <1>1. w \in Values /\ c \in Cells(ty)  BY ReadValues
  <1>2. ASSUME ty.name \in {"int", "long", "float", "double", "decimal"}, Told(c, ty)
        PROVE  FALSE
    <2>1. /\ Counts(w, ty) /\ Exact(c, w, ty)
          /\ w.class = "integer64" => ty.name \notin {"float", "double"}
      BY <1>2, ReadNumbers
    <2>. QED  BY <1>1, <2>1, NumbersRefused
  <1>3. CASE ty.name \in {"int", "float", "double"}  BY <1>2, <1>3, ToldAlways
  <1>4. CASE ty.name \in {"long", "decimal"}  BY <1>2, <1>4
  <1>5. CASE ty.name = "date"
    <2>1. c \in Int /\ w.x = c * Grid /\ Dates(w, ty)  BY <1>5, ReadOthers DEF Of
    <2>2. w.x \div Grid = c  BY <2>1, Tens, Multiple
    <2>. QED  BY <1>1, <1>5, <2>1, <2>2, DatesRefused
  <1>6. CASE ty.name \in Timestamps
    <2>1. Instants(w, ty)  BY <1>6, ReadOthers
    <2>. QED  BY <1>1, <1>6, <2>1, InstantsRefused
  <1>7. CASE ty.name = "boolean"
    <2>1. w = Of("logical", c)  BY <1>7, ReadOthers
    <2>2. json_scalar(w) = w  BY <1>1, <2>1, WrittenKinds DEF Of
    <2>3. datum(w, ty) = {b \in {w.x} : w.class = "logical"}  BY <1>7, DatumByType
    <2>. QED  BY <2>1, <2>2, <2>3 DEF Of
  <1>8. CASE ty.name = "string"
    <2>1. c \in Texts /\ w = c  BY <1>8, ReadOthers
    <2>. QED  BY <1>8, <2>1, TextsKept
  <1>. QED  BY <1>3, <1>4, <1>5, <1>6, <1>7, <1>8, ReadOthers, TypeKinds DEF Timestamps
-----------------------------------------------------------------------------
(* Data frames and tables.                                                  *)

Frames == Seq([name : STRING, value : Values])
Tables == Seq([name : STRING, type : Types, required : BOOLEAN])

Distinct(columns) ==
    \A i, j \in DOMAIN columns : columns[i].name = columns[j].name => i = j

LEMMA ColumnOf ==
    ASSUME NEW S, NEW columns \in Seq(S), NEW i \in DOMAIN columns
    PROVE  columns[i] \in S
  OBVIOUS

\* As many names as columns is what it is for no two to share one.
LEMMA CountNames ==
    ASSUME NEW S, NEW columns \in Seq(S)
    PROVE  /\ Len(columns) \in Nat
           /\ Cardinality(Names(columns)) = Len(columns) <=> Distinct(columns)
  <1>. DEFINE n == Len(columns)
              f == [i \in 1..n |-> columns[i].name]
  <1>1. n \in Nat /\ DOMAIN columns = 1..n  OBVIOUS
  <1>. HIDE DEF n
  <1>2. f \in Surjection(1..n, Names(columns))
    BY <1>1 DEF Surjection, Names
  <1>3. f \in Injection(1..n, Names(columns)) <=> Distinct(columns)
    BY <1>1 DEF Injection, IsInjective, Names, Distinct
  <1>4. IsFiniteSet(1..n) /\ Cardinality(1..n) = n  BY <1>1, FS_Interval
  <1>5. Cardinality(Names(columns)) = Cardinality(1..n) <=> f \in Injection(1..n, Names(columns))
    <2>. HIDE DEF f
    <2>. QED  BY <1>2, <1>4, FS_Surjection
  <1>. QED  BY <1>1, <1>3, <1>4, <1>5 DEF n

\* A name picks a column of that name.
LEMMA NamedColumn ==
    ASSUME NEW S, NEW columns \in Seq(S), NEW name \in Names(columns)
    PROVE  \E k \in DOMAIN columns : Named(columns, name) = columns[k] /\ columns[k].name = name
  <1>. DEFINE I == {i \in DOMAIN columns : columns[i].name = name}
  <1>1. I \in SUBSET Nat /\ I # {}
    <2>1. DOMAIN columns = 1..Len(columns) /\ Len(columns) \in Nat  OBVIOUS
    <2>. QED  BY <2>1 DEF Names
  <1>2. PICK k \in I : \A i \in I : k <= i  BY <1>1, LeastOf
  <1>3. \A i \in 1..(k - 1) : columns[i].name # name
    <2>1. DOMAIN columns = 1..Len(columns) /\ Len(columns) \in Nat /\ k \in 1..Len(columns)  OBVIOUS
    <2>2. \A i \in 1..(k - 1) : i \in 1..Len(columns) /\ ~(k <= i)  BY <2>1
    <2>. QED  BY <1>2, <2>1, <2>2
  <1>4. \E i \in DOMAIN columns :
          columns[i].name = name /\ \A j \in 1..(i - 1) : columns[j].name # name
    BY <1>3
  <1>. QED  BY <1>4 DEF Named

LEMMA NamedOnly ==
    ASSUME NEW S, NEW columns \in Seq(S), Distinct(columns), NEW i \in DOMAIN columns
    PROVE  Named(columns, columns[i].name) = columns[i]
  <1>1. columns[i].name \in Names(columns)  BY DEF Names
  <1>2. PICK k \in DOMAIN columns :
          Named(columns, columns[i].name) = columns[k] /\ columns[k].name = columns[i].name
    BY <1>1, NamedColumn
  <1>. QED  BY <1>2 DEF Distinct

FramesFit == data \in Frames /\ table \in Tables /\ Distinct(table)

\* A frame is not refused for its names when they are the table's, each once.
LEMMA NamesAgree ==
    ASSUME FramesFit
    PROVE  (~repeated /\ unexpected = {} /\ missing = {})
             <=> (Names(data) = Names(table) /\ Len(data) = Len(table))
  <1>1. ~repeated <=> Distinct(data)  BY DEF repeated, Distinct
  <1>2. unexpected = {} /\ missing = {} <=> Names(data) = Names(table)
    BY DEF unexpected, missing
  <1>3. Len(data) \in Nat /\ (Cardinality(Names(data)) = Len(data) <=> Distinct(data))
    BY CountNames DEF FramesFit, Frames
  <1>4. Cardinality(Names(table)) = Len(table)  BY CountNames DEF FramesFit, Tables
  <1>. QED  BY <1>1, <1>2, <1>3, <1>4
\* The value a frame gives a column of the table.
LEMMA GivenOnce ==
    ASSUME FramesFit, Names(data) = Names(table), Len(data) = Len(table),
           NEW i \in DOMAIN table
    PROVE  LET v == Named(data, table[i].name).value IN
           /\ v \in Values
           /\ Given(table[i]) = {v}
           /\ table[i].type \in Types
  <1>1. table[i] \in [name : STRING, type : Types, required : BOOLEAN]
    BY ColumnOf DEF FramesFit, Tables
  <1>2. table[i].name \in Names(data)  BY DEF Names
  <1>3. PICK k \in DOMAIN data :
          Named(data, table[i].name) = data[k] /\ data[k].name = table[i].name
    <2>1. data \in Seq([name : STRING, value : Values])  BY DEF FramesFit, Frames
    <2>. QED  BY <1>2, <2>1, NamedColumn
  <1>4. data[k] \in [name : STRING, value : Values]  BY <1>3, ColumnOf DEF FramesFit, Frames
  <1>5. Distinct(data)
    <2>1. ~repeated  BY NamesAgree
    <2>. QED  BY <2>1 DEF repeated, Distinct
  <1>6. \A j \in DOMAIN data : data[j].name = table[i].name => j = k  BY <1>3, <1>5 DEF Distinct
  <1>7. Given(table[i]) = {data[k].value}  BY <1>3, <1>6 DEF Given
  <1>. QED  BY <1>1, <1>3, <1>4, <1>7

\* A column has a cell for every value that fits, and what it has is held.
LEMMA ColumnFits ==
    ASSUME FramesFit, Names(data) = Names(table), Len(data) = Len(table),
           NEW i \in DOMAIN table
    PROVE  LET v == Named(data, table[i].name).value IN
           /\ column(table[i]) # {} <=> Fits(v, table[i])
           /\ \A c \in column(table[i]) :
                /\ c \in Held(table[i].type)
                /\ c = Null <=> Absent(v)
                /\ c = Null => ~table[i].required
                /\ ~Absent(v) => c \in arrow_cast(v, table[i].type)
  <1>. DEFINE v == Named(data, table[i].name).value
              ty == table[i].type
  <1>1. v \in Values /\ ty \in Types  BY GivenOnce
  <1>2. column(table[i]) = {c \in cast(v, ty) : table[i].required => c # Null}  BY DEF column
  <1>3. \A c \in arrow_cast(v, ty) : c # Null /\ c \in Held(ty)  BY <1>1, CastCells
  <1>4. Null \in Held(ty)  BY CellsAssumption DEF Held
  <1>. HIDE DEF v, ty
  <1>5. CASE Absent(v)
    <2>1. cast(v, ty) = {Null}  BY <1>5 DEF cast
    <2>. QED  BY <1>2, <1>4, <1>5, <2>1 DEF v, ty, Fits
  <1>6. CASE ~Absent(v)
    <2>1. cast(v, ty) = arrow_cast(v, ty)  BY <1>6 DEF cast
    <2>2. column(table[i]) = arrow_cast(v, ty)  BY <1>2, <1>3, <2>1
    <2>3. Fits(v, table[i]) <=> arrow_cast(v, ty) # {}  BY <1>6 DEF Fits, ty
    <2>. QED  BY <1>3, <1>6, <2>2, <2>3 DEF v, ty
  <1>. QED  BY <1>5, <1>6

\* What an append writes.
Cast == \A i \in DOMAIN table : cells[table[i].name] \in column(table[i])

LEMMA AlignedIsGiven ==
    ASSUME FramesFit, aligned, Cast
    PROVE  /\ Names(data) = Names(table) /\ Len(data) = Len(table)
           /\ \A i \in DOMAIN table : \A v \in Given(table[i]) :
                LET c == cells[table[i].name]
                    ty == table[i].type
                IN  /\ c = Null <=> Absent(v)
                    /\ c = Null => ~table[i].required
                    /\ Counts(v, ty) => c \in Near(v, ty) \/ c \in Closest(Cells(ty), v.x)
  <1>1. Names(data) = Names(table) /\ Len(data) = Len(table)  BY NamesAgree DEF aligned
  <1>2. ASSUME NEW i \in DOMAIN table, NEW v \in Given(table[i])
        PROVE  LET c == cells[table[i].name]
                   ty == table[i].type
               IN  /\ c = Null <=> Absent(v)
                   /\ c = Null => ~table[i].required
                   /\ Counts(v, ty) => c \in Near(v, ty) \/ c \in Closest(Cells(ty), v.x)
    <2>. DEFINE c == cells[table[i].name]
                ty == table[i].type
    <2>1. v = Named(data, table[i].name).value  BY <1>1, GivenOnce
    <2>2. c \in column(table[i])  BY DEF Cast
    <2>3. /\ c = Null <=> Absent(v)
          /\ c = Null => ~table[i].required
          /\ ~Absent(v) => c \in arrow_cast(v, ty)
      BY <1>1, <2>1, <2>2, ColumnFits
    <2>4. ASSUME Counts(v, ty)
          PROVE  c \in Near(v, ty) \/ c \in Closest(Cells(ty), v.x)
      <3>1. ~Absent(v)  BY <2>4 DEF Counts, Absent
      <3>2. c \in arrow_cast(v, ty)  BY <2>3, <3>1
      <3>3. ty.name \in {"float", "double"} => arrow_cast(v, ty) = Closest(Cells(ty), v.x)
        BY Zenon, <2>4 DEF arrow_cast
      <3>4. ty.name \notin {"float", "double"} => arrow_cast(v, ty) = Near(v, ty)
        BY Zenon, <2>4 DEF arrow_cast
      <3>. QED  BY <3>2, <3>3, <3>4
    <2>. QED  BY <2>3, <2>4
  <1>. QED  BY <1>1, <1>2

LEMMA DeclinedForAReason ==
    ASSUME FramesFit, ~aligned
    PROVE  \/ Names(data) # Names(table) \/ Len(data) # Len(table)
           \/ \E i \in DOMAIN table : \E v \in Given(table[i]) : ~Fits(v, table[i])
  <1>. SUFFICES ASSUME Names(data) = Names(table), Len(data) = Len(table)
                PROVE  \E i \in DOMAIN table : \E v \in Given(table[i]) : ~Fits(v, table[i])
    OBVIOUS
  <1>1. PICK i \in DOMAIN table : column(table[i]) = {}  BY NamesAgree DEF aligned
  <1>2. ~Fits(Named(data, table[i].name).value, table[i])  BY <1>1, ColumnFits
  <1>. QED  BY <1>2, GivenOnce

-----------------------------------------------------------------------------
(* The inductive invariant.                                                 *)

ValueFits ==
    /\ value \in Values /\ type \in Types /\ bit64 \in BOOLEAN
    /\ stage \in {"R", "JSON", "built", "refused", "data", "written", "declined"}

\* The value as JSON, and as the literal of its column.
LiteralFits ==
    /\ stage = "JSON" => written(value) /\ json = json_scalar(value)
    /\ stage = "built" => written(value) /\ literal \in datum(json_scalar(value), type)
    /\ stage = "refused" => ~written(value) \/ datum(json_scalar(value), type) = {}

\* The cells that the frame became.
CellsFit ==
    /\ stage = "written" => aligned /\ Cast
    /\ stage = "declined" => ~aligned

\* The value is what R has of the cell that was read.
ReadFits ==
    stage \in {"R", "JSON", "built", "refused"} /\ read # <<>> =>
      \E c \in Held(type) : read = <<c>> /\ value \in convert(c, type, bit64)

IInv == FramesFit /\ ValueFits /\ LiteralFits /\ CellsFit /\ ReadFits

LEMMA InitIInv == RInit => IInv
  <1>. SUFFICES ASSUME RInit PROVE IInv  OBVIOUS
  <1>1. ValueFits
    <2>1. Of("NA", 0) \in Values /\ Typed("string") \in Types  BY DEF Values, Types
    <2>. QED  BY <2>1 DEF RInit, Init, ValueFits
  <1>2. FramesFit
    <2>1. CASE data = <<>> /\ table = <<>>
      BY <2>1 DEF FramesFit, Frames, Tables, Distinct
    <2>2. CASE \E a \in Appends : data = a.data /\ table = a.table
      BY <2>2, CellsAssumption DEF FramesFit, Frames, Tables, Distinct
    <2>. QED  BY <2>1, <2>2 DEF RInit
  <1>3. LiteralFits /\ CellsFit  BY DEF RInit, Init, LiteralFits, CellsFit
  <1>4. ReadFits  BY DEF RInit, ReadFits
  <1>. QED  BY <1>1, <1>2, <1>3, <1>4 DEF IInv
-----------------------------------------------------------------------------
(* Every step keeps it.                                                     *)

LEMMA EncodeKeeps ==
    ASSUME IInv, Encode, UNCHANGED <<data, table, cells, bit64, read>>
    PROVE  IInv'
  <1>1. FramesFit' /\ ValueFits'  BY DEF IInv, Encode, FramesFit, ValueFits
  <1>2. LiteralFits' /\ CellsFit'  BY DEF IInv, Encode, LiteralFits, CellsFit
  <1>3. ReadFits'  BY DEF IInv, Encode, ReadFits
  <1>. QED  BY <1>1, <1>2, <1>3 DEF IInv

LEMMA RefuseValueKeeps ==
    ASSUME IInv, RefuseValue, UNCHANGED <<data, table, cells, bit64, read>>
    PROVE  IInv'
  <1>1. FramesFit' /\ ValueFits'  BY DEF IInv, RefuseValue, FramesFit, ValueFits
  <1>2. LiteralFits' /\ CellsFit'  BY DEF IInv, RefuseValue, LiteralFits, CellsFit
  <1>3. ReadFits'  BY DEF IInv, RefuseValue, ReadFits
  <1>. QED  BY <1>1, <1>2, <1>3 DEF IInv

LEMMA BuildKeeps ==
    ASSUME IInv, Build, UNCHANGED <<data, table, cells, bit64, read>>
    PROVE  IInv'
  <1>1. FramesFit' /\ ValueFits'  BY DEF IInv, Build, FramesFit, ValueFits
  <1>2. LiteralFits' /\ CellsFit'  BY DEF IInv, Build, LiteralFits, CellsFit
  <1>3. ReadFits'  BY DEF IInv, Build, ReadFits
  <1>. QED  BY <1>1, <1>2, <1>3 DEF IInv

LEMMA RefuseLiteralKeeps ==
    ASSUME IInv, RefuseLiteral, UNCHANGED <<data, table, cells, bit64, read>>
    PROVE  IInv'
  <1>1. FramesFit' /\ ValueFits'  BY DEF IInv, RefuseLiteral, FramesFit, ValueFits
  <1>2. LiteralFits' /\ CellsFit'  BY DEF IInv, RefuseLiteral, LiteralFits, CellsFit
  <1>3. ReadFits'  BY DEF IInv, RefuseLiteral, ReadFits
  <1>. QED  BY <1>1, <1>2, <1>3 DEF IInv

LEMMA AlignKeeps ==
    ASSUME IInv, Align
    PROVE  IInv'
  <1>1. FramesFit' /\ ValueFits'  BY DEF IInv, Align, FramesFit, ValueFits
  <1>2. LiteralFits' /\ ReadFits'  BY DEF Align, LiteralFits, ReadFits
  <1>3. aligned'  BY DEF Align, aligned, repeated, unexpected, missing, column
  <1>4. Cast'  BY DEF Align, Cast, column
  <1>5. CellsFit'  BY <1>3, <1>4 DEF Align, CellsFit
  <1>. QED  BY <1>1, <1>2, <1>5 DEF IInv

LEMMA RefuseDataKeeps ==
    ASSUME IInv, RefuseData
    PROVE  IInv'
  <1>1. FramesFit' /\ ValueFits'  BY DEF IInv, RefuseData, FramesFit, ValueFits
  <1>2. LiteralFits' /\ ReadFits'  BY DEF RefuseData, LiteralFits, ReadFits
  <1>3. ~aligned'  BY DEF RefuseData, aligned, repeated, unexpected, missing, column
  <1>4. CellsFit'  BY <1>3 DEF RefuseData, CellsFit
  <1>. QED  BY <1>1, <1>2, <1>4 DEF IInv

\* What is read is a cell of the column that the name means.
LEMMA ReadKeeps ==
    ASSUME IInv, NEW name \in Names(table), Read(name)
    PROVE  IInv'
  <1>1. PICK i \in DOMAIN table : table[i].name = name  BY DEF Names
  <1>2. FramesFit /\ aligned /\ Cast  BY DEF IInv, Read, CellsFit
  <1>3. Names(data) = Names(table) /\ Len(data) = Len(table)
    BY <1>2, NamesAgree DEF aligned
  <1>4. type' = table[i].type /\ type' \in Types
    <2>1. Named(table, name) = table[i]  BY <1>1, <1>2, NamedOnly DEF FramesFit, Tables
    <2>. QED  BY <1>2, <1>3, <2>1, GivenOnce DEF Read
  <1>5. cells[name] \in Held(type')
    <2>1. cells[name] \in column(table[i])  BY <1>1, <1>2 DEF Cast
    <2>. QED  BY <1>2, <1>3, <1>4, <2>1, ColumnFits
  <1>6. bit64' \in BOOLEAN /\ value' \in convert(cells[name], type', bit64')  BY DEF Read
  <1>7. value' \in Values  BY <1>4, <1>5, <1>6, ReadValues
  <1>8. FramesFit'  BY DEF IInv, Read, FramesFit
  <1>9. ValueFits'  BY <1>4, <1>6, <1>7 DEF Read, ValueFits
  <1>10. LiteralFits' /\ CellsFit'  BY DEF Read, LiteralFits, CellsFit
  <1>11. ReadFits'
    <2>1. read' = <<cells[name]>>  BY DEF Read
    <2>. QED  BY <1>5, <1>6, <2>1 DEF ReadFits
  <1>. QED  BY <1>8, <1>9, <1>10, <1>11 DEF IInv

LEMMA StepKeepsIInv == IInv /\ [RNext]_rvars => IInv'
  <1>. SUFFICES ASSUME IInv, [RNext]_rvars PROVE IInv'  OBVIOUS
  <1>1. CASE Align  BY <1>1, AlignKeeps
  <1>2. CASE RefuseData  BY <1>2, RefuseDataKeeps
  <1>3. CASE \E name \in Names(table) : Read(name)  BY <1>3, ReadKeeps
  <1>4. CASE Next /\ UNCHANGED <<data, table, cells, bit64, read>>
    BY <1>4, EncodeKeeps, RefuseValueKeeps, BuildKeeps, RefuseLiteralKeeps DEF Next
  <1>5. CASE UNCHANGED rvars
    <2>1. FramesFit' /\ ValueFits'  BY <1>5 DEF IInv, rvars, vars, FramesFit, ValueFits
    <2>2. LiteralFits' /\ ReadFits'  BY <1>5 DEF IInv, rvars, vars, LiteralFits, ReadFits
    <2>3. CellsFit'
      <3>1. (Cast' <=> Cast) /\ (aligned' <=> aligned)
        BY <1>5 DEF rvars, Cast, column, aligned, repeated, unexpected, missing
      <3>. QED  BY <1>5, <3>1 DEF IInv, rvars, vars, CellsFit
    <2>. QED  BY <2>1, <2>2, <2>3 DEF IInv
  <1>. QED  BY <1>1, <1>2, <1>3, <1>4, <1>5 DEF RNext
-----------------------------------------------------------------------------
(* The theorems.                                                            *)

\* At every stage the value, its JSON, its literal, the cells and what was
\* read of them are functions of one another.
THEOREM RoundTripInvariant == RSpec => []IInv
  BY InitIInv, StepKeepsIInv, PTL DEF RSpec

LEMMA LiteralFollows == IInv => LiteralIsTheValue
  <1>. SUFFICES ASSUME IInv, stage = "built"
                PROVE  /\ Counts(value, type) =>
                            IF type.name = "float" THEN literal \in Nearest(value.x)
                            ELSE Exact(literal, value, type)
                       /\ Dates(value, type) =>
                            literal * Grid <= value.x /\ value.x < (literal + 1) * Grid
                       /\ Instants(value, type) =>
                            2 * Micros * Distance(literal * Grid, value.x * Unit(type)) <= Grid * Unit(type)
                       /\ type.name = "decimal" => Exact(literal, value, type)
                       /\ type.name = "string" /\ value \in Texts => literal = value
    BY DEF LiteralIsTheValue
  <1>1. /\ value \in Values /\ type \in Types /\ written(value)
        /\ literal \in datum(json_scalar(value), type)
    BY DEF IInv, ValueFits, LiteralFits
  <1>2. type.name = "string" /\ value \in Texts => literal = value
    BY <1>1, TextsKept
  <1>3. type.name = "decimal" => Exact(literal, value, type)  BY <1>1, DecimalIsExact
  <1>. QED  BY <1>1, <1>2, <1>3, NumbersKept, DatesKept, InstantsKept

\* A literal is the number that R's caller wrote, in the unit and at the
\* scale of the column: datum() neither clamps, wraps nor cuts.
THEOREM LiteralsAreTheValues == RSpec => []LiteralIsTheValue
  BY RoundTripInvariant, LiteralFollows, PTL

LEMMA RefusalFollows == IInv => RefusedForAReason
  <1>. SUFFICES ASSUME IInv, stage = "refused"
                PROVE  /\ Counts(value, type) /\ (value.class = "integer64" => type.name \notin {"float", "double"}) =>
                            \A c \in Cells(type) : ~Exact(c, value, type)
                       /\ Dates(value, type) => value.x \div Grid \notin Calendar
                       /\ Instants(value, type) /\ iso_utc(value.x) \in Clock =>
                            Unit(type) # Micros /\ iso_utc(value.x) * Nanos \notin Int64
                       /\ type.name = "string" => value \notin Texts
    BY DEF RefusedForAReason
  <1>1. value \in Values /\ type \in Types  BY DEF IInv, ValueFits
  <1>2. CASE ~written(value)
    <2>1. ~Counts(value, type) /\ ~Dates(value, type) /\ ~Instants(value, type)
      BY <1>2 DEF written, Counts, Dates, Instants
    <2>2. value \notin Texts
      <3>1. \A t \in Texts : t.class \notin {"NA", "NaN"} /\ t.x # Infinite
        BY TextKinds, NumbersAssumption
      <3>. QED  BY <1>2, <3>1 DEF written
    <2>. QED  BY <2>1, <2>2
  <1>3. CASE written(value) /\ datum(json_scalar(value), type) = {}
    BY <1>1, <1>3, NumbersRefused, DatesRefused, InstantsRefused, TextsKept
  <1>. QED  BY <1>2, <1>3 DEF IInv, LiteralFits

\* A number that some cell may equal is not refused, however it is written.
THEOREM RefusalsHaveAReason == RSpec => []RefusedForAReason
  BY RoundTripInvariant, RefusalFollows, PTL

\* An append writes what its caller gave, under the names it was given, and
\* declines only what the table cannot hold.
THEOREM AppendsAreAsGiven == RSpec => []WrittenAsGiven
  <1>1. IInv => WrittenAsGiven
    <2>1. IInv /\ stage = "written" => FramesFit /\ aligned /\ Cast  BY DEF IInv, CellsFit
    <2>2. IInv /\ stage = "declined" => FramesFit /\ ~aligned  BY DEF IInv, CellsFit
    <2>. QED  BY <2>1, <2>2, AlignedIsGiven, DeclinedForAReason DEF WrittenAsGiven
  <1>. QED  BY <1>1, RoundTripInvariant, PTL

LEMMA CellsFollow == IInv => CellsFilterToThemselves
  <1>. SUFFICES ASSUME IInv, read # <<>>, stage \in {"built", "refused"}
                PROVE  /\ stage = "built" => (Told(read[1], type) => literal = read[1])
                       /\ stage = "refused" /\ ~Absent(value) /\ value.x # Infinite =>
                            \/ type.name = "date" /\ read[1] \notin Calendar
                            \/ type.name \in Timestamps /\ iso_utc(value.x) \notin Clock
                            \/ type.name \in {"timestamp_ns", "timestamptz_ns"}
                                 /\ iso_utc(value.x) * Nanos \notin Int64
                            \/ type.name \in {"long", "decimal"} /\ ~Told(read[1], type)
    BY DEF CellsFilterToThemselves
  <1>1. PICK c \in Held(type) : read = <<c>> /\ value \in convert(c, type, bit64)
    BY DEF IInv, ReadFits
  <1>2. read[1] = c /\ type \in Types /\ bit64 \in BOOLEAN  BY <1>1 DEF IInv, ValueFits
  <1>3. stage = "built" => (Told(c, type) => literal = c)
    BY <1>1, <1>2, LiteralIsTheCell DEF IInv, LiteralFits
  <1>4. ASSUME stage = "refused", ~Absent(value), value.x # Infinite
        PROVE  /\ written(value) /\ datum(json_scalar(value), type) = {}
    <2>1. written(value)  BY <1>4 DEF Absent, written
    <2>. QED  BY <1>4, <2>1 DEF IInv, LiteralFits
  <1>. QED  BY <1>1, <1>2, <1>3, <1>4, CellsRefused

\* A value read from a table and put into a filter on its own column is the
\* cell it was read from.
THEOREM CellsAreTheirOwnFilters == RSpec => []CellsFilterToThemselves
  BY RoundTripInvariant, CellsFollow, PTL
=============================================================================
