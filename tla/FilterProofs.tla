------------------------------ MODULE FilterProofs ------------------------------
(***************************************************************************)
(* For every table, every row of it and every filter, the scan keeps the    *)
(* row exactly when R's expression is TRUE for it.  And for every file:     *)
(* statistics leave out none with a row that the filter keeps, so a scan    *)
(* that uses them is one that reads every file.                             *)
(***************************************************************************)
EXTENDS FilePruning, SequenceTheorems, TLAPS

-----------------------------------------------------------------------------
(* What is TRUE in R, and what Iceberg keeps.                               *)

LEMMA Truth ==
    ASSUME NEW b \in BOOLEAN
    PROVE  /\ TruthOf(b) \in Truths
           /\ TruthOf(b) = "T" <=> b
           /\ TruthOf(b) = "F" <=> ~b
  BY DEF TruthOf, Truths

LEMMA Conjunction ==
    ASSUME NEW a, NEW b
    PROVE  /\ And3(a, b) \in Truths
           /\ And3(a, b) = "T" <=> a = "T" /\ b = "T"
           /\ And3(a, b) = "F" <=> a = "F" \/ b = "F"
  BY DEF And3, Truths

LEMMA Disjunction ==
    ASSUME NEW a, NEW b
    PROVE  /\ Or3(a, b) \in Truths
           /\ Or3(a, b) = "T" <=> a = "T" \/ b = "T"
           /\ Or3(a, b) = "F" <=> a = "F" /\ b = "F"
  BY DEF Or3, Truths

LEMMA Negation ==
    ASSUME NEW a \in Truths
    PROVE  /\ Not3(a) \in Truths
           /\ Not3(a) = "T" <=> a = "F"
           /\ Not3(a) = "F" <=> a = "T"
  BY DEF Not3, Truths

\* A value compared by Iceberg, with row selection out of the way.
LEMMA IceCompareOfValue ==
    ASSUME NEW c, NEW cell, NEW op, NEW d, NEW sel \in BOOLEAN,
           cell.kind = "value", sel => Type[c] # "decimal"
    PROVE  IceCompare(op, c, cell, d, sel) = "T" <=> Holds(op, cell.v, d)
  BY DEF IceCompare, TruthOf, Holds

LEMMA ComparableCells ==
    ASSUME NEW c \in Columns, NEW cell \in Cells(c)
    PROVE  /\ comparable(c, cell) = "T" <=> cell.kind = "value"
           /\ present(c, cell) = "T" <=> cell.kind = "value"
           /\ missing(c, cell) = "T" <=> cell.kind # "value"
           /\ cell.kind = "nan" => is_float(c)
           /\ cell.kind \in {"value", "null", "absent", "nan"}
           /\ cell.kind = "value" => cell.v \in Values[c]
  <1>1. /\ cell.kind \in {"value", "null", "absent", "nan"}
        /\ cell.kind = "nan" => is_float(c)
        /\ cell.kind = "value" => cell.v \in Values[c]
    BY DEF Cells
  <1>2. /\ is_null(cell) = "T" <=> cell.kind \in {"null", "absent"}
        /\ is_not_null(cell) = "T" <=> cell.kind \notin {"null", "absent"}
        /\ is_nan(cell) = "T" <=> cell.kind = "nan"
        /\ is_not_nan(cell) = "T" <=> cell.kind # "nan"
    BY DEF is_null, is_not_null, is_nan, is_not_nan, TruthOf
  <1>3. And3(is_not_null(cell), is_not_nan(cell)) = "T"
          <=> is_not_null(cell) = "T" /\ is_not_nan(cell) = "T"
    BY Conjunction
  <1>4. Or3(is_null(cell), is_nan(cell)) = "T" <=> is_null(cell) = "T" \/ is_nan(cell) = "T"
    BY Disjunction
  <1> QED BY <1>1, <1>2, <1>3, <1>4 DEF comparable, present, missing

\* Restating a comparison with zero on the two zeros makes Iceberg's order R's.
LEMMA FloatCompareOfValue ==
    ASSUME NEW c \in Columns, NEW cell, NEW op \in Cmps, NEW d \in Int, NEW sel \in BOOLEAN,
           cell.kind = "value", cell.v \in Int, is_float(c)
    PROVE  float_compare(op, c, cell, d, sel) = "T"
             <=> Holds(op, Number(c, cell.v), Number(c, d))
  <1> DEFINE Ice(o, e) == IceCompare(o, c, cell, e, sel)
  <1>1. Type[c] # "decimal"
    BY DEF is_float
  <1>2. \A o, e : Ice(o, e) = "T" <=> Holds(o, cell.v, e)
    BY <1>1, IceCompareOfValue
  <1>3. /\ Number(c, cell.v) = IF cell.v < 0 THEN cell.v + 1 ELSE cell.v
        /\ Number(c, d) = IF d < 0 THEN d + 1 ELSE d
        /\ is_zero(c, d) <=> d \in {-1, 0}
    BY DEF Number, is_zero
  <1> HIDE DEF Ice
  <1>4. CASE ~is_zero(c, d)
    <2>1. float_compare(op, c, cell, d, sel) = Ice(op, d)
      BY <1>4 DEF float_compare, Ice
    <2> QED BY <2>1, <1>2, <1>3, <1>4 DEF Holds, Cmps
  <1>5. CASE is_zero(c, d)
    <2>1. float_compare(op, c, cell, d, sel) =
            CASE op = "eq" -> And3(Ice("gte", -1), Ice("lte", 0))
              [] op = "ne" -> Or3(Ice("lt", -1), Ice("gt", 0))
              [] op = "lt" -> Ice("lt", -1)
              [] op = "lte" -> Ice("lte", 0)
              [] op = "gt" -> Ice("gt", 0)
              [] op = "gte" -> Ice("gte", -1)
      BY <1>5 DEF float_compare, Ice, Cmps
    <2>2. And3(Ice("gte", -1), Ice("lte", 0)) = "T" <=> Ice("gte", -1) = "T" /\ Ice("lte", 0) = "T"
      BY Conjunction
    <2>3. Or3(Ice("lt", -1), Ice("gt", 0)) = "T" <=> Ice("lt", -1) = "T" \/ Ice("gt", 0) = "T"
      BY Disjunction
    <2> QED BY <2>1, <2>2, <2>3, <1>2, <1>3, <1>5 DEF Holds, Cmps
  <1> QED BY <1>4, <1>5

\* A comparison half is TRUE exactly where R's comparison is.
LEMMA CompareIsExact ==
    ASSUME NEW c \in Columns, NEW cell \in Cells(c), NEW op \in Cmps,
           NEW d \in Values[c], NEW sel \in BOOLEAN,
           sel => Type[c] # "decimal"
    PROVE  compare(op, c, cell, d, sel) = "T" <=> RCompare(op, c, cell, d) = "T"
  <1>1. d \in Int /\ Values[c] \subseteq Int
    BY ColumnsAssumption
  <1> DEFINE half == IF is_float(c) THEN float_compare(op, c, cell, d, sel)
                                    ELSE IceCompare(op, c, cell, d, sel)
  <1>2. compare(op, c, cell, d, sel) = "T" <=> half = "T" /\ cell.kind = "value"
    BY Conjunction, ComparableCells DEF compare
  <1>3. cell.kind = "value" => (half = "T" <=> Holds(op, Number(c, cell.v), Number(c, d)))
    BY <1>1, ComparableCells, FloatCompareOfValue, IceCompareOfValue DEF Number
  <1>4. RCompare(op, c, cell, d) = "T"
          <=> cell.kind = "value" /\ Holds(op, Number(c, cell.v), Number(c, d))
    BY DEF RCompare, TruthOf
  <1> QED BY <1>2, <1>3, <1>4

\* R says FALSE exactly where the negated operator is TRUE.
LEMMA NegatedCompare ==
    ASSUME NEW c \in Columns, NEW cell \in Cells(c), NEW op \in Cmps, NEW d \in Values[c]
    PROVE  /\ negate[op] \in Cmps
           /\ RCompare(op, c, cell, d) \in Truths
           /\ RCompare(negate[op], c, cell, d) = "T" <=> RCompare(op, c, cell, d) = "F"
  <1>1. /\ d \in Int
        /\ cell.kind = "value" => cell.v \in Int
    BY ColumnsAssumption, ComparableCells
  <1>2. /\ Number(c, d) \in Int
        /\ cell.kind = "value" => Number(c, cell.v) \in Int
    BY <1>1 DEF Number
  <1>3. negate[op] \in Cmps
    BY DEF negate, Cmps
  <1>4. \A x, y \in Int : Holds(negate[op], x, y) <=> ~Holds(op, x, y)
    BY DEF negate, Cmps, Holds
  <1>5. /\ RCompare(op, c, cell, d) \in Truths
        /\ RCompare(negate[op], c, cell, d) = "T"
             <=> cell.kind = "value" /\ Holds(negate[op], Number(c, cell.v), Number(c, d))
        /\ RCompare(op, c, cell, d) = "F"
             <=> cell.kind = "value" /\ ~Holds(op, Number(c, cell.v), Number(c, d))
    BY DEF RCompare, TruthOf, Truths
  <1> QED BY <1>2, <1>3, <1>4, <1>5


LEMMA SetPredicates ==
    ASSUME NEW c \in Columns, NEW cell \in Cells(c), NEW ds
    PROVE  /\ is_in(cell, ds) = "T" <=> cell.kind = "value" /\ cell.v \in ds
           /\ starts_with(cell, ds) = "T" <=> cell.kind = "value" /\ cell.v \in ds
           /\ cell.kind = "value" => (is_not_in(cell, ds) = "T" <=> cell.v \notin ds)
           /\ cell.kind = "value" => (not_starts_with(cell, ds) = "T" <=> cell.v \notin ds)
  <1>1. cell.kind \in {"value", "null", "absent", "nan"}
    BY ComparableCells
  <1>2. CASE cell.kind = "value"
    BY <1>2 DEF is_in, starts_with, is_not_in, not_starts_with, TruthOf
  <1>3. CASE cell.kind = "null"
    BY <1>3 DEF is_in, starts_with
  <1>4. CASE cell.kind \in {"nan", "absent"}
    <2>1. is_in(cell, ds) = "F" /\ starts_with(cell, ds) = "F"
      BY <1>4 DEF is_in, starts_with
    <2> QED BY <2>1, <1>4
  <1> QED BY <1>1, <1>2, <1>3, <1>4

\* The range that stands for a zero in a set matches zeros and nothing else.
LEMMA ZeroRange ==
    ASSUME NEW c \in Columns, NEW cell \in Cells(c), NEW sel \in BOOLEAN, is_float(c)
    PROVE  /\ float_compare("eq", c, cell, 0, sel) = "T"
                <=> cell.kind = "value" /\ Number(c, cell.v) = 0
           /\ cell.kind = "value" =>
                (float_compare("ne", c, cell, 0, sel) = "T" <=> Number(c, cell.v) # 0)
  <1>1. /\ cell.kind \in {"value", "null", "absent", "nan"}
        /\ cell.kind = "value" => cell.v \in Int
    BY ComparableCells, ColumnsAssumption
  <1>2. CASE cell.kind = "value"
    <2>1. Number(c, 0) = 0 /\ Number(c, cell.v) \in Int
      BY <1>1, <1>2 DEF Number
    <2>2. \A op \in {"eq", "ne"} : float_compare(op, c, cell, 0, sel) = "T"
                                     <=> Holds(op, Number(c, cell.v), Number(c, 0))
      BY <1>1, <1>2, FloatCompareOfValue DEF Cmps
    <2> QED BY <1>2, <2>1, <2>2 DEF Holds
  <1>3. CASE cell.kind # "value"
    <2>1. is_zero(c, 0)
      BY DEF is_zero
    <2>2. float_compare("eq", c, cell, 0, sel)
            = And3(IceCompare("gte", c, cell, -1, sel), IceCompare("lte", c, cell, 0, sel))
      BY <2>1 DEF float_compare
    <2>3. \/ IceCompare("gte", c, cell, -1, sel) # "T"
          \/ IceCompare("lte", c, cell, 0, sel) # "T"
      <3>1. CASE cell.kind = "null"
        BY <3>1 DEF IceCompare
      <3>2. CASE cell.kind = "nan"
        BY <3>2 DEF IceCompare, TruthOf
      <3>3. CASE cell.kind = "absent"
        BY <3>3 DEF IceCompare, TruthOf
      <3> QED BY <1>1, <1>3, <3>1, <3>2, <3>3
    <2> QED BY <1>3, <2>2, <2>3, Conjunction
  <1> QED BY <1>2, <1>3

\* `%in%` is never NA: its halves are exact, and between them cover every row.
LEMMA MembershipIsExact ==
    ASSUME NEW c \in Columns, NEW cell \in Cells(c), NEW ds \in SUBSET Values[c],
           NEW sel \in BOOLEAN
    PROVE  /\ membership(c, cell, ds, sel) = "T" <=> RIn(c, cell, ds) = "T"
           /\ not_membership(c, cell, ds, sel) = "T" <=> RIn(c, cell, ds) = "F"
  <1> DEFINE Among == cell.v \in Rest(c, ds)
             Zero == Zeros(c, ds) # {} /\ Number(c, cell.v) = 0
  <1>1. ds \subseteq Int /\ (cell.kind = "value" => cell.v \in Int)
    BY ComparableCells, ColumnsAssumption
  <1>2. cell.kind = "value" =>
          ((\E d \in ds : Number(c, d) = Number(c, cell.v)) <=> Among \/ Zero)
    <2>1. CASE is_float(c)
      BY <1>1, <2>1 DEF Number, Zeros, Rest, is_zero
    <2>2. CASE ~is_float(c)
      BY <1>1, <2>2 DEF Number, Zeros, Rest, is_zero
    <2> QED BY <2>1, <2>2
  <1>3. Zeros(c, ds) # {} => is_float(c)
    BY DEF Zeros, is_zero
  <1>4. membership(c, cell, ds, sel) = "T" <=> cell.kind = "value" /\ (Among \/ Zero)
    <2> DEFINE rest == IF Rest(c, ds) = {} THEN "F" ELSE is_in(cell, Rest(c, ds))
    <2>1. rest = "T" <=> cell.kind = "value" /\ Among
      BY SetPredicates
    <2>2. CASE Zeros(c, ds) = {}
      BY <2>1, <2>2 DEF membership
    <2>3. CASE Zeros(c, ds) # {}
      <3>1. membership(c, cell, ds, sel) = Or3(rest, float_compare("eq", c, cell, 0, sel))
        BY <2>3 DEF membership
      <3> HIDE DEF rest
      <3> QED BY <3>1, <2>1, <2>3, <1>3, Disjunction, ZeroRange
    <2> QED BY <2>2, <2>3
  <1>5. not_membership(c, cell, ds, sel) = "T" <=> ~(cell.kind = "value" /\ (Among \/ Zero))
    <2> DEFINE rest == IF Rest(c, ds) = {} THEN "T" ELSE is_not_in(cell, Rest(c, ds))
               both == IF Zeros(c, ds) = {} THEN rest
                       ELSE And3(rest, float_compare("ne", c, cell, 0, sel))
    <2>1. cell.kind = "value" => (rest = "T" <=> ~Among)
      BY SetPredicates
    <2>2. not_membership(c, cell, ds, sel) = Or3(both, missing(c, cell))
      BY DEF not_membership
    <2>3. cell.kind = "value" => (both = "T" <=> ~Among /\ ~Zero)
      <3> HIDE DEF rest
      <3>1. CASE Zeros(c, ds) = {}
        BY <2>1, <3>1
      <3>2. CASE Zeros(c, ds) # {}
        BY <2>1, <3>2, <1>3, Conjunction, ZeroRange
      <3> QED BY <3>1, <3>2
    <2> HIDE DEF both
    <2> QED BY <2>2, <2>3, Disjunction, ComparableCells
  <1>6. RIn(c, cell, ds) = TruthOf(cell.kind = "value" /\ (Among \/ Zero))
    BY <1>2 DEF RIn
  <1> HIDE DEF Among, Zero
  <1> QED BY <1>4, <1>5, <1>6, Truth

-----------------------------------------------------------------------------
(* Each node of the tree is built well.                                     *)

Good(tree) == tree \in Trees /\ Exact(tree)

\* A leaf is good when its halves are, row selection permitting.
LEMMA LeafIsGood ==
    ASSUME NEW r \in Truths, NEW t \in [BOOLEAN -> Truths], NEW f \in [BOOLEAN -> Truths],
           NEW decimal \in BOOLEAN,
           \A sel \in BOOLEAN : (sel => ~decimal) =>
               (t[sel] = "T" <=> r = "T") /\ (f[sel] = "T" <=> r = "F")
    PROVE  Good(Tree(r, t, f, decimal))
  BY DEF Good, Exact, Tree, Trees

LEMMA CompareIsGood ==
    ASSUME NEW c \in Columns, NEW cell \in Cells(c), NEW op \in Cmps, NEW d \in Values[c]
    PROVE  Good(Tree(RCompare(op, c, cell, d),
                     [s \in BOOLEAN |-> compare(op, c, cell, d, s)],
                     [s \in BOOLEAN |-> compare(negate[op], c, cell, d, s)],
                     Type[c] = "decimal"))
  <1>1. /\ negate[op] \in Cmps
        /\ RCompare(op, c, cell, d) \in Truths
        /\ RCompare(negate[op], c, cell, d) = "T" <=> RCompare(op, c, cell, d) = "F"
    BY NegatedCompare
  <1>2. \A s \in BOOLEAN : /\ compare(op, c, cell, d, s) \in Truths
                           /\ compare(negate[op], c, cell, d, s) \in Truths
    BY Conjunction DEF compare
  <1>3. \A s \in BOOLEAN : (s => Type[c] # "decimal") =>
            /\ compare(op, c, cell, d, s) = "T" <=> RCompare(op, c, cell, d) = "T"
            /\ compare(negate[op], c, cell, d, s) = "T" <=> RCompare(op, c, cell, d) = "F"
    BY <1>1, CompareIsExact
  <1> QED BY <1>1, <1>2, <1>3, LeafIsGood

\* Reversing the operands reverses the operator.
LEMMA FlippedIsCompare ==
    ASSUME NEW c \in Columns, NEW cell \in Cells(c), NEW op \in Cmps, NEW d \in Values[c]
    PROVE  /\ flipped_ops[op] \in Cmps
           /\ RCompare(flipped_ops[op], c, cell, d)
                = IF cell.kind = "value"
                    THEN TruthOf(Holds(op, Number(c, d), Number(c, cell.v))) ELSE "NA"
  <1>1. /\ d \in Int
        /\ cell.kind = "value" => cell.v \in Int
    BY ColumnsAssumption, ComparableCells
  <1>2. /\ Number(c, d) \in Int
        /\ cell.kind = "value" => Number(c, cell.v) \in Int
    BY <1>1 DEF Number
  <1>3. flipped_ops[op] \in Cmps
    BY DEF flipped_ops, Cmps
  <1>4. \A x, y \in Int : Holds(flipped_ops[op], x, y) <=> Holds(op, y, x)
    BY DEF flipped_ops, Cmps, Holds
  <1> QED BY <1>2, <1>3, <1>4 DEF RCompare, TruthOf

LEMMA IsNullIsGood ==
    ASSUME NEW c \in Columns, NEW cell \in Cells(c)
    PROVE  Good(Tree(RIsNa(cell), [s \in BOOLEAN |-> missing(c, cell)],
                     [s \in BOOLEAN |-> present(c, cell)], Type[c] = "decimal"))
  <1>1. missing(c, cell) \in Truths /\ present(c, cell) \in Truths
    BY Conjunction, Disjunction DEF missing, present, is_null, is_not_null, TruthOf, Truths
  <1>2. /\ RIsNa(cell) \in Truths
        /\ missing(c, cell) = "T" <=> RIsNa(cell) = "T"
        /\ present(c, cell) = "T" <=> RIsNa(cell) = "F"
    BY ComparableCells, Truth DEF RIsNa
  <1> QED BY <1>1, <1>2, LeafIsGood

LEMMA IsNanIsGood ==
    ASSUME NEW c \in Columns, NEW cell \in Cells(c)
    PROVE  Good(Tree(RIsNan(cell), [s \in BOOLEAN |-> is_nan(cell)],
                     [s \in BOOLEAN |-> is_not_nan(cell)], Type[c] = "decimal"))
  <1>1. is_nan(cell) \in Truths /\ is_not_nan(cell) \in Truths /\ RIsNan(cell) \in Truths
    BY DEF is_nan, is_not_nan, RIsNan, TruthOf, Truths
  <1>2. /\ is_nan(cell) = "T" <=> RIsNan(cell) = "T"
        /\ is_not_nan(cell) = "T" <=> RIsNan(cell) = "F"
    BY DEF is_nan, is_not_nan, RIsNan, TruthOf
  <1> QED BY <1>1, <1>2, LeafIsGood

LEMMA InIsGood ==
    ASSUME NEW c \in Columns, NEW cell \in Cells(c), NEW ds \in SUBSET Values[c]
    PROVE  Good(Tree(RIn(c, cell, ds), [s \in BOOLEAN |-> membership(c, cell, ds, s)],
                     [s \in BOOLEAN |-> not_membership(c, cell, ds, s)], Type[c] = "decimal"))
  <1>1. is_in(cell, Rest(c, ds)) \in Truths
    <2>1. cell.kind \in {"value", "null", "absent", "nan"}
      BY ComparableCells
    <2>2. CASE cell.kind = "value"
      BY <2>2 DEF is_in, TruthOf, Truths
    <2>3. CASE cell.kind = "null"
      BY <2>3 DEF is_in, Truths
    <2>4. CASE cell.kind \in {"nan", "absent"}
      BY <2>4 DEF is_in, Truths
    <2> QED BY <2>1, <2>2, <2>3, <2>4
  <1>2. \A s \in BOOLEAN : /\ membership(c, cell, ds, s) \in Truths
                           /\ not_membership(c, cell, ds, s) \in Truths
    BY <1>1, Disjunction DEF membership, not_membership, Truths
  <1>3. RIn(c, cell, ds) \in Truths
    BY DEF RIn, TruthOf, Truths
  <1> QED BY <1>2, <1>3, MembershipIsExact, LeafIsGood

LEMMA StartsWithIsGood ==
    ASSUME NEW c \in Columns, NEW cell \in Cells(c), NEW ds \in SUBSET Values[c]
    PROVE  Good(Tree(RStartsWith(cell, ds), [s \in BOOLEAN |-> prefix(c, cell, ds)],
                     [s \in BOOLEAN |-> not_prefix(c, cell, ds)], Type[c] = "decimal"))
  <1>1. prefix(c, cell, ds) \in Truths /\ not_prefix(c, cell, ds) \in Truths
    BY Conjunction DEF prefix, not_prefix
  <1>2. /\ prefix(c, cell, ds) = "T" <=> cell.kind = "value" /\ cell.v \in ds
        /\ not_prefix(c, cell, ds) = "T" <=> cell.kind = "value" /\ cell.v \notin ds
    BY Conjunction, SetPredicates, ComparableCells DEF prefix, not_prefix
  <1>3. /\ RStartsWith(cell, ds) \in Truths
        /\ RStartsWith(cell, ds) = "T" <=> cell.kind = "value" /\ cell.v \in ds
        /\ RStartsWith(cell, ds) = "F" <=> cell.kind = "value" /\ cell.v \notin ds
    BY DEF RStartsWith, TruthOf, Truths
  <1> QED BY <1>1, <1>2, <1>3, LeafIsGood

LEMMA ConstantIsGood ==
    ASSUME NEW b \in BOOLEAN
    PROVE  Good(Tree(TruthOf(b), [s \in BOOLEAN |-> TruthOf(b)],
                     [s \in BOOLEAN |-> TruthOf(~b)], FALSE))
  BY LeafIsGood, Truth

LEMMA NotIsGood ==
    ASSUME NEW a, Good(a)
    PROVE  Good(NotTree(a))
  BY LeafIsGood, Negation DEF NotTree, Good, Exact, Trees

LEMMA AndIsGood ==
    ASSUME NEW a, NEW b, Good(a), Good(b)
    PROVE  Good(AndTree(a, b))
  <1> DEFINE t == [s \in BOOLEAN |-> And3(a.t[s], b.t[s])]
             f == [s \in BOOLEAN |-> Or3(a.f[s], b.f[s])]
  <1>1. a.decimal \in BOOLEAN /\ b.decimal \in BOOLEAN
    BY DEF Good, Trees
  <1>2. And3(a.r, b.r) \in Truths /\ t \in [BOOLEAN -> Truths] /\ f \in [BOOLEAN -> Truths]
    BY Conjunction, Disjunction
  <1>3. ASSUME NEW sel \in BOOLEAN, sel => ~(a.decimal \/ b.decimal)
        PROVE  (t[sel] = "T" <=> And3(a.r, b.r) = "T") /\ (f[sel] = "T" <=> And3(a.r, b.r) = "F")
    <2>1. /\ a.t[sel] = "T" <=> a.r = "T"
          /\ a.f[sel] = "T" <=> a.r = "F"
          /\ b.t[sel] = "T" <=> b.r = "T"
          /\ b.f[sel] = "T" <=> b.r = "F"
      BY <1>3, <1>1 DEF Good, Exact
    <2>2. t[sel] = And3(a.t[sel], b.t[sel]) /\ f[sel] = Or3(a.f[sel], b.f[sel])
      OBVIOUS
    <2> QED BY <2>1, <2>2, Conjunction, Disjunction
  <1> HIDE DEF t, f
  <1>4. Good(Tree(And3(a.r, b.r), t, f, a.decimal \/ b.decimal))
    BY <1>1, <1>2, <1>3, LeafIsGood
  <1> QED BY <1>4 DEF AndTree, t, f

LEMMA OrIsGood ==
    ASSUME NEW a, NEW b, Good(a), Good(b)
    PROVE  Good(OrTree(a, b))
  <1> DEFINE t == [s \in BOOLEAN |-> Or3(a.t[s], b.t[s])]
             f == [s \in BOOLEAN |-> And3(a.f[s], b.f[s])]
  <1>1. a.decimal \in BOOLEAN /\ b.decimal \in BOOLEAN
    BY DEF Good, Trees
  <1>2. Or3(a.r, b.r) \in Truths /\ t \in [BOOLEAN -> Truths] /\ f \in [BOOLEAN -> Truths]
    BY Conjunction, Disjunction
  <1>3. ASSUME NEW sel \in BOOLEAN, sel => ~(a.decimal \/ b.decimal)
        PROVE  (t[sel] = "T" <=> Or3(a.r, b.r) = "T") /\ (f[sel] = "T" <=> Or3(a.r, b.r) = "F")
    <2>1. /\ a.t[sel] = "T" <=> a.r = "T"
          /\ a.f[sel] = "T" <=> a.r = "F"
          /\ b.t[sel] = "T" <=> b.r = "T"
          /\ b.f[sel] = "T" <=> b.r = "F"
      BY <1>3, <1>1 DEF Good, Exact
    <2>2. t[sel] = Or3(a.t[sel], b.t[sel]) /\ f[sel] = And3(a.f[sel], b.f[sel])
      OBVIOUS
    <2> QED BY <2>1, <2>2, Conjunction, Disjunction
  <1> HIDE DEF t, f
  <1>4. Good(Tree(Or3(a.r, b.r), t, f, a.decimal \/ b.decimal))
    BY <1>1, <1>2, <1>3, LeafIsGood
  <1> QED BY <1>4 DEF OrTree, t, f

-----------------------------------------------------------------------------
(* The stack.                                                               *)

Inv == TypeOK /\ HalvesAreExact /\ ScanKeepsTrueRows

LEMMA PushKeepsInv ==
    ASSUME Inv, NEW tree, Good(tree), Push(tree)
    PROVE  Inv'
  <1> USE DEF Inv, Push
  <1>1. stack \in Seq(Trees) /\ tree \in Trees /\ Exact(tree)
    BY DEF Good, TypeOK
  <1>2. TypeOK'
    BY <1>1 DEF TypeOK
  <1>3. HalvesAreExact'
    <2>1. SUFFICES ASSUME NEW i \in 1..Len(stack')
                   PROVE  Exact(stack'[i])
      BY DEF HalvesAreExact, Exact
    <2>2. stack'[i] = IF i = Len(stack) + 1 THEN tree ELSE stack[i]
      BY <1>1
    <2>3. i # Len(stack) + 1 => i \in 1..Len(stack)
      BY <1>1
    <2> QED BY <1>1, <2>2, <2>3 DEF HalvesAreExact
  <1>4. ScanKeepsTrueRows'
    BY DEF ScanKeepsTrueRows
  <1> QED BY <1>2, <1>3, <1>4

LEMMA NegateKeepsInv ==
    ASSUME Inv, Negate
    PROVE  Inv'
  <1> USE DEF Inv, Negate
  <1>1. stack \in Seq(Trees) /\ Len(stack) \in 1..Len(stack)
    BY DEF TypeOK
  <1>2. Good(NotTree(Top))
    BY <1>1, NotIsGood DEF Good, Top, HalvesAreExact
  <1>3. TypeOK'
    BY <1>1, <1>2 DEF TypeOK, Good
  <1>4. HalvesAreExact'
    <2>1. SUFFICES ASSUME NEW i \in 1..Len(stack')
                   PROVE  Exact(stack'[i])
      BY DEF HalvesAreExact, Exact
    <2>2. i \in 1..Len(stack) /\ stack'[i] = IF i = Len(stack) THEN NotTree(Top) ELSE stack[i]
      BY <1>1
    <2> QED BY <1>2, <2>2 DEF HalvesAreExact, Good
  <1>5. ScanKeepsTrueRows'
    BY DEF ScanKeepsTrueRows
  <1> QED BY <1>3, <1>4, <1>5

LEMMA CombineKeepsInv ==
    ASSUME Inv, NEW tree, Good(tree), Combine(tree)
    PROVE  Inv'
  <1> USE DEF Inv, Combine
  <1> DEFINE below == SubSeq(stack, 1, Len(stack) - 2)
  <1>1. stack \in Seq(Trees) /\ Len(stack) > 1 /\ tree \in Trees /\ Exact(tree)
    BY DEF TypeOK, Good
  <1>2. /\ below \in Seq(Trees)
        /\ Len(below) = Len(stack) - 2
        /\ \A i \in 1..Len(stack) - 2 : below[i] = stack[i]
    <2> DEFINE n == Len(stack) - 2
    <2>1. n \in Nat /\ \A i \in 1..n : stack[i] \in Trees
      BY <1>1
    <2>2. /\ SubSeq(stack, 1, n) \in Seq(Trees)
          /\ Len(SubSeq(stack, 1, n)) = IF 1 <= n THEN n - 1 + 1 ELSE 0
          /\ \A i \in 1..(n - 1 + 1) : SubSeq(stack, 1, n)[i] = stack[1 + i - 1]
      <3> HIDE DEF n
      <3> QED BY ONLY <2>1, SubSeqProperties, 1 \in Int
    <2> HIDE DEF n
    <2>3. below = SubSeq(stack, 1, n)
      BY DEF n
    <2>4. /\ below \in Seq(Trees)
          /\ Len(below) = n
          /\ \A i \in 1..n : below[i] = stack[i]
      <3>1. \A i \in 1..n : 1 + i - 1 = i /\ i \in 1..(n - 1 + 1)
        BY <2>1
      <3>2. (IF 1 <= n THEN n - 1 + 1 ELSE 0) = n
        BY <2>1
      <3> HIDE DEF below
      <3> QED BY <2>2, <2>3, <3>1, <3>2
    <2> QED BY <2>4 DEF n
  <1>3. stack' = Append(below, tree)
    OBVIOUS
  <1> HIDE DEF below
  <1>4. TypeOK'
    BY <1>1, <1>2, <1>3 DEF TypeOK
  <1>5. HalvesAreExact'
    <2>1. SUFFICES ASSUME NEW i \in 1..Len(stack')
                   PROVE  Exact(stack'[i])
      BY DEF HalvesAreExact, Exact
    <2>2. stack'[i] = IF i = Len(stack) - 1 THEN tree ELSE below[i]
      BY <1>1, <1>2, <1>3
    <2>3. i # Len(stack) - 1 => i \in 1..Len(stack) - 2 /\ i \in 1..Len(stack)
      BY <1>1, <1>2, <1>3
    <2> QED BY <1>1, <1>2, <2>2, <2>3 DEF HalvesAreExact
  <1>6. ScanKeepsTrueRows'
    BY DEF ScanKeepsTrueRows
  <1> QED BY <1>4, <1>5, <1>6

LEMMA ScanKeepsInv ==
    ASSUME Inv, Scan
    PROVE  Inv'
  <1> USE DEF Inv, Scan
  <1>1. stack \in Seq(Trees) /\ Len(stack) = 1 /\ stack[1] \in Trees
    BY DEF TypeOK
  <1>2. Exact(stack[1])
    BY <1>1 DEF HalvesAreExact
  <1>3. Top.t[~Top.decimal] = "T" <=> Top.r = "T"
    BY <1>1, <1>2 DEF Top, Exact, Trees
  <1>4. TypeOK' /\ HalvesAreExact'
    BY DEF TypeOK, HalvesAreExact, Exact
  <1>5. ScanKeepsTrueRows'
    BY <1>3 DEF ScanKeepsTrueRows, Top
  <1> QED BY <1>4, <1>5

LEMMA NextKeepsInv ==
    ASSUME Inv, [Next]_vars
    PROVE  Inv'
  <1>1. \A c \in Columns : row[c] \in Cells(c)
    BY DEF Inv, TypeOK, Rows
  <1>2. ASSUME NEW b \in BOOLEAN, Constant(b)
        PROVE  Inv'
    BY <1>2, ConstantIsGood, PushKeepsInv DEF Constant
  <1>3. ASSUME NEW c \in Columns, NEW op \in Cmps, NEW d \in Values[c], Compare(c, op, d)
        PROVE  Inv'
    BY <1>1, <1>3, CompareIsGood, PushKeepsInv DEF Compare, Leaf
  <1>4. ASSUME NEW c \in Columns, NEW op \in Cmps, NEW d \in Values[c],
               CompareFlipped(c, op, d)
        PROVE  Inv'
    BY <1>1, <1>4, FlippedIsCompare, CompareIsGood, PushKeepsInv DEF CompareFlipped, Leaf
  <1>5. ASSUME NEW c \in Columns, IsNull(c)
        PROVE  Inv'
    BY <1>1, <1>5, IsNullIsGood, PushKeepsInv DEF IsNull, Leaf
  <1>6. ASSUME NEW c \in Columns, IsNan(c)
        PROVE  Inv'
    BY <1>1, <1>6, IsNanIsGood, PushKeepsInv DEF IsNan, Leaf
  <1>7. ASSUME NEW c \in Columns, NEW ds \in SUBSET Values[c], In(c, ds)
        PROVE  Inv'
    BY <1>1, <1>7, InIsGood, PushKeepsInv DEF In, Leaf
  <1>8. ASSUME NEW c \in Columns, NEW ds \in SUBSET Values[c], StartsWith(c, ds)
        PROVE  Inv'
    BY <1>1, <1>8, StartsWithIsGood, PushKeepsInv DEF StartsWith, Leaf
  <1>9. ASSUME Len(stack) > 1, Combine(AndTree(Second, Top)) \/ Combine(OrTree(Second, Top))
        PROVE  Inv'
    <2>1. Good(Top) /\ Good(Second)
      BY <1>9 DEF Inv, TypeOK, HalvesAreExact, Good, Top, Second
    <2> QED BY <1>9, <2>1, AndIsGood, OrIsGood, CombineKeepsInv
  <1>10. CASE UNCHANGED vars
    BY <1>10 DEF vars, Inv, TypeOK, HalvesAreExact, Exact, ScanKeepsTrueRows, Top
  <1> QED BY <1>2, <1>3, <1>4, <1>5, <1>6, <1>7, <1>8, <1>9, <1>10,
             NegateKeepsInv, ScanKeepsInv DEF Next

LEMMA InvHolds == Spec => []Inv
  <1>1. Init => Inv
    BY DEF Init, Inv, TypeOK, HalvesAreExact, ScanKeepsTrueRows
  <1> QED BY <1>1, NextKeepsInv, PTL DEF Spec

\* However a filter is nested, the halves built for each subtree match the row
\* exactly when R says TRUE and FALSE.
THEOREM TreesAreExact == Spec => []HalvesAreExact
  BY InvHolds, PTL DEF Inv

\* A scan returns the rows where R's expression is TRUE and no others, for
\* every table and every filter.
THEOREM FilterIsR == Spec => []ScanKeepsTrueRows
  BY InvHolds, PTL DEF Inv

\* Every value the translation computes is one of the three truth values.
THEOREM TypesAreRight == Spec => []TypeOK
  BY InvHolds, PTL DEF Inv

-----------------------------------------------------------------------------
(* What the statistics know of the filter's row.                            *)

LEMMA CellIsCounted ==
    ASSUME NEW c \in Columns, row \in file
    PROVE  /\ \A k : row[c].kind = k => Has(c, k)
           /\ \A k : row[c].kind # k => HasBut(c, k)
           /\ row[c].kind = "value" => Number(c, row[c].v) \in Valued(c)
  BY DEF Has, HasBut, Valued, Column

LEMMA NumberIsInt ==
    ASSUME NEW c, NEW x \in Int
    PROVE  /\ Number(c, x) \in Int
           /\ ~is_float(c) => Number(c, x) = x
           /\ is_zero(c, x) => Number(c, x) = 0 /\ is_float(c)
           /\ is_float(c) => Number(c, -1) = 0 /\ Number(c, 0) = 0 /\ is_zero(c, 0)
  BY DEF Number, is_zero

\* A value for which a comparison holds is among the bounds.
LEMMA BoundsHoldValues ==
    ASSUME NEW c, NEW op \in Cmps, NEW d \in Int, NEW v \in Int,
           v \in Valued(c), Holds(op, v, Number(c, d))
    PROVE  may_be(c, op, d)
  <1>1. op \in {"eq", "ne"} \/ \E w \in Valued(c) : Holds(op, w, Number(c, d))
    OBVIOUS
  <1>2. op = "eq" => v <= Number(c, d) /\ v >= Number(c, d)
    BY NumberIsInt DEF Holds
  <1> QED BY <1>1, <1>2 DEF may_be

LEMMA FloatBoundsHoldValues ==
    ASSUME NEW c, NEW op \in Cmps, NEW d \in Int, NEW v \in Int, is_float(c),
           v \in Valued(c), Holds(op, v, Number(c, d))
    PROVE  may_float_compare(op, c, d)
  <1>1. CASE ~is_zero(c, d)
    BY <1>1, BoundsHoldValues DEF may_float_compare
  <1>2. CASE is_zero(c, d)
    <2>1. Number(c, d) = 0 /\ Number(c, -1) = 0 /\ Number(c, 0) = 0
      BY <1>2, NumberIsInt
    <2>2. \A o \in Cmps, e \in {-1, 0} : Holds(o, v, 0) => may_be(c, o, e)
      BY <2>1, BoundsHoldValues
    <2>3. CASE op = "eq"
      <3>1. Holds("gte", v, 0) /\ Holds("lte", v, 0)
        BY <2>1, <2>3 DEF Holds
      <3>2. may_be(c, "gte", -1) /\ may_be(c, "lte", 0)
        BY <2>2, <3>1 DEF Cmps
      <3> QED BY <1>2, <2>3, <3>2 DEF may_float_compare
    <2>4. CASE op = "ne"
      <3>1. Holds("lt", v, 0) \/ Holds("gt", v, 0)
        BY <2>1, <2>4 DEF Holds
      <3>2. may_be(c, "lt", -1) \/ may_be(c, "gt", 0)
        BY <2>2, <3>1 DEF Cmps
      <3> QED BY <1>2, <2>4, <3>2 DEF may_float_compare
    <2>5. CASE op \in {"lt", "lte", "gt", "gte"}
      <3>1. may_be(c, op, -1) /\ may_be(c, op, 0)
        BY <2>1, <2>2, <2>5
      <3> QED BY <1>2, <2>5, <3>1 DEF may_float_compare
    <2> QED BY <2>3, <2>4, <2>5 DEF Cmps
  <1> QED BY <1>1, <1>2

-----------------------------------------------------------------------------
(* Each half that matches the row is one that its statistics let match.     *)

LEMMA ValueIsComparable ==
    ASSUME NEW c \in Columns, row \in file, row[c].kind = "value"
    PROVE  may_comparable(c)
  BY CellIsCounted DEF may_comparable, may_not_null, may_not_nan

LEMMA OthersAreMissing ==
    ASSUME NEW c \in Columns, row \in file, row[c] \in Cells(c), row[c].kind # "value"
    PROVE  may_miss(c)
  <1>1. /\ row[c].kind \in {"null", "absent", "nan"}
        /\ row[c].kind = "nan" => is_float(c)
    BY ComparableCells
  <1> QED BY <1>1, CellIsCounted DEF may_miss, may_null, may_nan, Unknown

LEMMA CompareRulesOut ==
    ASSUME NEW c \in Columns, row \in file, row[c] \in Cells(c), NEW op \in Cmps,
           NEW d \in Values[c], NEW sel \in BOOLEAN, compare(op, c, row[c], d, sel) = "T"
    PROVE  may_compare(op, c, d)
  <1> DEFINE cell == row[c]
             half == IF is_float(c) THEN float_compare(op, c, cell, d, sel)
                                    ELSE IceCompare(op, c, cell, d, sel)
  <1>1. half = "T" /\ cell.kind = "value"
    BY Conjunction, ComparableCells DEF compare
  <1>2. d \in Int /\ cell.v \in Int
    BY <1>1, ComparableCells, ColumnsAssumption
  <1>3. Number(c, cell.v) \in Valued(c) /\ Number(c, cell.v) \in Int
    BY <1>1, <1>2, CellIsCounted, NumberIsInt
  <1>4. CASE is_float(c)
    <2>1. Holds(op, Number(c, cell.v), Number(c, d))
      BY <1>1, <1>2, <1>4, FloatCompareOfValue
    <2> QED BY <1>1, <1>2, <1>3, <1>4, <2>1, FloatBoundsHoldValues, ValueIsComparable
            DEF may_compare
  <1>5. CASE ~is_float(c)
    <2>1. Holds(op, cell.v, d)
      BY <1>1, <1>5 DEF IceCompare, TruthOf
    <2>2. Holds(op, Number(c, cell.v), Number(c, d))
      BY <2>1, <1>2, <1>5, NumberIsInt
    <2> QED BY <1>1, <1>2, <1>3, <1>5, <2>2, BoundsHoldValues, ValueIsComparable
            DEF may_compare
  <1> QED BY <1>4, <1>5

LEMMA MissingRulesOut ==
    ASSUME NEW c \in Columns, row \in file, row[c] \in Cells(c)
    PROVE  /\ missing(c, row[c]) = "T" => may_miss(c)
           /\ present(c, row[c]) = "T" => may_comparable(c)
  BY ComparableCells, OthersAreMissing, ValueIsComparable

LEMMA NanRulesOut ==
    ASSUME NEW c \in Columns, row \in file
    PROVE  /\ is_nan(row[c]) = "T" => may_nan(c)
           /\ is_not_nan(row[c]) = "T" => may_not_nan(c)
  BY CellIsCounted DEF is_nan, is_not_nan, may_nan, may_not_nan, TruthOf

LEMMA InRulesOut ==
    ASSUME NEW c \in Columns, row \in file, row[c] \in Cells(c),
           NEW ds \in SUBSET Values[c], NEW sel \in BOOLEAN
    PROVE  /\ membership(c, row[c], ds, sel) = "T" => may_belong(c, ds)
           /\ not_membership(c, row[c], ds, sel) = "T" => may_not_belong(c, ds)
  <1> DEFINE cell == row[c]
             n == Number(c, cell.v)
  <1>1. /\ ds \subseteq Int
        /\ cell.kind = "value" => cell.v \in Int /\ n \in Int /\ n \in Valued(c)
    BY ColumnsAssumption, ComparableCells, CellIsCounted, NumberIsInt
  <1>2. ASSUME cell.kind = "value", NEW d \in ds, Number(c, d) = n
        PROVE  may_belong(c, ds)
    <2>1. CASE d \in Zeros(c, ds)
      <3>1. is_float(c) /\ n = 0 /\ Number(c, 0) = 0
        BY <1>1, <1>2, <2>1, NumberIsInt DEF Zeros
      <3>2. may_float_compare("eq", c, 0)
        BY <1>1, <1>2, <3>1, FloatBoundsHoldValues DEF Holds, Cmps
      <3> QED BY <2>1, <3>2 DEF may_belong
    <2>2. CASE d \in Rest(c, ds)
      <3>1. Number(c, d) >= n /\ Number(c, d) <= n
        BY <1>1, <1>2
      <3>2. may_be_in(c, Rest(c, ds))
        BY <1>1, <1>2, <2>2, <3>1 DEF may_be_in
      <3> QED BY <2>2, <3>2 DEF may_belong
    <2> QED BY <2>1, <2>2 DEF Rest
  <1>3. ASSUME cell.kind = "value", \A d \in ds : Number(c, d) # n, Zeros(c, ds) # {}
        PROVE  may_float_compare("ne", c, 0)
    <2>1. PICK z \in ds : is_zero(c, z)
      BY <1>3 DEF Zeros
    <2>2. is_float(c) /\ Number(c, z) = 0 /\ Number(c, 0) = 0 /\ n # 0
      BY <1>1, <1>3, <2>1, NumberIsInt
    <2> QED BY <1>1, <1>3, <2>2, FloatBoundsHoldValues DEF Holds, Cmps
  <1>4. /\ RIn(c, cell, ds) = "T" => cell.kind = "value" /\ \E d \in ds : Number(c, d) = n
        /\ RIn(c, cell, ds) = "F" => (cell.kind = "value" => \A d \in ds : Number(c, d) # n)
    BY DEF RIn, TruthOf
  <1>5. /\ membership(c, cell, ds, sel) = "T" <=> RIn(c, cell, ds) = "T"
        /\ not_membership(c, cell, ds, sel) = "T" <=> RIn(c, cell, ds) = "F"
    BY MembershipIsExact
  <1>6. cell.kind # "value" => may_miss(c)
    BY OthersAreMissing
  <1> QED BY <1>2, <1>3, <1>4, <1>5, <1>6 DEF may_not_belong

LEMMA PrefixRulesOut ==
    ASSUME NEW c \in Columns, row \in file, row[c] \in Cells(c), Type[c] = "string", NEW ds
    PROVE  /\ prefix(c, row[c], ds) = "T" => may_be_in(c, ds) /\ may_comparable(c)
           /\ not_prefix(c, row[c], ds) = "T" => may_start_without(c, ds) /\ may_comparable(c)
  <1>1. /\ prefix(c, row[c], ds) = "T" <=> row[c].kind = "value" /\ row[c].v \in ds
        /\ not_prefix(c, row[c], ds) = "T" <=> row[c].kind = "value" /\ row[c].v \notin ds
    BY Conjunction, SetPredicates, ComparableCells DEF prefix, not_prefix
  <1>2. row[c].kind = "value" =>
           row[c].v \in Int /\ row[c].v \in Valued(c) /\ Number(c, row[c].v) = row[c].v
    BY ComparableCells, ColumnsAssumption, CellIsCounted, NumberIsInt DEF is_float
  <1>3. row[c].kind = "value" /\ row[c].v \in ds => may_be_in(c, ds)
    BY <1>2 DEF may_be_in
  <1>4. row[c].kind = "value" /\ row[c].v \notin ds => may_start_without(c, ds)
    BY <1>2 DEF may_start_without
  <1> QED BY <1>1, <1>3, <1>4, ValueIsComparable

-----------------------------------------------------------------------------
(* The stacks keep step.                                                    *)

\* A subtree and what the statistics say of its halves.
Sound(tree, half) ==
    \A sel \in BOOLEAN : /\ tree.t[sel] = "T" => half.t
                         /\ tree.f[sel] = "T" => half.f

\* A plan is made of the whole filter, which is not built on.
PlanIsLast ==
    /\ plan # "none" => Len(stack) = 1
    /\ plan = "left out" => ~may[1].t

PInv == Inv /\ PTypeOK /\ RuledOutIsNoMatch /\ PlanIsLast

LEMMA SoundStacks ==
    ASSUME PInv
    PROVE  \A i \in 1..Len(stack) : Sound(stack[i], may[i]) /\ may[i] \in Half
  <1> SUFFICES ASSUME NEW i \in 1..Len(stack)
               PROVE  Sound(stack[i], may[i]) /\ may[i] \in Half
    OBVIOUS
  <1>1. may \in Seq(Half) /\ Len(may) = Len(stack)
    BY DEF PInv, PTypeOK
  <1>2. may[i] \in Half
    BY <1>1
  <1>3. may[i].t \in BOOLEAN /\ may[i].f \in BOOLEAN
    BY <1>2 DEF Half
  <1>4. \A sel \in BOOLEAN : /\ ~may[i].t => stack[i].t[sel] # "T"
                             /\ ~may[i].f => stack[i].f[sel] # "T"
    BY DEF PInv, RuledOutIsNoMatch
  <1> QED BY <1>2, <1>3, <1>4 DEF Sound

LEMMA PushKeepsPInv ==
    ASSUME PInv, Inv', NEW tree, Push(tree), NEW t \in BOOLEAN, NEW f \in BOOLEAN,
           Pushes(t, f), \A sel \in BOOLEAN : (tree.t[sel] = "T" => t) /\ (tree.f[sel] = "T" => f)
    PROVE  PInv'
  <1> DEFINE half == [t |-> t, f |-> f]
  <1>1. /\ may \in Seq(Half) /\ Len(may) = Len(stack) /\ stack \in Seq(Trees)
        /\ half \in Half
        /\ may' = Append(may, half) /\ stack' = Append(stack, tree)
    BY DEF PInv, PTypeOK, Inv, TypeOK, Half, Pushes, Push
  <1>2. half.t = t /\ half.f = f
    OBVIOUS
  <1> HIDE DEF half
  <1>3. may' \in Seq(Half) /\ Len(may') = Len(stack')
    BY <1>1
  <1>4. PTypeOK'
    BY <1>3 DEF PTypeOK, PInv, Pushes, Push
  <1>5. RuledOutIsNoMatch'
    <2>1. SUFFICES ASSUME NEW i \in 1..Len(stack'), NEW sel \in BOOLEAN
                   PROVE  /\ ~may'[i].t => stack'[i].t[sel] # "T"
                          /\ ~may'[i].f => stack'[i].f[sel] # "T"
      BY DEF RuledOutIsNoMatch
    <2>2. CASE i = Len(stack) + 1
      <3>1. stack'[i] = tree /\ may'[i] = half
        BY <1>1, <2>2
      <3> QED BY <3>1, <1>2
    <2>3. CASE i # Len(stack) + 1
      <3>1. i \in 1..Len(stack) /\ stack'[i] = stack[i] /\ may'[i] = may[i]
        BY <1>1, <2>3
      <3> QED BY <3>1 DEF PInv, RuledOutIsNoMatch
    <2> QED BY <2>2, <2>3
  <1>6. PlanIsLast'
    BY DEF PlanIsLast, Pushes
  <1> QED BY <1>4, <1>5, <1>6 DEF PInv

\* One subtree is put in the place of another.
LEMMA ReplacedInPlace ==
    ASSUME NEW S, NEW s \in Seq(S), NEW n \in 1..Len(s), NEW x
    PROVE  /\ Len([s EXCEPT ![n] = x]) = Len(s)
           /\ x \in S => [s EXCEPT ![n] = x] \in Seq(S)
  OBVIOUS

LEMMA NegateKeepsPInv ==
    ASSUME PInv, Inv', PNegate
    PROVE  PInv'
  <1> DEFINE n == Len(stack)
  <1>1. /\ may \in Seq(Half) /\ Len(may) = n /\ stack \in Seq(Trees) /\ n \in 1..n
        /\ may' = [may EXCEPT ![n] = Swap(may[n])]
        /\ stack' = [stack EXCEPT ![n] = NotTree(stack[n])]
        /\ plan = "none" /\ plan' = "none" /\ row' = row /\ file' = file
    BY DEF PInv, PTypeOK, Inv, TypeOK, PNegate, Negate, Top
  <1>2. Sound(stack[n], may[n]) /\ may[n] \in Half
    BY <1>1, SoundStacks
  <1>3. Swap(may[n]) \in Half /\ Sound(NotTree(stack[n]), Swap(may[n]))
    BY <1>2 DEF Swap, Half, NotTree, Tree, Sound
  <1> HIDE DEF n
  <1>4. PTypeOK'
    <2>1. /\ [may EXCEPT ![n] = Swap(may[n])] \in Seq(Half)
          /\ Len([may EXCEPT ![n] = Swap(may[n])]) = Len(may)
          /\ Len([stack EXCEPT ![n] = NotTree(stack[n])]) = Len(stack)
      BY <1>1, <1>3, ReplacedInPlace
    <2> QED BY <1>1, <2>1 DEF PTypeOK, PInv
  <1>5. RuledOutIsNoMatch'
    <2>1. SUFFICES ASSUME NEW i \in 1..Len(stack'), NEW sel \in BOOLEAN
                   PROVE  /\ ~may'[i].t => stack'[i].t[sel] # "T"
                          /\ ~may'[i].f => stack'[i].f[sel] # "T"
      BY DEF RuledOutIsNoMatch
    <2>2. i \in 1..Len(stack)
      BY <1>1
    <2>3. CASE i = n
      <3>1. stack'[i] = NotTree(stack[n]) /\ may'[i] = Swap(may[n])
        BY <1>1, <2>3
      <3> QED BY <3>1, <1>3 DEF Sound
    <2>4. CASE i # n
      <3>1. stack'[i] = stack[i] /\ may'[i] = may[i]
        BY <1>1, <2>2, <2>4 DEF n
      <3> QED BY <3>1, <2>2 DEF PInv, RuledOutIsNoMatch
    <2> QED BY <2>3, <2>4
  <1>6. PlanIsLast'
    BY <1>1 DEF PlanIsLast
  <1> QED BY <1>4, <1>5, <1>6 DEF PInv

\* The first n entries of a stack.
LEMMA Below ==
    ASSUME NEW S, NEW s \in Seq(S), NEW n \in 0..Len(s)
    PROVE  /\ SubSeq(s, 1, n) \in Seq(S) /\ Len(SubSeq(s, 1, n)) = n
           /\ \A i \in 1..n : SubSeq(s, 1, n)[i] = s[i]
  <1>1. n \in Nat /\ n \in Int /\ 1 \in Int /\ \A i \in 1..n : s[i] \in S
    OBVIOUS
  <1>2. /\ SubSeq(s, 1, n) \in Seq(S)
        /\ Len(SubSeq(s, 1, n)) = IF 1 <= n THEN n - 1 + 1 ELSE 0
        /\ \A i \in 1..(n - 1 + 1) : SubSeq(s, 1, n)[i] = s[1 + i - 1]
    BY ONLY <1>1, SubSeqProperties
  <1>3. \A i \in 1..n : 1 + i - 1 = i /\ i \in 1..(n - 1 + 1)
    BY <1>1
  <1>4. (IF 1 <= n THEN n - 1 + 1 ELSE 0) = n
    BY <1>1
  <1> QED BY <1>2, <1>3, <1>4

LEMMA CombineKeepsPInv ==
    ASSUME PInv, Inv', NEW tree, NEW half \in Half, Sound(tree, half), PCombine(tree, half)
    PROVE  PInv'
  <1> DEFINE n == Len(stack) - 2
             trees == SubSeq(stack, 1, n)
             halves == SubSeq(may, 1, n)
  <1>1. /\ may \in Seq(Half) /\ Len(may) = Len(stack) /\ stack \in Seq(Trees) /\ Len(stack) > 1
        /\ stack' = Append(trees, tree)
        /\ may' = Append(halves, half)
        /\ plan = "none" /\ plan' = "none" /\ row' = row /\ file' = file
    BY DEF PInv, PTypeOK, Inv, TypeOK, PCombine, Combine
  <1>2. n \in 0..Len(stack) /\ n \in 0..Len(may)
    BY <1>1
  <1>3. n \in Nat
    BY <1>2
  <1> HIDE DEF n
  <1>4. /\ trees \in Seq(Trees) /\ Len(trees) = n /\ \A i \in 1..n : trees[i] = stack[i]
        /\ halves \in Seq(Half) /\ Len(halves) = n /\ \A i \in 1..n : halves[i] = may[i]
    BY <1>1, <1>2, Below
  <1> HIDE DEF trees, halves
  <1>5. PTypeOK'
    BY <1>1, <1>3, <1>4 DEF PTypeOK, PInv
  <1>6. RuledOutIsNoMatch'
    <2>1. SUFFICES ASSUME NEW i \in 1..Len(stack'), NEW sel \in BOOLEAN
                   PROVE  /\ ~may'[i].t => stack'[i].t[sel] # "T"
                          /\ ~may'[i].f => stack'[i].f[sel] # "T"
      BY DEF RuledOutIsNoMatch
    <2>2. i \in 1..(n + 1) /\ (i # n + 1 => i \in 1..n)
      BY <1>1, <1>3, <1>4
    <2>3. CASE i = n + 1
      <3>1. stack'[i] = tree /\ may'[i] = half
        BY <1>1, <1>3, <1>4, <2>3
      <3> QED BY <3>1 DEF Sound
    <2>4. CASE i # n + 1
      <3>1. stack'[i] = stack[i] /\ may'[i] = may[i]
        BY <1>1, <1>3, <1>4, <2>2, <2>4
      <3>2. i \in 1..Len(stack)
        BY <1>1, <1>2, <2>2, <2>4
      <3> QED BY <3>1, <3>2 DEF PInv, RuledOutIsNoMatch
    <2> QED BY <2>3, <2>4
  <1>7. PlanIsLast'
    BY <1>1 DEF PlanIsLast
  <1> QED BY <1>5, <1>6, <1>7 DEF PInv

LEMMA BothIsSound ==
    ASSUME NEW a, NEW b, NEW x \in Half, NEW y \in Half, Sound(a, x), Sound(b, y)
    PROVE  /\ Both(x, y) \in Half /\ Sound(AndTree(a, b), Both(x, y))
           /\ Either(x, y) \in Half /\ Sound(OrTree(a, b), Either(x, y))
  <1>1. Both(x, y) \in Half /\ Either(x, y) \in Half
    BY DEF Both, Either, Half
  <1>2. \A sel \in BOOLEAN :
           /\ AndTree(a, b).t[sel] = And3(a.t[sel], b.t[sel])
           /\ AndTree(a, b).f[sel] = Or3(a.f[sel], b.f[sel])
           /\ OrTree(a, b).t[sel] = Or3(a.t[sel], b.t[sel])
           /\ OrTree(a, b).f[sel] = And3(a.f[sel], b.f[sel])
    BY DEF AndTree, OrTree, Tree
  <1>3. \A p, q : /\ And3(p, q) = "T" <=> p = "T" /\ q = "T"
                  /\ Or3(p, q) = "T" <=> p = "T" \/ q = "T"
    BY Conjunction, Disjunction
  <1>4. /\ Both(x, y).t <=> x.t /\ y.t
        /\ Both(x, y).f <=> x.f \/ y.f
        /\ Either(x, y).t <=> x.t \/ y.t
        /\ Either(x, y).f <=> x.f /\ y.f
    BY DEF Both, Either, Half
  <1> QED BY <1>1, <1>2, <1>3, <1>4 DEF Sound

-----------------------------------------------------------------------------
(* Every step is one of FilterTruth.                                        *)

\* The one tree of a whole filter.
LEMMA WholeFilter ==
    ASSUME PInv, Len(stack) = 1
    PROVE  /\ Top = stack[1] /\ stack[1] \in Trees /\ Exact(stack[1])
           /\ may[1] \in Half /\ Sound(stack[1], may[1])
  <1>1. stack \in Seq(Trees) /\ 1 \in 1..Len(stack)
    BY DEF PInv, Inv, TypeOK
  <1>2. Top = stack[1]
    BY DEF Top
  <1>3. stack[1] \in Trees
    BY <1>1
  <1>4. \A i \in 1..Len(stack) : Exact(stack[i])
    BY Zenon DEF PInv, Inv, HalvesAreExact
  <1>5. Exact(stack[1])
    BY <1>1, <1>4, Zenon
  <1>6. Sound(stack[1], may[1]) /\ may[1] \in Half
    BY <1>1, SoundStacks, Zenon
  <1> QED BY <1>2, <1>3, <1>5, <1>6

LEMMA PScanIsScan ==
    ASSUME PInv, PScan
    PROVE  Scan /\ may[1] \in Half
  <1>1. /\ may[1] \in Half /\ Sound(stack[1], may[1])
        /\ Top = stack[1] /\ Top \in Trees
    BY WholeFilter DEF PScan
  <1>2. (~Top.decimal) \in BOOLEAN
    OBVIOUS
  <1>3. Top.t[~Top.decimal] = "T" => may[1].t
    BY <1>1, <1>2 DEF Sound
  <1> QED BY <1>1, <1>3 DEF PScan, Scan

LEMMA PStepIsStep ==
    ASSUME PInv, [PNext]_pvars
    PROVE  [Next]_vars
  <1>1. CASE PScan
    BY <1>1, PScanIsScan DEF Next
  <1>2. CASE Plan
    BY <1>2 DEF Plan
  <1>3. ASSUME NEW c \in Columns, NEW op \in Cmps, NEW d \in Values[c],
               PCompare(c, op, d) \/ PCompareFlipped(c, op, d)
        PROVE  Next
    BY <1>3 DEF PCompare, PCompareFlipped, Next
  <1>4. ASSUME NEW c \in Columns, NEW ds \in SUBSET Values[c],
               PIn(c, ds) \/ PStartsWith(c, ds)
        PROVE  Next
    BY <1>4 DEF PIn, PStartsWith, Next
  <1>5. ASSUME NEW c \in Columns, PIsNull(c) \/ PIsNan(c)
        PROVE  Next
    BY <1>5 DEF PIsNull, PIsNan, Next
  <1>6. ASSUME NEW b \in BOOLEAN, PConstant(b)
        PROVE  Next
    BY <1>6 DEF PConstant, Next
  <1>7. CASE PNegate \/ PAnd \/ POr
    BY <1>7 DEF PNegate, PAnd, POr, PCombine, Next
  <1>8. CASE UNCHANGED pvars
    BY <1>8 DEF pvars
  <1> QED BY <1>1, <1>2, <1>3, <1>4, <1>5, <1>6, <1>7, <1>8 DEF PNext

\* A leaf's step, from what its halves say of the row.
LEMMA LeafKeepsPInv ==
    ASSUME PInv, Inv', NEW c, NEW r, NEW t, NEW f, Leaf(c, r, t, f),
           NEW mt \in BOOLEAN, NEW mf \in BOOLEAN, Pushes(mt, mf),
           \A sel \in BOOLEAN : (t[sel] = "T" => mt) /\ (f[sel] = "T" => mf)
    PROVE  PInv'
  <1> DEFINE tree == Tree(r, t, f, Type[c] = "decimal")
  <1>1. Push(tree) /\ tree.t = t /\ tree.f = f
    BY DEF Leaf, Tree
  <1> HIDE DEF tree
  <1> QED BY <1>1, PushKeepsPInv

LEMMA MayIsBoolean ==
    ASSUME NEW c
    PROVE  /\ \A op, d : may_compare(op, c, d) \in BOOLEAN
           /\ may_comparable(c) \in BOOLEAN /\ may_miss(c) \in BOOLEAN
           /\ may_nan(c) \in BOOLEAN /\ may_not_nan(c) \in BOOLEAN
           /\ \A ds : /\ may_belong(c, ds) \in BOOLEAN /\ may_not_belong(c, ds) \in BOOLEAN
                      /\ may_be_in(c, ds) \in BOOLEAN /\ may_start_without(c, ds) \in BOOLEAN
  BY DEF may_compare, may_comparable, may_miss, may_nan, may_not_nan, may_belong,
         may_not_belong, may_be_in, may_start_without

LEMMA PNextKeepsPInv ==
    ASSUME PInv, [PNext]_pvars
    PROVE  PInv'
  <1>1. Inv'
    BY PStepIsStep, NextKeepsInv DEF PInv
  <1>2. row \in file /\ \A c \in Columns : row[c] \in Cells(c)
    BY DEF PInv, PTypeOK, Inv, TypeOK, Rows
  <1>3. ASSUME NEW b \in BOOLEAN, PConstant(b)
        PROVE  PInv'
    <2>1. \A sel \in BOOLEAN : /\ [s \in BOOLEAN |-> TruthOf(b)][sel] = "T" => b
                               /\ [s \in BOOLEAN |-> TruthOf(~b)][sel] = "T" => ~b
      BY Truth
    <2> DEFINE tree == Tree(TruthOf(b), [s \in BOOLEAN |-> TruthOf(b)],
                            [s \in BOOLEAN |-> TruthOf(~b)], FALSE)
    <2>2. Push(tree) /\ Pushes(b, ~b)
      BY <1>3 DEF PConstant, Constant
    <2>3. /\ tree.t = [s \in BOOLEAN |-> TruthOf(b)]
          /\ tree.f = [s \in BOOLEAN |-> TruthOf(~b)]
      BY DEF Tree
    <2> HIDE DEF tree
    <2> QED BY <1>1, <2>1, <2>2, <2>3, PushKeepsPInv
  <1>4. ASSUME NEW c \in Columns, NEW op \in Cmps, NEW d \in Values[c], PCompare(c, op, d)
        PROVE  PInv'
    <2>1. negate[op] \in Cmps
      BY DEF negate, Cmps
    <2>2. \A sel \in BOOLEAN :
             /\ compare(op, c, row[c], d, sel) = "T" => may_compare(op, c, d)
             /\ compare(negate[op], c, row[c], d, sel) = "T" => may_compare(negate[op], c, d)
      BY <1>2, <2>1, CompareRulesOut
    <2> QED BY <1>1, <1>4, <2>1, <2>2, MayIsBoolean, LeafKeepsPInv DEF PCompare, Compare
  <1>5. ASSUME NEW c \in Columns, NEW op \in Cmps, NEW d \in Values[c], PCompareFlipped(c, op, d)
        PROVE  PInv'
    <2> DEFINE o == flipped_ops[op]
    <2>1. o \in Cmps
      BY DEF flipped_ops, Cmps
    <2>2. negate[o] \in Cmps
      BY <2>1 DEF negate, Cmps
    <2>3. \A sel \in BOOLEAN :
             /\ compare(o, c, row[c], d, sel) = "T" => may_compare(o, c, d)
             /\ compare(negate[o], c, row[c], d, sel) = "T" => may_compare(negate[o], c, d)
      BY <1>2, <2>1, <2>2, CompareRulesOut
    <2>4. may_compare(o, c, d) \in BOOLEAN /\ may_compare(negate[o], c, d) \in BOOLEAN
      BY <2>1, <2>2, MayIsBoolean
    <2> QED BY <1>1, <1>5, <2>3, <2>4, LeafKeepsPInv DEF PCompareFlipped, CompareFlipped
  <1>6. ASSUME NEW c \in Columns, PIsNull(c)
        PROVE  PInv'
    BY <1>1, <1>2, <1>6, MissingRulesOut, MayIsBoolean, LeafKeepsPInv DEF PIsNull, IsNull
  <1>7. ASSUME NEW c \in Columns, PIsNan(c)
        PROVE  PInv'
    BY <1>1, <1>2, <1>7, NanRulesOut, MayIsBoolean, LeafKeepsPInv DEF PIsNan, IsNan
  <1>8. ASSUME NEW c \in Columns, NEW ds \in SUBSET Values[c], PIn(c, ds)
        PROVE  PInv'
    BY <1>1, <1>2, <1>8, InRulesOut, MayIsBoolean, LeafKeepsPInv DEF PIn, In
  <1>9. ASSUME NEW c \in Columns, NEW ds \in SUBSET Values[c], PStartsWith(c, ds)
        PROVE  PInv'
    BY <1>1, <1>2, <1>9, PrefixRulesOut, MayIsBoolean, LeafKeepsPInv DEF PStartsWith, StartsWith
  <1>10. ASSUME PAnd \/ POr
         PROVE  PInv'
    <2> DEFINE n == Len(stack)
    <2>1. n \in 1..n /\ n - 1 \in 1..n /\ Len(may) = n
      <3>1. n \in Nat /\ n > 1 /\ Len(may) = n
        <4>1. stack \in Seq(Trees)
          BY DEF PInv, Inv, TypeOK
        <4>2. Len(stack) > 1 /\ Len(may) = Len(stack)
          BY <1>10, Zenon DEF PInv, PTypeOK, PAnd, POr
        <4> QED BY <4>1, <4>2
      <3> HIDE DEF n
      <3> QED BY <3>1
    <2>2. /\ Sound(Second, may[n - 1]) /\ may[n - 1] \in Half
          /\ Sound(Top, may[n]) /\ may[n] \in Half
      BY <2>1, SoundStacks DEF Top, Second
    <2> QED BY <1>1, <1>10, <2>1, <2>2, BothIsSound, CombineKeepsPInv DEF PAnd, POr
  <1>11. CASE Plan
    <2>1. PTypeOK' /\ RuledOutIsNoMatch'
      BY <1>11 DEF Plan, vars, PInv, PTypeOK, RuledOutIsNoMatch
    <2>2. PlanIsLast'
      BY <1>11 DEF Plan, vars, PlanIsLast
    <2> QED BY <1>1, <2>1, <2>2 DEF PInv
  <1>12. CASE PScan
    BY <1>1, <1>12 DEF PScan, PInv, PTypeOK, RuledOutIsNoMatch, PlanIsLast
  <1>13. CASE UNCHANGED pvars
    BY <1>1, <1>13 DEF pvars, vars, PInv, PTypeOK, RuledOutIsNoMatch, PlanIsLast
  <1> QED BY <1>1, <1>3, <1>4, <1>5, <1>6, <1>7, <1>8, <1>9, <1>10, <1>11, <1>12, <1>13,
             NegateKeepsPInv DEF PNext

LEMMA PInvHolds == PSpec => []PInv
  <1>1. PInit => PInv
    BY DEF PInit, Init, PInv, Inv, TypeOK, HalvesAreExact, ScanKeepsTrueRows, PTypeOK,
           RuledOutIsNoMatch, PlanIsLast, Files
  <1> QED BY <1>1, PNextKeepsPInv, PTL DEF PSpec

\* Whatever a file holds, statistics that rule a half out are right: the half
\* matches no row of the file.
THEOREM StatisticsAreRight == PSpec => []RuledOutIsNoMatch
  BY PInvHolds, PTL DEF PInv

\* A scan that leaves out files for their statistics is one that reads them
\* all: every behaviour of FilePruning is one of FilterTruth.
THEOREM PruningRefinesReading == PSpec => StatisticsChangeNothing
  <1>1. PInit => Init
    BY DEF PInit
  <1> QED BY <1>1, PInvHolds, PStepIsStep, PTL DEF PSpec, Spec, StatisticsChangeNothing

\* icebergr_scan_plan() lists every file with a row for which R says TRUE.
THEOREM PlanListsMatches == PSpec => []PlanIsComplete
  <1>1. PInv => PlanIsComplete
    <2> SUFFICES ASSUME PInv, plan = "left out"
                 PROVE  Top.r # "T"
      BY DEF PlanIsComplete
    <2>1. Len(stack) = 1 /\ ~may[1].t
      BY Zenon DEF PInv, PlanIsLast
    <2>2. /\ Top = stack[1] /\ stack[1] \in Trees /\ Exact(stack[1])
          /\ Sound(stack[1], may[1])
      BY <2>1, WholeFilter
    <2>3. stack[1].decimal \in BOOLEAN /\ (~stack[1].decimal) \in BOOLEAN
      BY <2>2 DEF Trees
    <2>4. stack[1].t[~stack[1].decimal] # "T"
      BY <2>1, <2>2, <2>3 DEF Sound
    <2> QED BY <2>2, <2>3, <2>4 DEF Exact
  <1> QED BY <1>1, PInvHolds, PTL

\* With statistics in use too, a scan keeps exactly the rows where R says TRUE.
THEOREM PrunedFilterIsR == PSpec => [](HalvesAreExact /\ ScanKeepsTrueRows)
  BY PInvHolds, PTL DEF PInv, Inv
=============================================================================
