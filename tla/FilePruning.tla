------------------------------ MODULE FilePruning ------------------------------
(***************************************************************************)
(* What pushdown adds to FilterTruth: the predicate is also asked of the    *)
(* statistics that a manifest or a Parquet footer keeps of each column, and *)
(* a file whose statistics rule the predicate out is not read.  A half      *)
(* answers rows in iceberg-rust's row filter and statistics in its          *)
(* evaluators, which see bounds without NaNs and know one zero; predicate.rs *)
(* has to build halves about which the two agree.                           *)
(*                                                                          *)
(* A column's statistics are what they say of its cells: the bounds of its  *)
(* values, and whether it has nulls, has NaNs, has anything else.  They are *)
(* as sharp as statistics can be; blunter ones rule out less.               *)
(***************************************************************************)
EXTENDS FilterTruth

VARIABLES
    file,       \* the rows that share statistics, the filter's row among them
    may,        \* of each subtree, whether they let its halves match
    plan        \* whether icebergr_scan_plan() lists the file

pvars == <<vars, file, may, plan>>

Half == [t : BOOLEAN, f : BOOLEAN]

-----------------------------------------------------------------------------
(* The statistics of column c.                                              *)

Column(c) == {r[c] : r \in file}
Has(c, kind) == \E cell \in Column(c) : cell.kind = kind
HasBut(c, kind) == \E cell \in Column(c) : cell.kind # kind

\* Nothing is known of a column that the file lacks.
Unknown(c) == Has(c, "absent")

\* Values as the literals of bounds: zeros are equal.
Valued(c) == {Number(c, cell.v) : cell \in {k \in Column(c) : k.kind = "value"}}

-----------------------------------------------------------------------------
(* iceberg-rust's answers to a primitive predicate: could it match a row?   *)

may_null(c) == Unknown(c) \/ Has(c, "null")
may_not_null(c) == Unknown(c) \/ HasBut(c, "null")
may_nan(c) == Unknown(c) \/ Has(c, "nan")
may_not_nan(c) == Unknown(c) \/ HasBut(c, "nan")

\* A literal is among the bounds when it is neither below nor above them all.
may_be(c, op, d) ==
    LET n == Number(c, d)
    IN  \/ Unknown(c) \/ op = "ne"
        \/ op # "eq" /\ \E v \in Valued(c) : Holds(op, v, n)
        \/ op = "eq" /\ (\E v \in Valued(c) : v <= n) /\ (\E v \in Valued(c) : v >= n)

\* One literal may be above the lower bound and another below the upper one.
may_be_in(c, ds) ==
    \/ Unknown(c)
    \/ /\ \E d \in ds, v \in Valued(c) : Number(c, d) >= v
       /\ \E d \in ds, v \in Valued(c) : Number(c, d) <= v

may_start_without(c, ds) ==
    Unknown(c) \/ Has(c, "null") \/ \E v \in Valued(c) : v \notin ds

-----------------------------------------------------------------------------
(* The predicates that predicate.rs builds, asked of the statistics.        *)

may_float_compare(op, c, d) ==
    CASE ~is_zero(c, d) -> may_be(c, op, d)
      [] is_zero(c, d) /\ op = "eq" -> may_be(c, "gte", -1) /\ may_be(c, "lte", 0)
      [] is_zero(c, d) /\ op = "ne" -> may_be(c, "lt", -1) \/ may_be(c, "gt", 0)
      [] is_zero(c, d) /\ op = "lt" -> may_be(c, "lt", -1)
      [] is_zero(c, d) /\ op = "lte" -> may_be(c, "lte", 0)
      [] is_zero(c, d) /\ op = "gt" -> may_be(c, "gt", 0)
      [] is_zero(c, d) /\ op = "gte" -> may_be(c, "gte", -1)

may_comparable(c) == may_not_null(c) /\ (is_float(c) => may_not_nan(c))

may_compare(op, c, d) ==
    /\ IF is_float(c) THEN may_float_compare(op, c, d) ELSE may_be(c, op, d)
    /\ may_comparable(c)

\* BUG: a missing value is a null, whatever the column's type.
may_miss_null(c) == may_null(c)

may_miss(c) == may_null(c) \/ (is_float(c) /\ may_nan(c))

\* Neither IN of a zero nor NOT IN of anything is asked of the bounds.
may_belong(c, ds) ==
    \/ Rest(c, ds) # {} /\ may_be_in(c, Rest(c, ds))
    \/ Zeros(c, ds) # {} /\ may_float_compare("eq", c, 0)

may_not_belong(c, ds) ==
    (Zeros(c, ds) # {} => may_float_compare("ne", c, 0)) \/ may_miss(c)

Both(a, b) == [t |-> a.t /\ b.t, f |-> a.f \/ b.f]
Either(a, b) == [t |-> a.t \/ b.t, f |-> a.f /\ b.f]

\* BUG: negation leaves the halves where they are.
SwapNothing(a) == a

Swap(a) == [t |-> a.f, f |-> a.t]

-----------------------------------------------------------------------------
\* A file lacks a column or has it, for all of its rows.
Files(rows) ==
    {S \in SUBSET rows :
       \A r, s \in S, c \in Columns : r[c].kind = "absent" <=> s[c].kind = "absent"}

PInit ==
    /\ Init
    /\ file \in Files(Rows) /\ row \in file
    /\ may = <<>> /\ plan = "none"

\* Every subtree carries its halves' answers.
Pushes(t, f) ==
    /\ plan = "none"
    /\ may' = Append(may, [t |-> t, f |-> f])
    /\ UNCHANGED <<file, plan>>

PConstant(b) == Constant(b) /\ Pushes(b, ~b)

PCompare(c, op, d) ==
    Compare(c, op, d) /\ Pushes(may_compare(op, c, d), may_compare(negate[op], c, d))

PCompareFlipped(c, op, d) ==
    /\ CompareFlipped(c, op, d)
    /\ Pushes(may_compare(flipped_ops[op], c, d), may_compare(negate[flipped_ops[op]], c, d))

PIsNull(c) == IsNull(c) /\ Pushes(may_miss(c), may_comparable(c))

PIsNan(c) == IsNan(c) /\ Pushes(may_nan(c), may_not_nan(c))

PIn(c, ds) == In(c, ds) /\ Pushes(may_belong(c, ds), may_not_belong(c, ds))

PStartsWith(c, ds) ==
    /\ StartsWith(c, ds)
    /\ Pushes(may_be_in(c, ds) /\ may_comparable(c), may_start_without(c, ds) /\ may_comparable(c))

PNegate ==
    /\ Negate /\ plan = "none"
    /\ may' = [may EXCEPT ![Len(may)] = Swap(may[Len(may)])]
    /\ UNCHANGED <<file, plan>>

PCombine(tree, half) ==
    /\ Combine(tree) /\ plan = "none"
    /\ may' = Append(SubSeq(may, 1, Len(may) - 2), half)
    /\ UNCHANGED <<file, plan>>

PAnd ==
    Len(stack) > 1 /\ PCombine(AndTree(Second, Top), Both(may[Len(may) - 1], may[Len(may)]))

POr ==
    Len(stack) > 1 /\ PCombine(OrTree(Second, Top), Either(may[Len(may) - 1], may[Len(may)]))

\* rs_scan_plan() lists the files that the scan would read.
Plan ==
    /\ verdict = "none" /\ plan = "none" /\ Len(stack) = 1
    /\ plan' = IF may[1].t THEN "listed" ELSE "left out"
    /\ UNCHANGED <<vars, file, may>>

PScan ==
    /\ verdict = "none" /\ Len(stack) = 1
    /\ verdict' = IF may[1].t /\ Top.t[~Top.decimal] = "T" THEN "kept" ELSE "dropped"
    /\ UNCHANGED <<row, stack, file, may, plan>>

PNext ==
    \/ \E b \in BOOLEAN : PConstant(b)
    \/ \E c \in Columns, op \in Cmps : \E d \in Values[c] :
          PCompare(c, op, d) \/ PCompareFlipped(c, op, d)
    \/ \E c \in Columns : PIsNull(c) \/ PIsNan(c)
    \/ \E c \in Columns : \E ds \in SUBSET Values[c] : PIn(c, ds) \/ PStartsWith(c, ds)
    \/ PNegate \/ PAnd \/ POr
    \/ Plan \/ PScan

PSpec == PInit /\ [][PNext]_pvars

-----------------------------------------------------------------------------
PTypeOK ==
    /\ file \in SUBSET Rows /\ row \in file
    /\ may \in Seq(Half) /\ Len(may) = Len(stack)
    /\ plan \in {"none", "listed", "left out"}

\* Statistics and rows agree about every half: one whose statistics rule the
\* filter's row out does not match that row, with row selection or without.
RuledOutIsNoMatch ==
    \A i \in 1..Len(stack), sel \in BOOLEAN :
        /\ ~may[i].t => stack[i].t[sel] # "T"
        /\ ~may[i].f => stack[i].f[sel] # "T"

\* Statistics change no answer: a scan that leaves files out for what they
\* say is a scan that reads them all and filters their rows.
StatisticsChangeNothing == Spec

\* icebergr_scan_plan() lists every file that has a row for which R's
\* expression is TRUE.
PlanIsComplete == plan = "left out" => Top.r # "T"
=============================================================================
