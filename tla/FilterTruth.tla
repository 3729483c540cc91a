------------------------------ MODULE FilterTruth ------------------------------
(***************************************************************************)
(* predicate.rs: how a filter written in R becomes an Iceberg predicate     *)
(* that keeps the rows where R's expression is TRUE.                        *)
(*                                                                          *)
(* Both languages have three truth values and they do not agree on when a   *)
(* comparison is the third, so every node is built as a pair: a predicate   *)
(* for the rows where R says TRUE and one for those where R says FALSE.     *)
(* The tree is built from its leaves up.  A step builds one node, on a      *)
(* stack of the subtrees that wait for theirs; what a subtree stands for is *)
(* kept as its value on one row, which stands for every row of the table.   *)
(*                                                                          *)
(* A float is coded by an integer in IEEE's total order: n for n >= 0, -1   *)
(* for -0.0, and n - 1 for a number n < 0.                                  *)
(***************************************************************************)
EXTENDS Integers, Sequences

CONSTANTS
    Columns,    \* the columns of the table
    Type,       \* the type of each column
    Values,     \* the values and literals of each column's type
    MaxDepth    \* bound: subtrees that wait at one time

ASSUME ColumnsAssumption ==
    /\ Type \in [Columns -> {"float", "decimal", "string", "other"}]
    /\ Values \in [Columns -> SUBSET Int]
    /\ MaxDepth \in Nat

VARIABLES
    row,        \* the row the filter is asked about
    stack,      \* the subtrees built so far
    verdict     \* what the scan does with the row

vars == <<row, stack, verdict>>

Truths == {"T", "F", "NA"}
TruthOf(b) == IF b THEN "T" ELSE "F"

\* Three-valued connectives, R's and Iceberg's alike.
Not3(a) == CASE a = "T" -> "F" [] a = "F" -> "T" [] a = "NA" -> "NA"
And3(a, b) ==
    CASE a = "F" \/ b = "F" -> "F"
      [] a = "T" /\ b = "T" -> "T"
      [] OTHER -> "NA"
Or3(a, b) ==
    CASE a = "T" \/ b = "T" -> "T"
      [] a = "F" /\ b = "F" -> "F"
      [] OTHER -> "NA"

is_float(c) == Type[c] = "float"

\* What a row can hold in column c.  "absent": the file was written before
\* the column was added.
Cells(c) ==
    [kind : {"value"}, v : Values[c]]
        \cup [kind : {"null", "absent"}, v : {0}]
        \cup (IF is_float(c) THEN [kind : {"nan"}, v : {0}] ELSE {})

Rows == {r \in [Columns -> UNION {Cells(c) : c \in Columns}] :
            \A c \in Columns : r[c] \in Cells(c)}

Cmps == {"eq", "ne", "lt", "lte", "gt", "gte"}

Holds(op, x, y) ==
    \/ op = "eq" /\ x = y
    \/ op = "ne" /\ x # y
    \/ op = "lt" /\ x < y
    \/ op = "lte" /\ x <= y
    \/ op = "gt" /\ x > y
    \/ op = "gte" /\ x >= y

-----------------------------------------------------------------------------
(* R's answers, on a cell of column c.                                      *)

\* The number a coded value is: R has one zero.
Number(c, x) == IF is_float(c) /\ x < 0 THEN x + 1 ELSE x

RCompare(op, c, cell, d) ==
    IF cell.kind = "value"
      THEN TruthOf(Holds(op, Number(c, cell.v), Number(c, d)))
      ELSE "NA"

RIsNa(cell) == TruthOf(cell.kind # "value")

RIsNan(cell) == TruthOf(cell.kind = "nan")

RIn(c, cell, ds) ==
    TruthOf(cell.kind = "value" /\ \E d \in ds : Number(c, d) = Number(c, cell.v))

\* A prefix stands for the strings it begins.
RStartsWith(cell, ds) == IF cell.kind = "value" THEN TruthOf(cell.v \in ds) ELSE "NA"

-----------------------------------------------------------------------------
(* iceberg-rust's answers to a primitive predicate, on a cell of column c.  *)
(* sel: the row-selection filter is on.                                     *)

IceCompare(op, c, cell, d, sel) ==
    CASE cell.kind = "absent" -> TruthOf(op \in {"lt", "lte"})
      [] cell.kind = "null" -> "NA"
      [] cell.kind = "nan" -> TruthOf(op \in {"ne", "gt", "gte"})
      [] cell.kind = "value" ->
            IF sel /\ Type[c] = "decimal" /\ op \notin {"eq", "ne"}
              THEN "F" ELSE TruthOf(Holds(op, cell.v, d))

is_null(cell) == TruthOf(cell.kind \in {"null", "absent"})
is_not_null(cell) == TruthOf(cell.kind \notin {"null", "absent"})
is_nan(cell) == TruthOf(cell.kind = "nan")
is_not_nan(cell) == TruthOf(cell.kind # "nan")

is_in(cell, ds) ==
    CASE cell.kind = "null" -> "NA"
      [] cell.kind = "value" -> TruthOf(cell.v \in ds)
      [] cell.kind \in {"nan", "absent"} -> "F"

is_not_in(cell, ds) ==
    CASE cell.kind = "null" -> "NA"
      [] cell.kind = "value" -> TruthOf(cell.v \notin ds)
      [] cell.kind \in {"nan", "absent"} -> "T"

starts_with(cell, ds) ==
    CASE cell.kind = "null" -> "NA"
      [] cell.kind = "value" -> TruthOf(cell.v \in ds)
      [] cell.kind \in {"nan", "absent"} -> "F"

not_starts_with(cell, ds) ==
    CASE cell.kind = "null" -> "NA"
      [] cell.kind = "value" -> TruthOf(cell.v \notin ds)
      [] cell.kind \in {"nan", "absent"} -> "T"

-----------------------------------------------------------------------------
(* The predicates built for a node.                                         *)

negate == [eq |-> "ne", ne |-> "eq", lt |-> "gte",
           gte |-> "lt", lte |-> "gt", gt |-> "lte"]

\* `5 < x` is `x > 5`.
flipped_ops == [lt |-> "gt", lte |-> "gte", gt |-> "lt", gte |-> "lte",
                eq |-> "eq", ne |-> "ne"]

is_zero(c, d) == is_float(c) /\ d \in {-1, 0}

\* A zero literal is both zeros.
float_compare(op, c, cell, d, sel) ==
    LET Ice(o, e) == IceCompare(o, c, cell, e, sel)
    IN  CASE ~is_zero(c, d) -> Ice(op, d)
          [] is_zero(c, d) /\ op = "eq" -> And3(Ice("gte", -1), Ice("lte", 0))
          [] is_zero(c, d) /\ op = "ne" -> Or3(Ice("lt", -1), Ice("gt", 0))
          [] is_zero(c, d) /\ op = "lt" -> Ice("lt", -1)
          [] is_zero(c, d) /\ op = "lte" -> Ice("lte", 0)
          [] is_zero(c, d) /\ op = "gt" -> Ice("gt", 0)
          [] is_zero(c, d) /\ op = "gte" -> Ice("gte", -1)

\* BUG: a column the file lacks is left to the comparison.
comparable_present(c, cell) == IF is_float(c) THEN is_not_nan(cell) ELSE "T"

\* The rows R can compare.
comparable(c, cell) ==
    IF is_float(c) THEN And3(is_not_null(cell), is_not_nan(cell)) ELSE is_not_null(cell)

\* One half of a comparison; the other is that of the negated operator.
compare(op, c, cell, d, sel) ==
    And3(IF is_float(c) THEN float_compare(op, c, cell, d, sel)
                        ELSE IceCompare(op, c, cell, d, sel),
         comparable(c, cell))

missing(c, cell) ==
    IF is_float(c) THEN Or3(is_null(cell), is_nan(cell)) ELSE is_null(cell)

present(c, cell) ==
    IF is_float(c) THEN And3(is_not_null(cell), is_not_nan(cell)) ELSE is_not_null(cell)

Zeros(c, ds) == {d \in ds : is_zero(c, d)}
Rest(c, ds) == ds \ Zeros(c, ds)

membership(c, cell, ds, sel) ==
    LET rest == IF Rest(c, ds) = {} THEN "F" ELSE is_in(cell, Rest(c, ds))
    IN  IF Zeros(c, ds) = {} THEN rest
        ELSE Or3(rest, float_compare("eq", c, cell, 0, sel))

not_membership(c, cell, ds, sel) ==
    LET rest == IF Rest(c, ds) = {} THEN "T" ELSE is_not_in(cell, Rest(c, ds))
    IN  Or3(IF Zeros(c, ds) = {} THEN rest
            ELSE And3(rest, float_compare("ne", c, cell, 0, sel)),
            missing(c, cell))

prefix(c, cell, ds) == And3(starts_with(cell, ds), comparable(c, cell))
not_prefix(c, cell, ds) == And3(not_starts_with(cell, ds), comparable(c, cell))

-----------------------------------------------------------------------------
(* Building the tree.  A subtree is R's answer r, the halves t and f with   *)
(* row selection off and on, and whether it refers to a decimal column.     *)

Tree(r, t, f, decimal) == [r |-> r, t |-> t, f |-> f, decimal |-> decimal]

Trees == [r : Truths, t : [BOOLEAN -> Truths], f : [BOOLEAN -> Truths], decimal : BOOLEAN]

Init ==
    /\ row \in Rows
    /\ stack = <<>>
    /\ verdict = "none"

Push(tree) ==
    /\ verdict = "none"
    /\ Len(stack) < MaxDepth
    /\ stack' = Append(stack, tree)
    /\ UNCHANGED <<row, verdict>>

Leaf(c, r, t, f) == Push(Tree(r, t, f, Type[c] = "decimal"))

Constant(b) ==
    Push(Tree(TruthOf(b), [s \in BOOLEAN |-> TruthOf(b)], [s \in BOOLEAN |-> TruthOf(~b)], FALSE))

Compare(c, op, d) ==
    Leaf(c, RCompare(op, c, row[c], d),
         [s \in BOOLEAN |-> compare(op, c, row[c], d, s)],
         [s \in BOOLEAN |-> compare(negate[op], c, row[c], d, s)])

\* The column is on the right: R's answer is to `d op x`.
CompareFlipped(c, op, d) ==
    LET o == flipped_ops[op]
        r == IF row[c].kind = "value"
               THEN TruthOf(Holds(op, Number(c, d), Number(c, row[c].v))) ELSE "NA"
    IN  Leaf(c, r,
             [s \in BOOLEAN |-> compare(o, c, row[c], d, s)],
             [s \in BOOLEAN |-> compare(negate[o], c, row[c], d, s)])

IsNull(c) ==
    Leaf(c, RIsNa(row[c]),
         [s \in BOOLEAN |-> missing(c, row[c])], [s \in BOOLEAN |-> present(c, row[c])])

\* Iceberg refuses NaN tests on other types.
IsNan(c) ==
    /\ is_float(c)
    /\ Leaf(c, RIsNan(row[c]),
            [s \in BOOLEAN |-> is_nan(row[c])], [s \in BOOLEAN |-> is_not_nan(row[c])])

In(c, ds) ==
    Leaf(c, RIn(c, row[c], ds),
         [s \in BOOLEAN |-> membership(c, row[c], ds, s)],
         [s \in BOOLEAN |-> not_membership(c, row[c], ds, s)])

StartsWith(c, ds) ==
    /\ Type[c] = "string"
    /\ Leaf(c, RStartsWith(row[c], ds),
            [s \in BOOLEAN |-> prefix(c, row[c], ds)],
            [s \in BOOLEAN |-> not_prefix(c, row[c], ds)])

Top == stack[Len(stack)]
Second == stack[Len(stack) - 1]

\* BUG: negation is handed to Iceberg.
NotIceberg(tree) ==
    Tree(Not3(tree.r), [s \in BOOLEAN |-> Not3(tree.t[s])], tree.t, tree.decimal)

NotTree(tree) == Tree(Not3(tree.r), tree.f, tree.t, tree.decimal)

AndTree(a, b) ==
    Tree(And3(a.r, b.r),
         [s \in BOOLEAN |-> And3(a.t[s], b.t[s])],
         [s \in BOOLEAN |-> Or3(a.f[s], b.f[s])],
         a.decimal \/ b.decimal)

\* BUG: only the last operand's columns are looked at.
OrTreeLast(a, b) ==
    Tree(Or3(a.r, b.r),
         [s \in BOOLEAN |-> Or3(a.t[s], b.t[s])],
         [s \in BOOLEAN |-> And3(a.f[s], b.f[s])],
         b.decimal)

OrTree(a, b) ==
    Tree(Or3(a.r, b.r),
         [s \in BOOLEAN |-> Or3(a.t[s], b.t[s])],
         [s \in BOOLEAN |-> And3(a.f[s], b.f[s])],
         a.decimal \/ b.decimal)

Negate ==
    /\ verdict = "none" /\ Len(stack) > 0
    /\ stack' = [stack EXCEPT ![Len(stack)] = NotTree(Top)]
    /\ UNCHANGED <<row, verdict>>

\* One step of the fold over the operands of `&` or `|`.
Combine(tree) ==
    /\ verdict = "none" /\ Len(stack) > 1
    /\ stack' = Append(SubSeq(stack, 1, Len(stack) - 2), tree)
    /\ UNCHANGED <<row, verdict>>

\* The whole filter is built, and the scan runs under its TRUE half, with row
\* selection off when it refers to a decimal.
Scan ==
    /\ verdict = "none" /\ Len(stack) = 1
    /\ verdict' = IF Top.t[~Top.decimal] = "T" THEN "kept" ELSE "dropped"
    /\ UNCHANGED <<row, stack>>

Next ==
    \/ \E b \in BOOLEAN : Constant(b)
    \/ \E c \in Columns, op \in Cmps : \E d \in Values[c] :
          Compare(c, op, d) \/ CompareFlipped(c, op, d)
    \/ \E c \in Columns : IsNull(c) \/ IsNan(c)
    \/ \E c \in Columns : \E ds \in SUBSET Values[c] : In(c, ds) \/ StartsWith(c, ds)
    \/ Negate
    \/ Len(stack) > 1 /\ (Combine(AndTree(Second, Top)) \/ Combine(OrTree(Second, Top)))
    \/ Scan

Spec == Init /\ [][Next]_vars

-----------------------------------------------------------------------------
TypeOK ==
    /\ row \in Rows
    /\ stack \in Seq(Trees)
    /\ verdict \in {"none", "kept", "dropped"}

\* A subtree's halves are exact: one matches the row when R says TRUE, the
\* other when R says FALSE, as long as no decimal meets row selection.
Exact(tree) ==
    \A sel \in BOOLEAN : (sel => ~tree.decimal) =>
        /\ tree.t[sel] = "T" <=> tree.r = "T"
        /\ tree.f[sel] = "T" <=> tree.r = "F"

HalvesAreExact == \A i \in 1..Len(stack) : Exact(stack[i])

\* The scan returns the row when R's expression is TRUE for it, and only then:
\* whatever nulls, NaNs, zeros and missing columns the files hold.
ScanKeepsTrueRows ==
    verdict # "none" => (verdict = "kept" <=> Top.r = "T")
=============================================================================
