------------------------------ MODULE MCRoundTrip ------------------------------
\* The numbers of MCLiterals.  One column takes every value of its own kind,
\* words and what is missing; frames and tables of other names hold integers.
EXTENDS MCLiterals, RoundTrip

Field(name, ty, required) == [name |-> name, type |-> ty, required |-> required]
Holding(name, v) == [name |-> name, value |-> v]

\* Kinds meet their own; nanoarrow takes whole days.
Meets(v, ty) ==
    \/ Counts(v, ty) \/ Absent(v) \/ v = Of("words", 0) \/ Instants(v, ty)
    \/ Dates(v, ty) /\ whole(v.x)
    \/ v.class = "double" /\ v.x = Infinite /\ ty.name \in {"int", "long", "float", "double", "decimal"}
    \/ v.class = "logical" /\ ty.name = "boolean"

Seqs(S) == {<<>>} \cup {<<x>> : x \in S} \cup {<<x, y>> : x, y \in S}

OneColumn ==
    { [data |-> <<Holding("a", p[1])>>, table |-> <<Field("a", p[2], required)>>] :
        required \in BOOLEAN, p \in {q \in Values \X (Types \ {Typed("time")}) : Meets(q[1], q[2])} }

OneToTwo == {Holding("a", Of("integer", Grid)), Holding("a", Of("NA", 0)),
             Holding("b", Of("integer", 2 * Grid)), Holding("c", Of("integer", 3 * Grid))}

MCAppends ==
    OneColumn \cup
    { [data |-> d, table |-> t] :
        d \in Seqs(OneToTwo),
        t \in {<<Field("a", Typed("int"), r), Field("b", Typed(n), FALSE)>> :
                 r \in BOOLEAN, n \in {"int", "long"}} }
=============================================================================
