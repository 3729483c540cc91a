----------------------------- MODULE MCFilePruning -----------------------------
\* A table of three columns for FilePruning: x holds -1.0, both zeros and 1.0.
\* A file has one row, or two that differ in one column, so that each column's
\* statistics may say more than the filter's row does.
EXTENDS FilePruning, TLC

MCType == "x" :> "float" @@ "p" :> "decimal" @@ "s" :> "string"
MCValues == "x" :> {-2, -1, 0, 1} @@ "p" :> {1} @@ "s" :> {1}

MCInit ==
    /\ Init /\ may = <<>> /\ plan = "none"
    /\ \E c \in Columns : \E cell \in Cells(c) :
         /\ file = {row, [row EXCEPT ![c] = cell]}
         /\ file \in Files(file)

MCSpec == MCInit /\ [][PNext]_pvars
=============================================================================
