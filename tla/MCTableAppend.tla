----------------------------- MODULE MCTableAppend -----------------------------
\* Instances of TableAppend for TLC.
EXTENDS TableAppend, TLC

Symmetry == Permutations(Sessions) \cup Permutations(Appends)
=============================================================================
