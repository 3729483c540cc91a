------------------------------ MODULE MCRegistry ------------------------------
(* A namespace, one within it, one within that, and tables in the first two. *)
EXTENDS Registry, TLC

MCLevels == {"a", "b"}
MCSpellings == { <<"">>, <<"a">>, <<"a", "", "b">>, <<"a", "b", "a">> }

Symmetry == Permutations(Sessions) \cup Permutations(Calls)
=============================================================================
