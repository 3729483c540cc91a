----------------------------- MODULE MCTimeTravel -----------------------------
(* A table whose column `id` is renamed, whose name is taken by a later column *)
(* and which then has two columns that differ by case only, written to by     *)
(* engines whose clocks are right or one tick slow.                           *)
EXTENDS TimeTravel, TLC

MCNames == {"id", "ID", "iD", "b"}
mc_lower == [n \in MCNames |-> IF n = "b" THEN "b" ELSE "id"]
MCSchemas == { "id" :> 1, "b" :> 1 @@ "id" :> 2, "ID" :> 1 @@ "id" :> 2 }

MCSkews == {-1, 0}
=============================================================================
