------------------------------- MODULE AppendLog -------------------------------
(***************************************************************************)
(* What icebergr_append() promises about one table, whatever happens on    *)
(* the way: the table's history is a log of commits, a call lands in it at *)
(* most once, a call reported as done has landed, and a call that was      *)
(* declined never will.  A call that is given up on promises nothing: it   *)
(* may already have landed, land later, or never.                          *)
(*                                                                         *)
(* TableAppend implements this specification.                              *)
(***************************************************************************)
EXTENDS Integers, Sequences

CONSTANTS
    Appends,    \* icebergr_append() calls, each an identity of its own
    Others      \* commits made by other engines

VARIABLES
    log,        \* the commits of the table's main branch, oldest first
    status      \* what is known of each call

vars == <<log, status>>

Landed(l) == {l[i] : i \in 1..Len(l)}

Init ==
    /\ log = <<>>
    /\ status = [a \in Appends |-> "pending"]

\* A commit becomes visible.  A call that was given up on may still land.
Land(a) ==
    /\ a \notin Landed(log)
    /\ a \in Appends => status[a] \in {"pending", "unknown"}
    /\ log' = Append(log, a)
    /\ UNCHANGED status

Report(a, s) ==
    /\ status[a] = "pending"
    /\ status' = [status EXCEPT ![a] = s]
    /\ UNCHANGED log

\* The call returns the table that holds its commit.
Acknowledge(a) == a \in Landed(log) /\ Report(a, "done")

\* The call ends without a commit, and none will follow.
Decline(a) == a \notin Landed(log) /\ Report(a, "declined")

\* The call ends and cannot tell.
GiveUp(a) == Report(a, "unknown")

Next ==
    \/ \E a \in Appends \cup Others : Land(a)
    \/ \E a \in Appends : Acknowledge(a) \/ Decline(a) \/ GiveUp(a)

Spec == Init /\ [][Next]_vars

-----------------------------------------------------------------------------
\* No commit is in the history twice: a retried append does not duplicate rows.
LandsOnce == \A i, j \in 1..Len(log) : log[i] = log[j] => i = j

\* A call that reported success is in the history, one that declined is not.
ReportsAreTrue ==
    \A a \in Appends :
        /\ status[a] = "done" => a \in Landed(log)
        /\ status[a] = "declined" => a \notin Landed(log)
=============================================================================
