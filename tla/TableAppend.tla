------------------------------ MODULE TableAppend ------------------------------
(***************************************************************************)
(* icebergr_append() (R/write.R) over rs_table_append() (write.rs): R       *)
(* sessions append to one table through a catalog, and other engines use    *)
(* the same table.                                                          *)
(*                                                                          *)
(* A handle is an immutable copy of the table's metadata.  A call checks    *)
(* the handle and the data, uploads Parquet one slice per await, and then   *)
(* commits in one await, inside which iceberg-rust loads the table, builds  *)
(* the snapshot on what it loaded, asks the catalog to swap the main        *)
(* branch, and starts over when the swap is refused.  Any await may fail,   *)
(* be interrupted or run into the ceiling of block_on(), and R may die;     *)
(* what the catalog was already sent is not withdrawn by that.              *)
(*                                                                          *)
(* Other engines append to the table and repartition it; they do not roll   *)
(* it back or expire snapshots.                                             *)
(***************************************************************************)
EXTENDS Integers, Sequences

CONSTANTS
    Sessions,       \* R processes, each with one thread and so one call at a time
    Appends,        \* icebergr_append() calls, each with its own file names
    Others,         \* commits made by other engines
    CatalogKind,    \* the type of the catalog: "memory", "glue", "rest", ...
    MaxSlices,      \* bound: slices of WRITE_SLICE_ROWS rows one call uploads
    MaxRetries,     \* commit.retry.num-retries of the table
    Nobody          \* the session runs no call

ASSUME ConstantsAssumption ==
    /\ Appends \cap Others = {}
    /\ Nobody \notin Appends \cup Others
    /\ CatalogKind \in STRING
    /\ MaxSlices \in Nat
    /\ MaxRetries \in Nat

VARIABLES
    table,          \* the metadata the catalog points at
    handle,         \* per session: the table handle the user holds
    busy,           \* per session: the call it runs, or Nobody
    pc,             \* per call: where it is, or how it ended
    given,          \* per call: the handle it was passed
    left,           \* per call: slices still to upload
    files,          \* per call: what it left in the warehouse
    tries,          \* per call: commit attempts refused so far
    base,           \* per call: the branch its pending snapshot is built on
    net,            \* per call: the commit request at the catalog
    result,         \* per call: the metadata the catalog answered with
    warned          \* calls that warned that nothing was committed

callVars == <<given, left, files, tries, base>>
vars == <<table, handle, busy, pc, callVars, net, result, warned>>

Ids == Appends \cup Others

\* log: the snapshots of the main branch, each named for the call or the
\* engine that committed it; parted: the default partition spec has fields;
\* odd: the metadata file is not <table>/metadata/<version>-<uuid>.metadata.json.
Metadata == [log : Seq(Ids), parted : BOOLEAN, odd : BOOLEAN]

NewTable(odd) == [log |-> <<>>, parted |-> FALSE, odd |-> odd]

Landed(l) == {l[i] : i \in 1..Len(l)}

Awaits == [build |-> {"build"}, write |-> {"write"}, close |-> {"close"},
           commit |-> {"load", "send", "sent"}]
Running == {"build", "write", "close", "load", "send", "sent"}
Ended == {"acked", "noop", "refused", "aborted", "unknown"}

\* What a call is given: how many slices its rows make (none when it has no
\* rows), and whether a check of its arguments or of its columns refuses it.
Data == [slices : 0..MaxSlices, bad : BOOLEAN]

derives_next_metadata_location == CatalogKind \in {"memory", "glue"}

uncommittable_because(m) == m.odd

\* The checks made on the handle before a byte is written.
Unwritable(m) == m.parted \/ (derives_next_metadata_location /\ uncommittable_because(m))

\* BUG: the oldest snapshot in place of the current one.
FirstSnapshot(m) == IF m.log = <<>> THEN Nobody ELSE m.log[1]

CurrentSnapshot(m) == IF m.log = <<>> THEN Nobody ELSE m.log[Len(m.log)]

Init ==
    \E odd \in BOOLEAN :
        /\ table = NewTable(odd)
        /\ handle = [s \in Sessions |-> NewTable(odd)]
        /\ busy = [s \in Sessions |-> Nobody]
        /\ pc = [a \in Appends |-> "unused"]
        /\ given = [a \in Appends |-> NewTable(odd)]
        /\ left = [a \in Appends |-> 0]
        /\ files = [a \in Appends |-> "none"]
        /\ tries = [a \in Appends |-> 0]
        /\ base = [a \in Appends |-> <<>>]
        /\ net = [a \in Appends |-> "none"]
        /\ result = [a \in Appends |-> NewTable(odd)]
        /\ warned = {}

-----------------------------------------------------------------------------
(* The call.                                                                *)

At(a, phase) == pc[a] = phase
Goes(a, phase) == pc' = [pc EXCEPT ![a] = phase]

\* icebergr_append() up to the first await of rs_table_append().
Begin(s, a, d) ==
    /\ busy[s] = Nobody
    /\ At(a, "unused")
    /\ given' = [given EXCEPT ![a] = handle[s]]
    /\ left' = [left EXCEPT ![a] = d.slices]
    /\ UNCHANGED <<table, handle, files, tries, base, net>>

\* A failed check: an error, and nothing was done.
Refuse(s, a, d) ==
    /\ Begin(s, a, d)
    /\ Unwritable(handle[s]) \/ d.bad
    /\ Goes(a, "refused")
    /\ UNCHANGED <<busy, result, warned>>

\* No rows: the handle comes back as it was, and R says so.
AppendNothing(s, a, d) ==
    /\ Begin(s, a, d)
    /\ ~Unwritable(handle[s]) /\ ~d.bad /\ d.slices = 0
    /\ Goes(a, "noop")
    /\ result' = [result EXCEPT ![a] = handle[s]]
    /\ warned' = IF CurrentSnapshot(result'[a]) = CurrentSnapshot(handle[s])
                 THEN warned \cup {a} ELSE warned
    /\ UNCHANGED busy

\* BUG: the handle is checked by the commit alone.
StartUnchecked(s, a, d) ==
    /\ Begin(s, a, d)
    /\ ~d.bad /\ d.slices > 0
    /\ Goes(a, "build")
    /\ busy' = [busy EXCEPT ![s] = a]
    /\ UNCHANGED <<result, warned>>

StartAppend(s, a, d) ==
    /\ Begin(s, a, d)
    /\ ~Unwritable(handle[s]) /\ ~d.bad /\ d.slices > 0
    /\ Goes(a, "build")
    /\ busy' = [busy EXCEPT ![s] = a]
    /\ UNCHANGED <<result, warned>>

BuildWriter(a) ==
    /\ At(a, "build")
    /\ Goes(a, "write")
    /\ UNCHANGED <<table, handle, busy, callVars, net, result, warned>>

\* BUG: the loop over the slices stops one short.
WriteSliceShort(a) ==
    /\ At(a, "write") /\ left[a] > 0
    /\ left' = [left EXCEPT ![a] = @ - 1]
    /\ files' = [files EXCEPT ![a] = "partial"]
    /\ Goes(a, IF left[a] <= 2 THEN "close" ELSE "write")
    /\ UNCHANGED <<table, handle, busy, given, tries, base, net, result, warned>>

WriteSlice(a) ==
    /\ At(a, "write") /\ left[a] > 0
    /\ left' = [left EXCEPT ![a] = @ - 1]
    /\ files' = [files EXCEPT ![a] = "partial"]
    /\ Goes(a, IF left[a] = 1 THEN "close" ELSE "write")
    /\ UNCHANGED <<table, handle, busy, given, tries, base, net, result, warned>>

CloseWriter(a) ==
    /\ At(a, "close")
    /\ files' = [files EXCEPT ![a] = "complete"]
    /\ Goes(a, "load")
    /\ UNCHANGED <<table, handle, busy, given, left, tries, base, net, result, warned>>

EndCall(a) == busy' = [s \in Sessions |-> IF busy[s] = a THEN Nobody ELSE busy[s]]

\* BUG: the snapshot is built on the handle, however old.
CommitStale(a) ==
    /\ At(a, "load")
    /\ ~Unwritable(table)
    /\ base' = [base EXCEPT ![a] = given[a].log]
    /\ Goes(a, "send")
    /\ UNCHANGED <<table, handle, busy, given, left, files, tries, net, result, warned>>

\* The transaction loads the table afresh and rebases on it.
CommitLoad(a) ==
    /\ At(a, "load")
    /\ ~Unwritable(table)
    /\ base' = [base EXCEPT ![a] = table.log]
    /\ Goes(a, "send")
    /\ UNCHANGED <<table, handle, busy, given, left, files, tries, net, result, warned>>

\* The refreshed table does not take the files: another engine repartitioned
\* it after the handle was opened.
CommitInvalid(a) ==
    /\ At(a, "load")
    /\ Unwritable(table)
    /\ Goes(a, "aborted")
    /\ EndCall(a)
    /\ UNCHANGED <<table, handle, callVars, net, result, warned>>

CommitSend(a) ==
    /\ At(a, "send")
    /\ net' = [net EXCEPT ![a] = "sent"]
    /\ Goes(a, "sent")
    /\ UNCHANGED <<table, handle, busy, callVars, result, warned>>

\* BUG: an answer that is not a refusal is retried too.
RetryWhatLanded(a) ==
    /\ At(a, "sent") /\ net[a] \in {"conflict", "applied"} /\ tries[a] < MaxRetries
    /\ tries' = [tries EXCEPT ![a] = @ + 1]
    /\ net' = [net EXCEPT ![a] = "none"]
    /\ Goes(a, "load")
    /\ UNCHANGED <<table, handle, busy, given, left, files, base, result, warned>>

\* The catalog refused the swap: again from the top, a bounded number of times.
CommitRetry(a) ==
    /\ At(a, "sent") /\ net[a] = "conflict" /\ tries[a] < MaxRetries
    /\ tries' = [tries EXCEPT ![a] = @ + 1]
    /\ net' = [net EXCEPT ![a] = "none"]
    /\ Goes(a, "load")
    /\ UNCHANGED <<table, handle, busy, given, left, files, base, result, warned>>

CommitConflict(a) ==
    /\ At(a, "sent") /\ net[a] = "conflict" /\ tries[a] = MaxRetries
    /\ Goes(a, "aborted")
    /\ EndCall(a)
    /\ UNCHANGED <<table, handle, callVars, net, result, warned>>

\* BUG: success is reported when the request has gone out.
ReturnEarly(s, a) ==
    /\ busy[s] = a
    /\ At(a, "sent")
    /\ Goes(a, "acked")
    /\ EndCall(a)
    /\ handle' = [handle EXCEPT ![s] = result[a]]
    /\ UNCHANGED <<table, callVars, net, result, warned>>

\* The committed table comes back as a new handle, which the user binds to
\* the variable, or does not.
Return(s, a) ==
    /\ busy[s] = a
    /\ At(a, "sent") /\ net[a] = "applied"
    /\ Goes(a, "acked")
    /\ EndCall(a)
    /\ \/ handle' = [handle EXCEPT ![s] = result[a]]
       \/ UNCHANGED handle
    /\ warned' = IF CurrentSnapshot(result[a]) = CurrentSnapshot(given[a])
                 THEN warned \cup {a} ELSE warned
    /\ UNCHANGED <<table, callVars, net, result>>

\* BUG: an interrupted commit is taken for one that was not made.
AbandonedClean(a) == IF At(a, "sent") /\ net[a] # "applied" THEN "aborted" ELSE "unknown"

\* How a call that stops inside an await leaves the commit: undone for good
\* unless the request had gone out.
Abandoned(a) == IF At(a, "sent") THEN "unknown" ELSE "aborted"

\* Storage or the catalog answered with an error, or the connection broke.
Fail(a) ==
    /\ pc[a] \in Running
    /\ Goes(a, Abandoned(a))
    /\ EndCall(a)
    /\ UNCHANGED <<table, handle, callVars, net, result, warned>>

\* BUG: a commit on the wire is waited for without end.
GiveUpUnlessSent(a) ==
    /\ pc[a] \in Running /\ ~At(a, "sent")
    /\ Goes(a, Abandoned(a))
    /\ EndCall(a)
    /\ UNCHANGED <<table, handle, callVars, net, result, warned>>

\* block_on() gives up: Ctrl-C, or the ceiling on the await.
GiveUp(a) ==
    /\ pc[a] \in Running
    /\ Goes(a, Abandoned(a))
    /\ EndCall(a)
    /\ UNCHANGED <<table, handle, callVars, net, result, warned>>

-----------------------------------------------------------------------------
(* The session.                                                             *)

\* icebergr_table() and icebergr_reload().
Open(s) ==
    /\ busy[s] = Nobody
    /\ handle' = [handle EXCEPT ![s] = table]
    /\ UNCHANGED <<table, busy, pc, callVars, net, result, warned>>

\* R dies in a call.  A later session opens the table again.
Crash(s) ==
    /\ busy[s] # Nobody
    /\ Goes(busy[s], Abandoned(busy[s]))
    /\ busy' = [busy EXCEPT ![s] = Nobody]
    /\ handle' = [handle EXCEPT ![s] = table]
    /\ UNCHANGED <<table, callVars, net, result, warned>>

-----------------------------------------------------------------------------
(* The catalog and the other engines.                                       *)

\* BUG: the last writer wins.
CatalogOverwrite(a) ==
    /\ net[a] = "sent"
    /\ table' = [table EXCEPT !.log = Append(base[a], a), !.odd = FALSE]
    /\ net' = [net EXCEPT ![a] = "applied"]
    /\ result' = [result EXCEPT ![a] = table']
    /\ UNCHANGED <<handle, busy, pc, callVars, warned>>

\* The swap, on condition that the main branch still ends where the
\* request's snapshot has its parent.
CatalogApply(a) ==
    /\ net[a] = "sent"
    /\ table.log = base[a]
    /\ table' = [table EXCEPT !.log = Append(base[a], a), !.odd = FALSE]
    /\ net' = [net EXCEPT ![a] = "applied"]
    /\ result' = [result EXCEPT ![a] = table']
    /\ UNCHANGED <<handle, busy, pc, callVars, warned>>

CatalogRefuse(a) ==
    /\ net[a] = "sent"
    /\ table.log # base[a]
    /\ net' = [net EXCEPT ![a] = "conflict"]
    /\ UNCHANGED <<table, handle, busy, pc, callVars, result, warned>>

EngineAppend(e) ==
    /\ e \notin Landed(table.log)
    /\ table' = [table EXCEPT !.log = Append(@, e), !.odd = FALSE]
    /\ UNCHANGED <<handle, busy, pc, callVars, net, result, warned>>

EngineRepartition ==
    /\ ~table.parted
    /\ table' = [table EXCEPT !.parted = TRUE, !.odd = FALSE]
    /\ UNCHANGED <<handle, busy, pc, callVars, net, result, warned>>

Next ==
    \/ \E s \in Sessions, a \in Appends, d \in Data :
          Refuse(s, a, d) \/ AppendNothing(s, a, d) \/ StartAppend(s, a, d)
    \/ \E a \in Appends :
          \/ BuildWriter(a) \/ WriteSlice(a) \/ CloseWriter(a)
          \/ CommitLoad(a) \/ CommitInvalid(a) \/ CommitSend(a)
          \/ CommitRetry(a) \/ CommitConflict(a)
          \/ Fail(a) \/ GiveUp(a)
          \/ CatalogApply(a) \/ CatalogRefuse(a)
    \/ \E s \in Sessions : Open(s) \/ Crash(s) \/ (\E a \in Appends : Return(s, a))
    \/ \E e \in Others : EngineAppend(e)
    \/ EngineRepartition

Spec == Init /\ [][Next]_vars

\* With the ceiling on, which is the default, each await is given up on in the
\* end.  Nothing is assumed of the catalog, the storage or the user.
Fairness ==
    \A a \in Appends, w \in DOMAIN Awaits :
        WF_vars(pc[a] \in Awaits[w] /\ GiveUp(a))

FairSpec == Spec /\ Fairness

-----------------------------------------------------------------------------
TypeOK ==
    /\ table \in Metadata
    /\ handle \in [Sessions -> Metadata]
    /\ busy \in [Sessions -> Appends \cup {Nobody}]
    /\ pc \in [Appends -> {"unused"} \cup Running \cup Ended]
    /\ given \in [Appends -> Metadata]
    /\ left \in [Appends -> 0..MaxSlices]
    /\ files \in [Appends -> {"none", "partial", "complete"}]
    /\ tries \in [Appends -> 0..MaxRetries]
    /\ base \in [Appends -> Seq(Ids)]
    /\ net \in [Appends -> {"none", "sent", "applied", "conflict"}]
    /\ result \in [Appends -> Metadata]
    /\ warned \subseteq Appends

IsHistory(old, new) ==
    /\ Len(old) <= Len(new)
    /\ \A i \in 1..Len(old) : old[i] = new[i]

\* No commit is lost: whatever handle a session holds or a call was passed or
\* returned, its snapshots are the beginning of the table's.
HandlesAreHistory ==
    /\ \A s \in Sessions : IsHistory(handle[s].log, table.log)
    /\ \A a \in Appends :
          IsHistory(given[a].log, table.log) /\ IsHistory(result[a].log, table.log)

\* A scan never sees half an append: what is in the history was uploaded to
\* its last slice and its file was closed.
CommittedFilesComplete ==
    \A a \in Appends :
        a \in Landed(table.log) => files[a] = "complete" /\ left[a] = 0

\* A call refused by its checks, or passed a handle that they would refuse,
\* wrote nothing, sent nothing and is not in the history.
RefusedLeavesNothing ==
    \A a \in Appends :
        (pc[a] \in {"refused", "noop"} \/ Unwritable(given[a])) =>
            files[a] = "none" /\ net[a] = "none" /\ a \notin Landed(table.log)

\* The handle a successful call returns reads everything the handle it was
\* passed did, and this call's rows as its current snapshot.
ReturnedHandleExtendsGiven ==
    \A a \in Appends :
        pc[a] = "acked" =>
            /\ IsHistory(given[a].log, result[a].log)
            /\ CurrentSnapshot(result[a]) = a

\* The warning that nothing was committed comes exactly when that is so.
WarnedIffNothingCommitted ==
    \A a \in Appends :
        pc[a] \in {"acked", "noop"} => (a \in warned <=> a \notin Landed(table.log))

\* A stale handle is no reason for a refused swap: each refusal a call met is
\* matched by a commit of someone else since its handle was taken.
ConflictsHaveACause ==
    \A a \in Appends :
        tries[a] + (IF net[a] = "conflict" THEN 1 ELSE 0)
            <= Len(table.log) - Len(given[a].log)

\* A session never reads an older table than it did before.
HandleNeverGoesBack ==
    [][\A s \in Sessions : IsHistory(handle[s].log, handle'[s].log)]_vars

\* No call hangs, whatever the catalog and the storage do.
EveryCallEnds == \A a \in Appends : pc[a] \in Running ~> pc[a] \in Ended

\* What the documentation says of a failed append: nothing happened.
FailedAppendDidNothing ==
    \A a \in Appends : pc[a] = "unknown" => a \notin Landed(table.log)

\* What the documentation says of a partitioned table: nothing is written.
PartitionedAppendWroteNothing ==
    [][\A a \in Appends : CommitInvalid(a) => files[a] = "none"]_vars

-----------------------------------------------------------------------------
\* What the caller can conclude from where a call is, or how it ended.
Outcome(phase) ==
    CASE phase = "acked" -> "done"
      [] phase \in {"refused", "noop", "aborted"} -> "declined"
      [] phase = "unknown" -> "unknown"
      [] OTHER -> "pending"

Status == [a \in Appends |-> Outcome(pc[a])]

Abstract == INSTANCE AppendLog WITH log <- table.log, status <- Status

\* A call lands at most once, success means it landed, and a call that failed
\* before its commit was sent never lands.
ImplementsAppendLog == Abstract!Spec

\* A call is in the history at most once: a commit that was refused and built
\* again, or whose caller gave up on it, does not append its rows twice.
NoRowsTwice == Abstract!LandsOnce

\* A call that returned a table is in the history.  One that was refused, had
\* nothing to append or failed before its commit went out is not, and what the
\* catalog still has of it will not put it there.
ReportsAreTrue == Abstract!ReportsAreTrue
=============================================================================
