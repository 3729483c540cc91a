------------------------------ MODULE BatchReader ------------------------------
(***************************************************************************)
(* How a scan becomes a tibble.  rs_scan_to_stream() plans the scan, starts *)
(* it and hands R a BlockingBatchReader behind the C stream interface       *)
(* (scan.rs, arrow_bridge.rs); collect_stream() pulls it batch by batch     *)
(* (R/arrow-bridge.R).  Every pull is an await on R's one thread, which may *)
(* be answered, fail, panic, or be ended by an interrupt, the ceiling or a  *)
(* fork; panic.rs decides which panics print a banner.                      *)
(*                                                                          *)
(* The rows of a scan are numbered in the order its batches hold them:      *)
(* ends[k] rows are in the first k batches, and a batch may be empty.       *)
(***************************************************************************)
EXTENDS Integers, Sequences

CONSTANTS
    MaxBatches,     \* bound: batches of one scan
    MaxRows,        \* bound: rows of one scan
    Limits,         \* the values of `limit` that R passes
    NoLimit         \* limit = NULL

ASSUME ScanAssumption ==
    /\ MaxBatches \in Nat /\ MaxRows \in Nat
    /\ Limits \subseteq Nat
    /\ NoLimit \notin Nat

VARIABLES
    batches,        \* batches the scan has
    ends,           \* ends[k]: the rows in the first k of them
    served,         \* batches the scan has handed out
    schema,         \* what the reader's schema was taken from
    pending,        \* the batch the reader pulled early, or NoBatch
    stream,         \* the reader still has the scan to poll
    at,             \* what R's thread is doing
    limit,
    out,            \* the rows of `chunks`, in their order
    result,         \* how the last call ended
    message,        \* what the condition it raised says
    banner,         \* a panic was reported on stderr
    cause           \* what befell the scan

scan == <<batches, ends, served>>
reader == <<schema, pending, stream>>
reports == <<result, message, banner, cause>>
vars == <<scan, reader, at, limit, out, reports>>

NoBatch == 0
Total == ends[batches]

\* The rows after the first a, up to the b-th.
Rows(a, b) == [i \in 1..(b - a) |-> a + i]

Batch(k) == Rows(ends[k - 1], ends[k])

\* How the rows may fall into batches of any size, none among them.
Cuts == { e \in [0..MaxBatches -> 0..MaxRows] :
            e[0] = 0 /\ \A j, k \in 0..MaxBatches : j <= k => e[j] <= e[k] }

Init ==
    /\ batches = 0 /\ ends = [k \in 0..MaxBatches |-> 0] /\ served = 0
    /\ schema = "none" /\ pending = NoBatch /\ stream = FALSE
    /\ at = "R" /\ limit = NoLimit /\ out = <<>>
    /\ result = "none" /\ message = "none" /\ banner = FALSE /\ cause = "none"

-----------------------------------------------------------------------------
(* How a call ends badly.  A Rust function answers R with an error, which   *)
(* extendr raises by a panic of its own, or it panics; the hook runs first. *)

Errors == {"refused", "failed"}
Panics == {"aborted", "panicked"}

\* The text of an abort by block_on() starts "icebergr: "; no other does.
is_deliberate_message(what) == what = "aborted"

hook(what) == banner' = ~(what \in Errors \/ is_deliberate_message(what))

Raises(what, says) ==
    /\ at' = "R" /\ result' = "error"
    /\ message' = says /\ cause' = what

\* rs_scan_to_stream() does not return: extendr raises what it panicked with.
Throw(what) == hook(what) /\ Raises(what, what)

-----------------------------------------------------------------------------
(* rs_scan_to_stream().                                                     *)

\* icebergr_collect() of a scan that has k batches, cut as e says.
Collect(n, k, e) ==
    /\ at = "R"
    /\ at' = "plan" /\ limit' = n
    /\ batches' = k /\ ends' = e /\ served' = 0
    /\ schema' = "none" /\ pending' = NoBatch /\ stream' = FALSE
    /\ out' = <<>>
    /\ result' = "none" /\ message' = "none" /\ banner' = FALSE /\ cause' = "none"

\* The snapshot, the filter, a name or the plan is refused, or to_arrow() is.
ScanFails(what) ==
    /\ at = "plan"
    /\ Throw(what)
    /\ UNCHANGED <<scan, reader, limit, out>>

ScanStarts ==
    /\ at = "plan"
    /\ at' = "new"
    /\ UNCHANGED <<scan, reader, limit, out, reports>>

\* BUG: the batch pulled for its schema is dropped.
NewDropsBatch ==
    /\ at = "new" /\ served < batches
    /\ served' = served + 1
    /\ schema' = "batch" /\ pending' = NoBatch /\ stream' = TRUE
    /\ at' = "collect"
    /\ UNCHANGED <<batches, ends, limit, out, reports>>

\* BUG: the schema is the table's, whatever the batches have.
NewFallback ==
    /\ at = "new" /\ served < batches
    /\ served' = served + 1
    /\ schema' = "fallback" /\ pending' = served' /\ stream' = TRUE
    /\ at' = "collect"
    /\ UNCHANGED <<batches, ends, limit, out, reports>>

\* BlockingBatchReader::new(): one batch is pulled for its schema and kept.
NewWithBatch ==
    /\ at = "new" /\ served < batches
    /\ served' = served + 1
    /\ schema' = "batch" /\ pending' = served' /\ stream' = TRUE
    /\ at' = "collect"
    /\ UNCHANGED <<batches, ends, limit, out, reports>>

NewWithoutBatch ==
    /\ at = "new" /\ served = batches
    /\ schema' = "fallback" /\ pending' = NoBatch /\ stream' = FALSE
    /\ at' = "collect"
    /\ UNCHANGED <<scan, limit, out, reports>>

NewFails(what) ==
    /\ at = "new"
    /\ Throw(what)
    /\ UNCHANGED <<scan, reader, limit, out>>

-----------------------------------------------------------------------------
(* collect_stream(), and the reader's next() under its get_next().          *)

Wants(n) == limit = NoLimit \/ n < limit

\* BUG: the limit is tested against the batch's rows, not all those seen.
ReceiveForgetful(k) ==
    /\ out' = out \o Batch(k)
    /\ at' = IF Wants(Len(Batch(k))) THEN "collect" ELSE "bind"

\* A batch becomes a chunk, and the loop goes on while rows are wanted.
Receive(k) ==
    /\ out' = out \o Batch(k)
    /\ at' = IF Wants(Len(out')) THEN "collect" ELSE "bind"

\* limit = 0: the columns and no rows, without a pull.
CollectNothing ==
    /\ at = "collect" /\ limit = 0
    /\ at' = "R" /\ result' = "table"
    /\ UNCHANGED <<scan, reader, limit, out, message, banner, cause>>

Pulls == at = "collect" /\ limit # 0

\* next_batch(): the early batch goes first.
PullPending ==
    /\ Pulls /\ pending # NoBatch
    /\ pending' = NoBatch
    /\ Receive(pending)
    /\ UNCHANGED <<scan, schema, stream, limit, reports>>

PullBatch ==
    /\ Pulls /\ pending = NoBatch /\ stream
    /\ served < batches
    /\ served' = served + 1
    /\ Receive(served')
    /\ UNCHANGED <<batches, ends, reader, limit, reports>>

PullEnd ==
    /\ Pulls /\ pending = NoBatch
    /\ stream => served = batches
    /\ stream' = FALSE
    /\ at' = "bind"
    /\ UNCHANGED <<scan, schema, pending, limit, out, reports>>

\* BUG: a failure ends the stream as its last batch does.
PullFailsAsEnd ==
    /\ Pulls /\ pending = NoBatch /\ stream
    /\ stream' = FALSE
    /\ cause' = "failed"
    /\ at' = "bind"
    /\ UNCHANGED <<scan, schema, pending, limit, out, result, message, banner>>

\* The scan answers with an error, which is no panic.
PullFails ==
    /\ Pulls /\ pending = NoBatch /\ stream
    /\ stream' = FALSE
    /\ Raises("failed", "failed") /\ banner' = FALSE
    /\ UNCHANGED <<scan, schema, pending, limit, out>>

\* next() catches a panic below it, and calls it one if it is no abort.
PullPanics(what) ==
    /\ Pulls /\ pending = NoBatch /\ stream
    /\ stream' = FALSE /\ pending' = NoBatch
    /\ hook(what)
    /\ Raises(what, IF is_deliberate_message(what) THEN what ELSE "panicked")
    /\ UNCHANGED <<scan, schema, limit, out>>

\* The chunks are bound, and the rows past the limit are cut off.
Bind ==
    /\ at = "bind"
    /\ out' = IF Wants(Len(out)) THEN out ELSE SubSeq(out, 1, limit)
    /\ at' = "R" /\ result' = "table"
    /\ UNCHANGED <<scan, reader, limit, message, banner, cause>>

Next ==
    \/ \E n \in Limits \cup {NoLimit}, k \in 0..MaxBatches, e \in Cuts : Collect(n, k, e)
    \/ ScanStarts
    \/ \E what \in Errors \cup Panics : ScanFails(what)
    \/ NewWithBatch \/ NewWithoutBatch
    \/ \E what \in {"failed"} \cup Panics : NewFails(what)
    \/ CollectNothing
    \/ PullPending \/ PullBatch \/ PullEnd \/ PullFails
    \/ \E what \in Panics : PullPanics(what)
    \/ Bind

Spec == Init /\ [][Next]_vars

-----------------------------------------------------------------------------
Causes == {"none"} \cup Errors \cup Panics

TypeOK ==
    /\ batches \in 0..MaxBatches /\ ends \in Cuts
    /\ served \in 0..batches
    /\ schema \in {"none", "batch", "fallback"}
    /\ pending \in 0..batches /\ stream \in BOOLEAN
    /\ at \in {"R", "plan", "new", "collect", "bind"}
    /\ limit \in Limits \cup {NoLimit}
    /\ out \in Seq(1..Total)
    /\ result \in {"none", "table", "error"}
    /\ message \in Causes /\ banner \in BOOLEAN /\ cause \in Causes

Wanted == IF Wants(Total) THEN Total ELSE limit

\* icebergr_collect() returns the scan's first rows, each once and in order:
\* all of them, or as many as `limit` says.  The batch that was pulled for
\* its schema is the first of them, and a scan that broke off is no table.
CollectIsExact == result = "table" => out = Rows(0, Wanted)

\* The schema R was given is that of the batches it is given: the one made
\* from the table's is used only for a scan without batches.
SchemaIsTheBatches ==
    /\ out # <<>> => schema = "batch"
    /\ result = "table" => (schema = "batch" <=> batches > 0)

\* Batches nobody asked for are not read: past the first, a batch is pulled
\* only while the rows before it are fewer than `limit`, and none is held
\* back but the one R is about to take.
PullsNoMoreThanAsked ==
    /\ limit # NoLimit /\ served > 1 => ends[served - 1] < limit
    /\ at \in {"collect", "bind"} =>
         ends[served] = Len(out) + (IF pending = NoBatch THEN 0 ELSE Len(Batch(pending)))

\* What befalls a scan is the error R gets, in whichever pull it happens: an
\* interrupt is not called a panic, and a banner is printed for a bug only.
TroubleIsReported ==
    /\ result = "table" => cause = "none"
    /\ result = "error" => message = cause /\ cause # "none"
    /\ banner <=> cause = "panicked"
=============================================================================
