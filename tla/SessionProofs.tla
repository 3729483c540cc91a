----------------------------- MODULE SessionProofs -----------------------------
(***************************************************************************)
(* The invariants of BatchReader, for scans of any number of batches and    *)
(* rows and for any limit, and those of a session of them: of its scans,    *)
(* its handles, its connections and what it says of errors.                 *)
(*                                                                          *)
(* While R reads, what it holds is the rows of the batches served so far,   *)
(* less the one the reader keeps back; that one can only be the first.      *)
(* That is HoldsServed; SchemaFits and LoopFits say how the loop ends.  The *)
(* invariants the runs check follow from them.  A session that ends         *)
(* puts them back to where they begin, and hands no null pointer to Rust.   *)
(***************************************************************************)
EXTENDS Session, ErrorTextProofs

-----------------------------------------------------------------------------
(* Rows.                                                                    *)

\* What the rows after the first a are, one by one.
LEMMA RowsOneByOne ==
    ASSUME NEW a \in Nat, NEW b \in Nat, a <= b
    PROVE  /\ Rows(a, b) \in Seq(Nat)
           /\ Len(Rows(a, b)) = b - a
           /\ \A i \in 1..(b - a) : Rows(a, b)[i] = a + i
  <1>1. b - a \in Nat  OBVIOUS
  <1>2. Rows(a, b) \in [1..(b - a) -> Nat]  BY DEF Rows
  <1>3. \A i \in 1..(b - a) : Rows(a, b)[i] = a + i  BY DEF Rows
  <1>. QED  BY <1>1, <1>2, <1>3

\* No other sequence of b numbers has the number i in place i.
LEMMA NumberedIsRows ==
    ASSUME NEW b \in Nat, NEW s \in Seq(Nat),
           Len(s) = b, \A i \in 1..b : s[i] = i
    PROVE  s = Rows(0, b)
  <1>1. Rows(0, b) \in Seq(Nat) /\ Len(Rows(0, b)) = b /\ \A i \in 1..b : Rows(0, b)[i] = i
    <2>1. 0 \in Nat /\ 0 <= b /\ b - 0 = b /\ \A i \in 1..b : 0 + i = i  OBVIOUS
    <2>2. /\ Rows(0, b) \in Seq(Nat)
          /\ Len(Rows(0, b)) = b - 0
          /\ \A i \in 1..(b - 0) : Rows(0, b)[i] = 0 + i
      BY <2>1, RowsOneByOne
    <2>. QED  BY <2>1, <2>2
  <1>. QED  BY <1>1, SeqEqual

\* The rows up to a and those after them up to b are the rows up to b.
LEMMA RowsConcat ==
    ASSUME NEW a \in Nat, NEW b \in Nat, a <= b
    PROVE  Rows(0, a) \o Rows(a, b) = Rows(0, b)
  <1>1. PICK s \in Seq(Nat) : s = Rows(0, a) /\ Len(s) = a /\ \A i \in 1..a : s[i] = i
    BY RowsOneByOne
  <1>2. PICK t \in Seq(Nat) :
          t = Rows(a, b) /\ Len(t) = b - a /\ \A i \in 1..(b - a) : t[i] = a + i
    BY RowsOneByOne
  <1>3. /\ s \o t \in Seq(Nat)
        /\ Len(s \o t) = Len(s) + Len(t)
        /\ \A i \in 1..Len(s) + Len(t) :
              (s \o t)[i] = IF i <= Len(s) THEN s[i] ELSE t[i - Len(s)]
    BY ConcatProperties
  <1>4. Len(s \o t) = b
    <2>1. a + (b - a) = b  OBVIOUS
    <2>2. Len(s \o t) = Len(s) + Len(t)  BY <1>3
    <2>. QED  BY <2>1, <2>2, <1>1, <1>2
  <1>5. ASSUME NEW i \in 1..b
        PROVE  (s \o t)[i] = i
    <2>1. CASE i <= a  BY <2>1, <1>1, <1>2, <1>3
    <2>2. CASE ~(i <= a)
      <3>1. (s \o t)[i] = t[i - a]  BY <2>2, <1>1, <1>2, <1>3
      <3>2. i - a \in 1..(b - a)  BY <2>2
      <3>3. t[i - a] = i  BY <3>2, <1>2
      <3>. QED  BY <3>1, <3>3
    <2>. QED  BY <2>1, <2>2
  <1>. QED  BY <1>1, <1>2, <1>3, <1>4, <1>5, NumberedIsRows

\* The first n of the rows up to b are the rows up to n.
LEMMA RowsPrefix ==
    ASSUME NEW n \in Nat, NEW b \in Nat, n <= b
    PROVE  SubSeq(Rows(0, b), 1, n) = Rows(0, n)
  <1>1. PICK u \in Seq(Nat) : u = Rows(0, b) /\ Len(u) = b /\ \A i \in 1..b : u[i] = i
    BY RowsOneByOne
  <1>2. /\ SubSeq(u, 1, n) \in Seq(Nat)
        /\ Len(SubSeq(u, 1, n)) = n
        /\ \A i \in 1..n : SubSeq(u, 1, n)[i] = i
    BY <1>1
  <1>. QED  BY <1>1, <1>2, NumberedIsRows

\* As many rows as there are in a longer scan are rows of that scan.
LEMMA RowsAreRows ==
    ASSUME NEW b \in Nat, NEW c \in Nat, b <= c
    PROVE  Rows(0, b) \in Seq(1..c)
  <1>1. Rows(0, b) \in [1..b -> 1..c]  BY DEF Rows
  <1>. QED  BY <1>1

-----------------------------------------------------------------------------
(* The inductive invariant.                                                 *)

Reads == at \in {"collect", "bind"}

\* The rows R holds while it reads.
Held == IF pending = NoBatch THEN ends[served] ELSE 0

Fresh == at \in {"plan", "new"} => served = 0 /\ out = <<>>

Clean == at # "R" => result = "none" /\ message = "none" /\ cause = "none" /\ ~banner

HoldsServed ==
    Reads =>
      /\ out = Rows(0, Held)
      /\ pending # NoBatch => pending = 1 /\ served = 1

SchemaFits ==
    Reads =>
      /\ schema = "batch" <=> batches > 0
      /\ served = 0 => batches = 0
      /\ ~stream => served = batches \/ at = "bind"

\* Why the loop goes on, and why it has stopped.
LoopFits ==
    /\ at = "collect" /\ pending = NoBatch /\ served > 0 => Wants(ends[served])
    /\ at = "bind" => pending = NoBatch /\ (served = batches \/ ~Wants(ends[served]))

IInv ==
    /\ TypeOK
    /\ Fresh /\ Clean /\ HoldsServed /\ SchemaFits /\ LoopFits
    /\ CollectIsExact /\ SchemaIsTheBatches
    /\ PullsNoMoreThanAsked /\ TroubleIsReported

\* What the cut of a scan into batches gives.
LEMMA EndsAreOrdered ==
    ASSUME TypeOK
    PROVE  /\ batches \in Nat /\ served \in Nat /\ Total \in Nat
           /\ ends[0] = 0
           /\ \A k \in 0..batches : ends[k] \in Nat /\ ends[k] <= Total
           /\ \A j, k \in 0..batches : j <= k => ends[j] <= ends[k]
  BY ScanAssumption DEF TypeOK, Cuts, Total

\* Batch k follows the rows of the batches before it.
LEMMA BatchFollows ==
    ASSUME TypeOK, NEW k \in 1..batches
    PROVE  /\ Rows(0, ends[k - 1]) \o Batch(k) = Rows(0, ends[k])
           /\ Len(Rows(0, ends[k])) = ends[k]
           /\ Rows(0, ends[k]) \in Seq(1..Total)
  <1>1. /\ ends[k - 1] \in Nat /\ ends[k] \in Nat /\ Total \in Nat
        /\ ends[k - 1] <= ends[k] /\ ends[k] <= Total
    BY EndsAreOrdered
  <1>2. Rows(0, ends[k - 1]) \o Batch(k) = Rows(0, ends[k])
    BY <1>1, RowsConcat DEF Batch
  <1>3. Len(Rows(0, ends[k])) = ends[k] - 0
    <2>1. 0 \in Nat /\ 0 <= ends[k]  BY <1>1
    <2>. QED  BY <1>1, <2>1, RowsOneByOne
  <1>4. Rows(0, ends[k]) \in Seq(1..Total)
    BY <1>1, RowsAreRows
  <1>. QED  BY <1>1, <1>2, <1>3, <1>4

\* There are no rows before the first.
LEMMA NoRows == Rows(0, 0) = <<>>
  BY DEF Rows

LEMMA InitIInv == Init => IInv
  <1>. SUFFICES ASSUME Init PROVE IInv  OBVIOUS
  <1>1. ends \in Cuts /\ batches \in 0..MaxBatches /\ out \in Seq(1..Total)
    BY ScanAssumption DEF Init, Cuts
  <1>2. TypeOK
    <2>1. /\ served = 0 /\ pending = 0 /\ batches = 0 /\ stream = FALSE /\ banner = FALSE
          /\ schema = "none" /\ at = "R" /\ limit = NoLimit
          /\ result = "none" /\ message = "none" /\ cause = "none"
      BY DEF Init, NoBatch
    <2>2. served \in 0..batches /\ pending \in 0..batches  BY <2>1
    <2>3. limit \in Limits \cup {NoLimit}  BY <2>1
    <2>4. {result, message, cause} \subseteq {"none"}  BY <2>1
    <2>. QED  BY <1>1, <2>1, <2>2, <2>3, <2>4 DEF TypeOK, Causes
  <1>3. Fresh /\ Clean /\ HoldsServed /\ SchemaFits /\ LoopFits
    BY DEF Init, Reads, Fresh, Clean, HoldsServed, SchemaFits, LoopFits
  <1>4. CollectIsExact /\ SchemaIsTheBatches /\ PullsNoMoreThanAsked /\ TroubleIsReported
    BY DEF Init, CollectIsExact, SchemaIsTheBatches, PullsNoMoreThanAsked, TroubleIsReported
  <1>. QED  BY <1>2, <1>3, <1>4 DEF IInv

\* A call begins with nothing served and nothing held.
LEMMA CollectKeeps ==
    ASSUME IInv, NEW n \in Limits \cup {NoLimit}, NEW k \in 0..MaxBatches, NEW e \in Cuts,
           Collect(n, k, e)
    PROVE  IInv'
  <1>1. out' \in Seq((1..Total)')
    BY DEF Collect
  <1>2. TypeOK'
    <2>1. /\ served' = 0 /\ pending' = 0 /\ stream' = FALSE /\ banner' = FALSE
          /\ batches' = k /\ ends' = e /\ limit' = n
          /\ schema' = "none" /\ at' = "plan"
          /\ result' = "none" /\ message' = "none" /\ cause' = "none"
      BY DEF Collect, NoBatch
    <2>2. k \in Nat /\ 0 \in 0..k  BY ScanAssumption
    <2>. QED  BY <1>1, <2>1, <2>2 DEF TypeOK, Causes
  <1>3. (Fresh /\ Clean /\ HoldsServed /\ SchemaFits /\ LoopFits)'
    BY DEF Collect, Reads, Fresh, Clean, HoldsServed, SchemaFits, LoopFits
  <1>4. (CollectIsExact /\ SchemaIsTheBatches /\ PullsNoMoreThanAsked /\ TroubleIsReported)'
    BY DEF Collect, CollectIsExact, SchemaIsTheBatches, PullsNoMoreThanAsked, TroubleIsReported
  <1>. QED  BY <1>2, <1>3, <1>4 DEF IInv

LEMMA ScanStartsKeeps ==
    ASSUME IInv, ScanStarts
    PROVE  IInv'
  BY DEF ScanStarts, IInv, TypeOK, Total, reader, scan, reports,
       Reads, Held, Fresh, Clean, HoldsServed, SchemaFits, LoopFits, CollectIsExact,
       SchemaIsTheBatches, PullsNoMoreThanAsked, TroubleIsReported

\* An error while a call is under way is reported as what it is, and a panic
\* is the only one with a banner.
LEMMA RaiseKeeps ==
    ASSUME IInv, at # "R", NEW what \in Errors \cup Panics, Raises(what, what),
           banner' = (what = "panicked"),
           UNCHANGED <<scan, schema, limit, out>>,
           pending' \in {pending, NoBatch}, stream' \in {stream, FALSE}
    PROVE  IInv'
  <1>1. TypeOK'
    <2>1. pending' \in 0..batches  BY DEF IInv, TypeOK, NoBatch
    <2>. QED  BY <2>1 DEF Raises, IInv, TypeOK, Total, Causes, scan
  <1>2. (Fresh /\ Clean /\ HoldsServed /\ SchemaFits /\ LoopFits)'
    BY DEF Raises, Reads, Fresh, Clean, HoldsServed, SchemaFits, LoopFits
  <1>3. (CollectIsExact /\ TroubleIsReported)'
    BY DEF Raises, CollectIsExact, TroubleIsReported, Errors, Panics
  <1>4. (SchemaIsTheBatches /\ PullsNoMoreThanAsked)'
    BY DEF Raises, IInv, scan, SchemaIsTheBatches, PullsNoMoreThanAsked
  <1>. QED  BY <1>1, <1>2, <1>3, <1>4 DEF IInv

\* The batch pulled early is held back, and is the first.
LEMMA NewWithBatchKeeps ==
    ASSUME IInv, NewWithBatch
    PROVE  IInv'
  <1>1. served = 0 /\ out = <<>> /\ served' = 1 /\ pending' = 1 /\ batches > 0 /\ batches \in Nat
    BY EndsAreOrdered DEF IInv, Fresh, NewWithBatch
  <1>2. 1 \in 1..batches /\ ends[1] \in Nat /\ ends[0] = 0 /\ Total \in Nat
    BY <1>1, EndsAreOrdered DEF IInv
  <1>3. TypeOK'
    BY <1>1, <1>2 DEF IInv, TypeOK, NewWithBatch, Total, reports
  <1>4. (Fresh /\ Clean /\ SchemaFits /\ LoopFits)'
    BY <1>1 DEF IInv, NewWithBatch, reports, NoBatch, Reads, Fresh, Clean, SchemaFits, LoopFits
  <1>5. HoldsServed'
    BY <1>1, NoRows DEF NewWithBatch, HoldsServed, Held, NoBatch
  <1>6. (CollectIsExact /\ SchemaIsTheBatches /\ TroubleIsReported)'
    BY DEF IInv, Clean, NewWithBatch, reports, CollectIsExact, SchemaIsTheBatches, TroubleIsReported
  <1>7. PullsNoMoreThanAsked'
    <2>1. Len(Rows(0, ends[1])) = ends[1] /\ Rows(0, ends[0]) = <<>>
      BY <1>2, BatchFollows, NoRows DEF IInv
    <2>2. Batch(1) = Rows(0, ends[1])
      BY <1>2 DEF Batch
    <2>3. Batch(pending)' = Batch(1)
      BY <1>1 DEF NewWithBatch, Batch
    <2>4. ends' = ends /\ served' = 1 /\ pending' = 1 /\ out' = <<>> /\ Len(out') = 0
      BY <1>1 DEF NewWithBatch
    <2>. QED  BY <1>2, <2>1, <2>2, <2>3, <2>4 DEF PullsNoMoreThanAsked, NoBatch
  <1>. QED  BY <1>3, <1>4, <1>5, <1>6, <1>7 DEF IInv

\* A scan without batches ends at once.
LEMMA NewWithoutBatchKeeps ==
    ASSUME IInv, NewWithoutBatch
    PROVE  IInv'
  <1>1. served = 0 /\ out = <<>> /\ batches = 0 /\ ends[0] = 0 /\ Len(out) = 0
    BY EndsAreOrdered DEF IInv, Fresh, NewWithoutBatch
  <1>2. TypeOK'
    BY <1>1 DEF IInv, TypeOK, NewWithoutBatch, Total, reports, scan, NoBatch
  <1>3. (Fresh /\ Clean /\ SchemaFits /\ LoopFits)'
    BY <1>1 DEF IInv, NewWithoutBatch, reports, scan, NoBatch, Reads, Fresh, Clean, SchemaFits,
         LoopFits
  <1>4. HoldsServed'
    BY <1>1, NoRows DEF NewWithoutBatch, scan, HoldsServed, Held, NoBatch
  <1>5. (CollectIsExact /\ SchemaIsTheBatches /\ TroubleIsReported)'
    BY <1>1 DEF IInv, Clean, NewWithoutBatch, reports, CollectIsExact, SchemaIsTheBatches,
         TroubleIsReported
  <1>6. PullsNoMoreThanAsked'
    BY <1>1 DEF NewWithoutBatch, scan, PullsNoMoreThanAsked, NoBatch
  <1>. QED  BY <1>2, <1>3, <1>4, <1>5, <1>6 DEF IInv

\* With a limit of zero R holds no rows and pulls none.
LEMMA CollectNothingKeeps ==
    ASSUME IInv, CollectNothing
    PROVE  IInv'
  <1>1. /\ served \in Nat /\ Total \in Nat /\ ends[0] = 0
        /\ served \in 0..batches /\ ends[served] \in Nat
    BY EndsAreOrdered DEF IInv, TypeOK
  <1>2. limit # NoLimit
    BY ScanAssumption DEF CollectNothing
  <1>3. Held = 0
    <2>1. CASE pending # NoBatch  BY <2>1 DEF Held
    <2>2. CASE pending = NoBatch /\ served > 0
      BY <2>2, <1>1, <1>2 DEF IInv, LoopFits, Wants, CollectNothing
    <2>3. CASE pending = NoBatch /\ served = 0
      BY <2>3, <1>1 DEF Held
    <2>. QED  BY <1>1, <2>1, <2>2, <2>3
  <1>4. out = Rows(0, 0) /\ out = <<>>
    BY <1>3, NoRows DEF IInv, HoldsServed, Reads, CollectNothing
  <1>5. Wanted = 0
    BY <1>1, <1>2 DEF Wanted, Wants, CollectNothing
  <1>6. TypeOK'
    BY DEF IInv, TypeOK, CollectNothing, Total, scan, reader
  <1>7. (Fresh /\ Clean /\ HoldsServed /\ SchemaFits /\ LoopFits)'
    BY DEF CollectNothing, Reads, Fresh, Clean, HoldsServed, SchemaFits, LoopFits
  <1>8. CollectIsExact'
    BY <1>4, <1>5 DEF CollectNothing, CollectIsExact, Wanted, Wants, Total, scan
  <1>9. (SchemaIsTheBatches /\ TroubleIsReported)'
    BY <1>4 DEF IInv, Clean, SchemaFits, Reads, CollectNothing, scan, reader,
         SchemaIsTheBatches, TroubleIsReported
  <1>10. PullsNoMoreThanAsked'
    BY DEF IInv, CollectNothing, scan, reader, PullsNoMoreThanAsked
  <1>. QED  BY <1>6, <1>7, <1>8, <1>9, <1>10 DEF IInv

\* Whichever batch comes next, R then holds the rows up to its last.
LEMMA ReceiveKeeps ==
    ASSUME IInv, at = "collect", NEW k \in 1..batches,
           out = Rows(0, ends[k - 1]), Receive(k), served' = k, pending' = NoBatch,
           k > 1 => Wants(ends[k - 1]), ~stream => k = batches,
           UNCHANGED <<batches, ends, schema, stream, limit, reports>>
    PROVE  IInv'
  <1>1. /\ out' = Rows(0, ends[k]) /\ Len(out') = ends[k] /\ out' \in Seq(1..Total)
        /\ k \in Nat /\ batches \in Nat
    <2>1. TypeOK  BY DEF IInv
    <2>2. /\ Rows(0, ends[k - 1]) \o Batch(k) = Rows(0, ends[k])
          /\ Len(Rows(0, ends[k])) = ends[k]
          /\ Rows(0, ends[k]) \in Seq(1..Total)
      BY <2>1, BatchFollows
    <2>3. out' = Rows(0, ends[k])  BY <2>2 DEF Receive
    <2>4. batches \in Nat  BY <2>1, EndsAreOrdered
    <2>. QED  BY <2>2, <2>3, <2>4
  <1>2. /\ at' \in {"collect", "bind"}
        /\ at' = "collect" => Wants(ends[k])
        /\ at' = "bind" => ~Wants(ends[k])
    BY <1>1 DEF Receive
  <1>3. TypeOK'
    <2>1. served' \in 0..batches /\ pending' \in 0..batches  BY <1>1 DEF NoBatch
    <2>. QED  BY <1>1, <1>2, <2>1 DEF IInv, TypeOK, Total, reports
  <1>4. (Fresh /\ Clean)'
    BY <1>2 DEF IInv, Fresh, Clean, reports
  <1>5. HoldsServed'
    BY <1>1 DEF HoldsServed, Held
  <1>6. SchemaFits'
    BY <1>1 DEF IInv, SchemaFits, Reads
  <1>7. LoopFits'
    BY <1>2 DEF LoopFits, Wants
  <1>8. (CollectIsExact /\ SchemaIsTheBatches /\ TroubleIsReported)'
    BY <1>1 DEF IInv, Clean, SchemaFits, Reads, reports, CollectIsExact, SchemaIsTheBatches,
         TroubleIsReported
  <1>9. PullsNoMoreThanAsked'
    <2>1. limit # NoLimit /\ k > 1 => ends[k - 1] < limit
      BY DEF Wants
    <2>2. ends[k] = Len(out') + 0
      BY <1>1, EndsAreOrdered DEF IInv
    <2>. QED  BY <2>1, <2>2 DEF PullsNoMoreThanAsked
  <1>. QED  BY <1>3, <1>4, <1>5, <1>6, <1>7, <1>8, <1>9 DEF IInv

LEMMA PullPendingKeeps ==
    ASSUME IInv, PullPending
    PROVE  IInv'
  <1>1. pending = 1 /\ served = 1 /\ out = Rows(0, 0) /\ 1 \in 1..batches /\ ends[0] = 0
    BY EndsAreOrdered DEF IInv, HoldsServed, Held, Reads, TypeOK, PullPending, Pulls
  <1>2. ~stream => 1 = batches
    BY <1>1 DEF IInv, SchemaFits, Reads, PullPending, Pulls
  <1>. QED
    BY <1>1, <1>2, ReceiveKeeps DEF PullPending, Pulls, scan, NoBatch

LEMMA PullBatchKeeps ==
    ASSUME IInv, PullBatch
    PROVE  IInv'
  <1>1. served \in Nat /\ batches \in Nat /\ served # 0
    BY EndsAreOrdered DEF IInv, SchemaFits, Reads, PullBatch, Pulls
  <1>2. PICK k \in 1..batches : k = served + 1 /\ k - 1 = served
    BY <1>1 DEF PullBatch
  <1>3. out = Rows(0, ends[k - 1])
    BY <1>2 DEF IInv, HoldsServed, Held, Reads, PullBatch, Pulls
  <1>4. Wants(ends[k - 1])
    BY <1>1, <1>2 DEF IInv, LoopFits, PullBatch, Pulls
  <1>. QED
    BY <1>2, <1>3, <1>4, ReceiveKeeps DEF PullBatch, Pulls, reader

LEMMA PullEndKeeps ==
    ASSUME IInv, PullEnd
    PROVE  IInv'
  <1>1. served = batches /\ pending = NoBatch
    BY DEF IInv, SchemaFits, Reads, PullEnd, Pulls
  <1>2. TypeOK'
    BY DEF IInv, TypeOK, PullEnd, Total, scan, reports
  <1>3. (Fresh /\ Clean /\ LoopFits)'
    BY <1>1 DEF IInv, Fresh, Clean, LoopFits, PullEnd, Pulls, scan, reports
  <1>4. (HoldsServed /\ SchemaFits)'
    BY <1>1 DEF IInv, HoldsServed, Held, SchemaFits, Reads, PullEnd, Pulls, scan
  <1>5. (CollectIsExact /\ SchemaIsTheBatches /\ TroubleIsReported)'
    BY DEF IInv, Clean, PullEnd, Pulls, scan, reports, CollectIsExact, SchemaIsTheBatches,
         TroubleIsReported
  <1>6. PullsNoMoreThanAsked'
    BY <1>1 DEF IInv, PullEnd, Pulls, scan, PullsNoMoreThanAsked
  <1>. QED  BY <1>2, <1>3, <1>4, <1>5, <1>6 DEF IInv

\* What is bound is all the scan has, or what was asked for.
LEMMA BindKeeps ==
    ASSUME IInv, Bind
    PROVE  IInv'
  <1>1. /\ served \in 0..batches /\ batches \in Nat /\ Total \in Nat
        /\ ends[served] \in Nat /\ ends[served] <= Total
        /\ served = batches => ends[served] = Total
    BY EndsAreOrdered DEF IInv, TypeOK, Total
  <1>2. /\ pending = NoBatch /\ out = Rows(0, ends[served])
        /\ served = batches \/ ~Wants(ends[served])
    BY DEF IInv, HoldsServed, Held, LoopFits, Reads, Bind
  <1>3. Len(out) = ends[served]
    BY <1>1, <1>2 DEF IInv, PullsNoMoreThanAsked, Bind
  <1>4. Wanted' = Wanted
    BY DEF Bind, scan, Wanted, Wants, Total
  <1>5. out' = Rows(0, Wanted) /\ Wanted \in Nat /\ Wanted <= Total
    <2>1. CASE Wants(ends[served])
      <3>1. served = batches /\ out' = out /\ ends[served] = Total
        BY <2>1, <1>1, <1>2, <1>3 DEF Bind
      <3>2. Wanted = Total
        BY <3>1, <2>1 DEF Wanted
      <3>. QED  BY <3>1, <3>2, <1>1, <1>2
    <2>2. CASE ~Wants(ends[served])
      <3>1. limit \in Nat /\ limit <= ends[served]
        BY <2>2, <1>1, ScanAssumption DEF IInv, TypeOK, Wants
      <3>2. limit # NoLimit /\ ~(Total < limit)
        BY <3>1, <1>1, ScanAssumption
      <3>3. Wanted = limit
        BY <3>2 DEF Wanted, Wants
      <3>4. out' = Rows(0, limit)
        BY <2>2, <3>1, <1>1, <1>2, <1>3, RowsPrefix DEF Bind
      <3>. QED  BY <3>1, <3>3, <3>4, <1>1
    <2>. QED  BY <2>1, <2>2
  <1>6. TypeOK'
    <2>1. out' \in Seq((1..Total)')
      BY <1>5, <1>1, RowsAreRows DEF Bind, scan, Total
    <2>. QED  BY <2>1 DEF IInv, TypeOK, Bind, scan, reader
  <1>7. (Fresh /\ Clean /\ HoldsServed /\ SchemaFits /\ LoopFits)'
    BY DEF Bind, Reads, Fresh, Clean, HoldsServed, SchemaFits, LoopFits
  <1>8. CollectIsExact'
    BY <1>4, <1>5 DEF CollectIsExact
  <1>9. SchemaIsTheBatches'
    <2>1. schema' = schema /\ batches' = batches /\ (schema = "batch" <=> batches > 0)
      BY DEF IInv, SchemaFits, Reads, Bind, scan, reader
    <2>2. batches = 0 => out' = <<>>
      <3>1. CASE batches = 0
        <4>1. Total = 0  BY <3>1, EndsAreOrdered DEF IInv, Total
        <4>2. Wanted = 0  BY <4>1, <1>5
        <4>. QED  BY <4>2, <1>5, NoRows
      <3>. QED  BY <3>1
    <2>. QED  BY <1>1, <2>1, <2>2 DEF SchemaIsTheBatches
  <1>10. (PullsNoMoreThanAsked /\ TroubleIsReported)'
    BY DEF IInv, Clean, Bind, scan, reader, PullsNoMoreThanAsked, TroubleIsReported
  <1>. QED  BY <1>6, <1>7, <1>8, <1>9, <1>10 DEF IInv

\* A stutter changes nothing that the invariant speaks of.
LEMMA StutterKeeps ==
    ASSUME IInv, UNCHANGED vars
    PROVE  IInv'
  <1>1. TypeOK'
    BY DEF IInv, TypeOK, vars, scan, reader, reports, Total
  <1>2. (Fresh /\ Clean /\ HoldsServed /\ SchemaFits /\ LoopFits)'
    BY DEF IInv, vars, scan, reader, reports, Reads, Held, Fresh, Clean, HoldsServed,
         SchemaFits, LoopFits, Wants
  <1>3. (CollectIsExact /\ SchemaIsTheBatches /\ PullsNoMoreThanAsked /\ TroubleIsReported)'
    BY DEF IInv, vars, scan, reader, reports, CollectIsExact, Wanted, Wants, Total, Batch,
         SchemaIsTheBatches, PullsNoMoreThanAsked, TroubleIsReported
  <1>. QED  BY <1>1, <1>2, <1>3 DEF IInv

LEMMA StepKeepsIInv == IInv /\ [Next]_vars => IInv'
  <1>. SUFFICES ASSUME IInv, [Next]_vars PROVE IInv'  OBVIOUS
  <1>1. ASSUME NEW n \in Limits \cup {NoLimit}, NEW k \in 0..MaxBatches, NEW e \in Cuts,
               Collect(n, k, e)
        PROVE  IInv'
    BY <1>1, CollectKeeps
  <1>2. CASE ScanStarts  BY <1>2, ScanStartsKeeps
  <1>3. ASSUME NEW what \in Errors \cup Panics, ScanFails(what)
        PROVE  IInv'
    <2>1. Raises(what, what) /\ banner' = (what = "panicked")
      BY <1>3 DEF ScanFails, Throw, hook, is_deliberate_message, Errors, Panics
    <2>. QED  BY <1>3, <2>1, RaiseKeeps DEF ScanFails, reader
  <1>4. CASE NewWithBatch  BY <1>4, NewWithBatchKeeps
  <1>5. CASE NewWithoutBatch  BY <1>5, NewWithoutBatchKeeps
  <1>6. ASSUME NEW what \in {"failed"} \cup Panics, NewFails(what)
        PROVE  IInv'
    <2>1. what \in Errors \cup Panics  BY DEF Errors
    <2>2. Raises(what, what) /\ banner' = (what = "panicked")
      BY <1>6, <2>1 DEF NewFails, Throw, hook, is_deliberate_message, Errors, Panics
    <2>. QED  BY <1>6, <2>1, <2>2, RaiseKeeps DEF NewFails, reader
  <1>7. CASE CollectNothing  BY <1>7, CollectNothingKeeps
  <1>8. CASE PullPending  BY <1>8, PullPendingKeeps
  <1>9. CASE PullBatch  BY <1>9, PullBatchKeeps
  <1>10. CASE PullEnd  BY <1>10, PullEndKeeps
  <1>11. CASE PullFails
    <2>1. "failed" \in Errors \cup Panics  BY DEF Errors
    <2>. QED  BY <1>11, <2>1, RaiseKeeps DEF PullFails, Pulls
  <1>12. ASSUME NEW what \in Panics, PullPanics(what)
         PROVE  IInv'
    <2>1. what \in Errors \cup Panics  OBVIOUS
    <2>2. Raises(what, what) /\ banner' = (what = "panicked")
      BY <1>12 DEF PullPanics, hook, is_deliberate_message, Errors, Panics
    <2>. QED  BY <1>12, <2>1, <2>2, RaiseKeeps DEF PullPanics, Pulls
  <1>13. CASE Bind  BY <1>13, BindKeeps
  <1>14. CASE UNCHANGED vars  BY <1>14, StutterKeeps
  <1>. QED
    BY <1>1, <1>2, <1>3, <1>4, <1>5, <1>6, <1>7, <1>8, <1>9, <1>10, <1>11, <1>12, <1>13, <1>14
    DEF Next

-----------------------------------------------------------------------------
(* What holds of a single scan.                                            *)

\* The invariant holds for scans and limits of any size.
THEOREM ReaderInvariant == Spec => []IInv
  BY InitIInv, StepKeepsIInv, PTL DEF Spec

\* Every variable keeps its range, `served` that of the scan's batches.
THEOREM ReaderTypes == Spec => []TypeOK
  <1>1. IInv => TypeOK  BY DEF IInv
  <1>. QED  BY <1>1, ReaderInvariant, PTL

\* icebergr_collect() returns the first rows of the scan, each once, in order,
\* as many as `limit` says, or it returns no table.
THEOREM TablesAreExact == Spec => []CollectIsExact
  <1>1. IInv => CollectIsExact  BY DEF IInv
  <1>. QED  BY <1>1, ReaderInvariant, PTL

\* The C stream's schema is that of the batches that come through it.
THEOREM StreamsAreTyped == Spec => []SchemaIsTheBatches
  <1>1. IInv => SchemaIsTheBatches  BY DEF IInv
  <1>. QED  BY <1>1, ReaderInvariant, PTL

\* Whatever the limit, no batch past those it needs is pulled.
THEOREM PullsAreLazy == Spec => []PullsNoMoreThanAsked
  <1>1. IInv => PullsNoMoreThanAsked  BY DEF IInv
  <1>. QED  BY <1>1, ReaderInvariant, PTL

\* A scan that broke off is an error that says why, and never a table.
THEOREM TroubleIsNeverHidden == Spec => []TroubleIsReported
  <1>1. IInv => TroubleIsReported  BY DEF IInv
  <1>. QED  BY <1>1, ReaderInvariant, PTL

-----------------------------------------------------------------------------
\* A step of a session is a step of the scan that it collects, or none of its
\* business, or the end of the session and with it of the scan.
LEMMA StepsOfTheReader == [SNext]_svars => [Next]_vars \/ Init'
  <1>. SUFFICES ASSUME [SNext]_svars PROVE [Next]_vars \/ Init'  OBVIOUS
  <1>1. CASE Restart  BY <1>1 DEF Restart, Init
  <1>2. CASE Connect  BY <1>2 DEF Connect
  <1>3. CASE Loaded  BY <1>3 DEF Loaded
  <1>4. ASSUME NEW error \in Echoes, LoadFails(error)
        PROVE  UNCHANGED vars
    BY <1>4 DEF LoadFails
  <1>5. CASE Lists \/ ListFails \/ icebergr_table \/ icebergr_scan
    BY <1>5 DEF Lists, ListFails, icebergr_table, icebergr_scan
  <1>6. ASSUME NEW n \in Limits \cup {NoLimit}, NEW k \in 0..MaxBatches, NEW e \in Cuts,
               icebergr_collect(n, k, e)
        PROVE  Next
    BY <1>6 DEF icebergr_collect, Next
  <1>7. CASE UNCHANGED svars  BY <1>7 DEF svars
  <1>8. ASSUME NEW what \in Errors \cup Panics, NEW error, Breaks(ScanFails(what), what, error)
        PROVE  Next
    BY <1>8 DEF Breaks, Next
  <1>9. ASSUME NEW what \in {"failed"} \cup Panics, NEW error, Breaks(NewFails(what), what, error)
         PROVE  Next
    BY <1>9 DEF Breaks, Next
  <1>10. ASSUME NEW what \in Panics, NEW error, Breaks(PullPanics(what), what, error)
         PROVE  Next
    BY <1>10 DEF Breaks, Next
  <1>11. CASE \/ Goes(ScanStarts) \/ Goes(NewWithBatch) \/ Goes(NewWithoutBatch)
              \/ Goes(CollectNothing) \/ Goes(PullPending) \/ Goes(PullBatch)
              \/ Goes(PullEnd) \/ Goes(Bind)
    BY <1>11 DEF Goes, Next
  <1>12. ASSUME NEW error, StreamFails(error)
         PROVE  Next
    BY <1>12 DEF StreamFails, Next
  <1>. QED
    BY <1>1, <1>2, <1>3, <1>4, <1>5, <1>6, <1>7, <1>8, <1>9, <1>10, <1>11, <1>12 DEF SNext

\* Every call that gives a handle to Rust looks at its pointer first.
LEMMA StepKeepsHandles == NoDeadHandleInRust /\ [SNext]_svars => NoDeadHandleInRust'
  <1>. SUFFICES ASSUME ~null, [SNext]_svars PROVE ~null'
    BY DEF NoDeadHandleInRust
  <1>1. CASE Restart  BY <1>1 DEF Restart
  <1>2. CASE Connect  BY <1>2 DEF Connect
  <1>3. CASE Loaded  BY <1>3 DEF Loaded
  <1>4. ASSUME NEW error \in Echoes, LoadFails(error)
        PROVE  ~null'
    BY <1>4 DEF LoadFails
  <1>5. CASE Lists \/ ListFails \/ icebergr_table
    BY <1>5 DEF Lists, ListFails, icebergr_table, check_catalog, check_live_ptr, Hands
  <1>6. CASE icebergr_scan
    BY <1>6 DEF icebergr_scan, check_table, check_live_ptr, Hands
  <1>7. ASSUME NEW n \in Limits \cup {NoLimit}, NEW k \in 0..MaxBatches, NEW e \in Cuts,
               icebergr_collect(n, k, e)
        PROVE  ~null'
    BY <1>7 DEF icebergr_collect, check_scan, check_live_ptr, Hands
  <1>8. CASE UNCHANGED svars  BY <1>8 DEF svars
  <1>9. ASSUME UNCHANGED null
        PROVE  ~null'
    BY <1>9
  <1>. QED
    BY <1>1, <1>2, <1>3, <1>4, <1>5, <1>6, <1>7, <1>8, <1>9 DEF SNext, Goes, Breaks, StreamFails

-----------------------------------------------------------------------------
(* What holds of a session.                                                 *)

\* The invariant of the reader survives the end of a session at any moment.
THEOREM SessionInvariant == SSpec => [](IInv /\ NoDeadHandleInRust)
  <1>1. SInit => IInv /\ NoDeadHandleInRust
    BY InitIInv DEF SInit, NoDeadHandleInRust
  <1>2. IInv /\ [SNext]_svars => IInv'
    BY StepsOfTheReader, StepKeepsIInv, InitIInv, PTL
  <1>. QED  BY <1>1, <1>2, StepKeepsHandles, PTL DEF SSpec

\* In a session too, a tibble is exactly the rows asked for.
THEOREM SessionTablesAreExact == SSpec => []CollectIsExact
  <1>1. IInv => CollectIsExact  BY DEF IInv
  <1>. QED  BY <1>1, SessionInvariant, PTL

\* In a session too, R's schema is the batches'.
THEOREM SessionStreamsAreTyped == SSpec => []SchemaIsTheBatches
  <1>1. IInv => SchemaIsTheBatches  BY DEF IInv
  <1>. QED  BY <1>1, SessionInvariant, PTL

\* In a session too, no batch past those that are needed is pulled.
THEOREM SessionPullsAreLazy == SSpec => []PullsNoMoreThanAsked
  <1>1. IInv => PullsNoMoreThanAsked  BY DEF IInv
  <1>. QED  BY <1>1, SessionInvariant, PTL

\* In a session too, a scan that broke off is an error that says why.
THEOREM SessionTroubleIsNeverHidden == SSpec => []TroubleIsReported
  <1>1. IInv => TroubleIsReported  BY DEF IInv
  <1>. QED  BY <1>1, SessionInvariant, PTL

\* A handle whose pointer was lost with its session goes no further than R.
THEOREM DeadHandlesStayInR == SSpec => []NoDeadHandleInRust
  BY SessionInvariant, PTL
-----------------------------------------------------------------------------
(* What goes with a connection.                                             *)

LEMMA OverIs ==
    ASSUME NEW given, NEW props
    PROVE  /\ DOMAIN Over(given, props) = DOMAIN given \cup DOMAIN props
           /\ \A p \in DOMAIN given : Over(given, props)[p] = given[p]
           /\ \A p \in DOMAIN props \ DOMAIN given : Over(given, props)[p] = props[p]
  BY DEF Over

Variables == DOMAIN credential_vars \cup DOMAIN aws_fallbacks

\* What each variable that is read names.
LEMMA VariablesName ==
    /\ DOMAIN aws_fallbacks = {"AWS_ACCESS_KEY_ID"}
    /\ aws_fallbacks["AWS_ACCESS_KEY_ID"] = "s3.access-key-id"
  BY DEF credential_vars, aws_fallbacks

\* From the environment, only the keys for storage are ones that are lying
\* about.
LEMMA FromTheEnvironment ==
    ASSUME NEW set \in SUBSET Variables, NEW object_storage \in BOOLEAN
    PROVE  LET props == properties_from_env(set, object_storage)
           IN  /\ \A p \in DOMAIN props :
                     props[p] = "ambient" => object_storage /\ p = "s3.access-key-id"
               /\ object_storage /\ "AWS_ACCESS_KEY_ID" \in set
                     => "s3.access-key-id" \in DOMAIN props
  <1>. DEFINE own == [p \in {credential_vars[v] : v \in set \cap DOMAIN credential_vars} |->
                        IF p \in secret_props THEN "own" ELSE "http"]
              aws == [p \in {aws_fallbacks[v] : v \in set \cap DOMAIN aws_fallbacks} |-> "ambient"]
              props == properties_from_env(set, object_storage)
  <1>1. \A p \in DOMAIN own : own[p] # "ambient"
    OBVIOUS
  <1>2. /\ DOMAIN aws \subseteq {"s3.access-key-id"}
        /\ "AWS_ACCESS_KEY_ID" \in set => "s3.access-key-id" \in DOMAIN aws
    BY VariablesName
  <1>3. props = IF object_storage THEN Over(own, aws) ELSE own
    BY DEF properties_from_env
  <1>. HIDE DEF own, aws, props
  <1>4. CASE object_storage
    <2>1. props = Over(own, aws)  BY <1>3, <1>4
    <2>2. /\ DOMAIN Over(own, aws) = DOMAIN own \cup DOMAIN aws
          /\ \A p \in DOMAIN own : Over(own, aws)[p] = own[p]
      BY OverIs
    <2>3. /\ \A p \in DOMAIN props : props[p] = "ambient" => p = "s3.access-key-id"
          /\ "AWS_ACCESS_KEY_ID" \in set => "s3.access-key-id" \in DOMAIN props
      BY <2>1, <2>2, <1>1, <1>2
    <2>. QED  BY <2>3, <1>4 DEF props
  <1>5. CASE ~object_storage
    <2>1. \A p \in DOMAIN props : props[p] # "ambient"
      BY <1>1, <1>3, <1>5
    <2>. QED  BY <2>1, <1>5 DEF props
  <1>. QED  BY <1>4, <1>5

\* What the arguments and `...` bring are no keys for storage.
LEMMA FromTheCall ==
    ASSUME NEW uri, NEW warehouse, NEW extra \in Extras
    PROVE  /\ "s3.access-key-id" \notin DOMAIN Named(uri, warehouse)
           /\ "s3.access-key-id" \notin DOMAIN extra
  <1>. DEFINE given == [uri |-> uri, warehouse |-> warehouse]
              named == [p \in {q \in DOMAIN given : given[q] # "none"} |-> given[p]]
  <1>1. Named(uri, warehouse) = named  BY DEF Named
  <1>2. DOMAIN given = {"uri", "warehouse"}  OBVIOUS
  <1>. HIDE DEF given
  <1>3. "s3.access-key-id" \notin DOMAIN named  BY <1>2
  <1>4. "s3.access-key-id" \notin DOMAIN extra  BY DEF Extras
  <1>. QED  BY <1>1, <1>3, <1>4

\* All of it together: a key that was lying about goes exactly where R sees
\* object storage.
LEMMA Gathered ==
    ASSUME NEW uri, NEW warehouse, NEW extra \in Extras,
           NEW set \in SUBSET Variables, NEW object_storage \in BOOLEAN
    PROVE  LET props == Over(extra, Over(Named(uri, warehouse),
                                         properties_from_env(set, object_storage)))
           IN  /\ "s3.access-key-id" \in DOMAIN props
                     => (props["s3.access-key-id"] = "ambient" => object_storage)
               /\ object_storage /\ "AWS_ACCESS_KEY_ID" \in set
                     => "s3.access-key-id" \in DOMAIN props
  <1>. DEFINE named == Named(uri, warehouse)
              env == properties_from_env(set, object_storage)
              known == Over(named, env)
              props == Over(extra, known)
  <1>1. /\ \A p \in DOMAIN env : env[p] = "ambient" => object_storage /\ p = "s3.access-key-id"
        /\ object_storage /\ "AWS_ACCESS_KEY_ID" \in set => "s3.access-key-id" \in DOMAIN env
    BY FromTheEnvironment
  <1>2. "s3.access-key-id" \notin DOMAIN named /\ "s3.access-key-id" \notin DOMAIN extra
    BY FromTheCall
  <1>3. /\ DOMAIN known = DOMAIN named \cup DOMAIN env
        /\ \A p \in DOMAIN env \ DOMAIN named : known[p] = env[p]
    BY OverIs
  <1>4. /\ DOMAIN props = DOMAIN extra \cup DOMAIN known
        /\ \A p \in DOMAIN known \ DOMAIN extra : props[p] = known[p]
    BY OverIs
  <1>. HIDE DEF named, env, known, props
  <1>5. ASSUME "s3.access-key-id" \in DOMAIN props, props["s3.access-key-id"] = "ambient"
        PROVE  object_storage
    BY <1>5, <1>1, <1>2, <1>3, <1>4
  <1>6. object_storage /\ "AWS_ACCESS_KEY_ID" \in set => "s3.access-key-id" \in DOMAIN props
    BY <1>1, <1>3, <1>4
  <1>. QED  BY <1>5, <1>6 DEF props, known, named, env

\* Which storage each location is taken to name.
LEMMA Resolved ==
    ASSUME NEW storage, NEW warehouse \in Warehouses
    PROVE  /\ storage # "auto" => resolve_storage(storage, warehouse) = storage
           /\ storage = "auto" =>
                 /\ warehouse \in {"S3://bucket", "s3a://bucket"}
                       => resolve_storage(storage, warehouse) = "s3"
                 /\ warehouse = "/data" => resolve_storage(storage, warehouse) = "local"
                 /\ warehouse \in {"none", "analytics", "s3://"}
                       => resolve_storage(storage, warehouse) = "default"
  <1>1. /\ has_scheme(warehouse, "s3") <=> warehouse = "S3://bucket"
        /\ has_scheme(warehouse, "s3a") <=> warehouse = "s3a://bucket"
    BY DEF has_scheme, Spellings
  <1>. DEFINE on_s3 == has_scheme(warehouse, "s3") \/ has_scheme(warehouse, "s3a")
              here == looks_like_local_path(warehouse)
  <1>2. ~(on_s3 /\ here)  BY <1>1 DEF looks_like_local_path
  <1>3. ASSUME storage # "auto"
        PROVE  resolve_storage(storage, warehouse) = storage
    BY Zenon, <1>3 DEF resolve_storage
  <1>4. ASSUME storage = "auto", on_s3
        PROVE  resolve_storage(storage, warehouse) = "s3"
    BY Zenon, <1>2, <1>4 DEF resolve_storage
  <1>5. ASSUME storage = "auto", here
        PROVE  resolve_storage(storage, warehouse) = "local"
    BY Zenon, <1>2, <1>5 DEF resolve_storage
  <1>6. ASSUME storage = "auto", ~on_s3, ~here
        PROVE  resolve_storage(storage, warehouse) = "default"
    BY Zenon, <1>6 DEF resolve_storage
  <1>7. /\ warehouse \in {"S3://bucket", "s3a://bucket"} => on_s3
        /\ warehouse = "/data" => here
        /\ warehouse \in {"none", "analytics", "s3://"} => ~on_s3 /\ ~here
    BY <1>1 DEF looks_like_local_path
  <1>. QED  BY <1>3, <1>4, <1>5, <1>6, <1>7

\* R and Rust agree on what is on S3, but for a bucket without a name and for
\* Glue where something else was chosen.
LEMMA StorageAgrees ==
    ASSUME NEW type \in DOMAIN Default, NEW storage \in {"auto", "local", "s3"},
           NEW warehouse \in Warehouses
    PROVE  LET store == rs_catalog_connect(type, storage, warehouse)
               keys == uses_object_storage(type, storage, warehouse)
           IN  /\ keys => \/ store = "s3" \/ warehouse = "s3://"
                          \/ type = "glue" /\ storage = "auto"
               /\ store = "s3" => keys
  <1>. DEFINE backend == resolve_storage(storage, warehouse)
              store == rs_catalog_connect(type, storage, warehouse)
              keys == uses_object_storage(type, storage, warehouse)
  <1>1. store = IF backend = "default" THEN Default[type] ELSE backend
    BY DEF rs_catalog_connect
  <1>2. Default[type] = "s3" <=> type = "glue"
    BY DEF Default
  <1>3. keys <=> \/ storage = "s3"
                 \/ /\ storage = "auto"
                    /\ \/ type = "glue"
                       \/ warehouse \in {"s3a://bucket", "S3://bucket", "s3://"}
    BY DEF uses_object_storage
  <1>4. CASE storage # "auto"
    <2>1. backend = storage  BY <1>4, Resolved
    <2>. QED  BY <2>1, <1>1, <1>3, <1>4
  <1>5. CASE storage = "auto"
    <2>1. /\ warehouse \in {"S3://bucket", "s3a://bucket"} => backend = "s3"
          /\ warehouse = "/data" => backend = "local"
          /\ warehouse \in {"none", "analytics", "s3://"} => backend = "default"
      BY <1>5, Resolved
    <2>. HIDE DEF backend, store, keys
    <2>2. CASE warehouse \in {"S3://bucket", "s3a://bucket"}
      BY <2>1, <2>2, <1>1, <1>3, <1>5 DEF store, keys
    <2>3. CASE warehouse = "/data"
      BY <2>1, <2>3, <1>1, <1>3, <1>5 DEF store, keys
    <2>4. CASE warehouse \in {"none", "analytics", "s3://"}
      BY <2>1, <2>4, <1>1, <1>2, <1>3, <1>5 DEF store, keys
    <2>. QED  BY <2>2, <2>3, <2>4 DEF Warehouses
  <1>. QED  BY <1>4, <1>5

\* A credential and an endpoint, of which one is sent the other: both are among
\* the properties, and the credential is one that R's check knows.
LEMMA SentIs ==
    ASSUME NEW c, NEW sent \in Sent(c)
    PROVE  /\ sent[1] \in secret_props \cap DOMAIN c.props /\ sent[2] \in DOMAIN c.props
           /\ \/ sent[2] \in {"uri", "oauth2-server-uri"}
              \/ sent = <<"s3.access-key-id", "s3.endpoint">>
  BY DEF Sent, secret_props

\* No connection that Connect makes breaks either rule.
LEMMA ConnectKeepsRules == Connect => OnlyS3KeysInClear' /\ AmbientKeysFollowStorage'
  <1>. SUFFICES ASSUME Connect
                PROVE  OnlyS3KeysInClear' /\ AmbientKeysFollowStorage'
    OBVIOUS
  <1>1. PICK type \in DOMAIN Default, storage \in {"auto", "local", "s3"},
             uri \in {"none", "https", "http"}, warehouse \in Warehouses, extra \in Extras,
             set \in SUBSET Variables :
          icebergr_catalog(type, storage, uri, warehouse, set, extra)
    BY DEF Connect, Variables
  <1>. DEFINE dir == IF type = "memory" THEN "/data" ELSE warehouse
              keys == uses_object_storage(type, storage, dir)
              known == Over(Named(uri, dir), properties_from_env(set, keys))
              props == Over(extra, known)
              store == rs_catalog_connect(type, storage, dir)
  <1>2. PICK insecure \in BOOLEAN :
          /\ check_credential_transport(transported(extra, known), insecure)
          /\ conn' = [type |-> type, storage |-> storage, warehouse |-> dir, set |-> set,
                      props |-> props, insecure |-> insecure, store |-> store]
    BY <1>1 DEF icebergr_catalog
  <1>3. dir \in Warehouses  BY DEF Warehouses
  <1>4. keys \in BOOLEAN  BY DEF uses_object_storage
  <1>5. /\ "s3.access-key-id" \in DOMAIN props => (props["s3.access-key-id"] = "ambient" => keys)
        /\ keys /\ "AWS_ACCESS_KEY_ID" \in set => "s3.access-key-id" \in DOMAIN props
    <2>. HIDE DEF dir, keys
    <2>. QED  BY <1>3, <1>4, Gathered
  <1>6. /\ keys => store = "s3" \/ dir = "s3://" \/ (type = "glue" /\ storage = "auto")
        /\ store = "s3" => keys
    <2>. HIDE DEF dir
    <2>. QED  BY <1>3, StorageAgrees
  <1>7. \/ secret_props \cap DOMAIN props = {}
        \/ insecure
        \/ ~sends_in_cleartext(props)
    BY <1>2 DEF check_credential_transport, transported
  <1>. HIDE DEF dir, keys, known, props, store
  <1>8. /\ conn'.type = type /\ conn'.storage = storage /\ conn'.warehouse = dir
        /\ conn'.set = set /\ conn'.props = props /\ conn'.insecure = insecure
        /\ conn'.store = store
    BY <1>2
  <1>9. OnlyS3KeysInClear'
    <2>. SUFFICES ASSUME ~insecure, NEW sent \in Sent(conn'), props[sent[2]] = "http"
                  PROVE  sent = <<"s3.access-key-id", "s3.endpoint">>
      BY <1>8 DEF OnlyS3KeysInClear
    <2>1. ~sends_in_cleartext(props)
      BY <1>7, <1>8, SentIs
    <2>. QED  BY <2>1, <1>8, SentIs DEF sends_in_cleartext
  <1>10. AmbientKeysFollowStorage'
    BY <1>5, <1>6, <1>8 DEF AmbientKeysFollowStorage
  <1>. QED  BY <1>9, <1>10

\* What no step but Connect makes is a connection.
LEMMA OnlyConnectConnects ==
    [SNext]_svars => Connect \/ conn' = NoConn \/ conn' = conn
  <1>. SUFFICES ASSUME [SNext]_svars, ~Connect
                PROVE  conn' = NoConn \/ conn' = conn
    OBVIOUS
  <1>1. CASE Loaded \/ Restart  BY <1>1 DEF Loaded, Restart
  <1>2. ASSUME NEW error \in Echoes, LoadFails(error)
        PROVE  conn' = NoConn
    BY <1>2 DEF LoadFails
  <1>3. CASE Lists \/ ListFails \/ icebergr_table \/ icebergr_scan
    BY <1>3 DEF Lists, ListFails, icebergr_table, icebergr_scan
  <1>4. ASSUME NEW n \in Limits \cup {NoLimit}, NEW k \in 0..MaxBatches, NEW e \in Cuts,
               icebergr_collect(n, k, e)
        PROVE  conn' = conn
    BY <1>4 DEF icebergr_collect
  <1>5. CASE UNCHANGED svars  BY <1>5 DEF svars
  <1>6. ASSUME UNCHANGED conn
        PROVE  conn' = conn
    BY <1>6
  <1>. QED  BY <1>1, <1>2, <1>3, <1>4, <1>5, <1>6 DEF SNext, Goes, Breaks, StreamFails

\* Both rules, of every connection in every session.
THEOREM SessionConnectsByTheRules == SSpec => [](OnlyS3KeysInClear /\ AmbientKeysFollowStorage)
  <1>. DEFINE Rules == OnlyS3KeysInClear /\ AmbientKeysFollowStorage
  <1>1. SInit => Rules
    BY DEF SInit, OnlyS3KeysInClear, AmbientKeysFollowStorage
  <1>2. Rules /\ [SNext]_svars => Rules'
    <2>1. ASSUME conn' = NoConn
          PROVE  Rules'
      BY <2>1 DEF OnlyS3KeysInClear, AmbientKeysFollowStorage, NoConn
    <2>2. ASSUME Rules, conn' = conn
          PROVE  Rules'
      BY <2>2 DEF OnlyS3KeysInClear, AmbientKeysFollowStorage
    <2>. QED  BY <2>1, <2>2, ConnectKeepsRules, OnlyConnectConnects
  <1>. QED  BY <1>1, <1>2, PTL DEF SSpec

\* A credential goes in clear text to no endpoint but S3's, whichever of the
\* three places either came from.
THEOREM CredentialsStayOutOfSight == SSpec => []OnlyS3KeysInClear
  BY SessionConnectsByTheRules, PTL

\* The keys of the machine go where its storage is S3, and nowhere else, as R
\* and Rust read a location the same way.
THEOREM AmbientKeysStayWithS3 == SSpec => []AmbientKeysFollowStorage
  BY SessionConnectsByTheRules, PTL

-----------------------------------------------------------------------------
(* What R says of errors.                                                   *)

\* What R was told went through scrub, or came from a stream or a panic, or is
\* an abort's, which quotes nobody.
TellsRight ==
    \/ told' = NoError
    \/ told' = told
    \/ \E error \in Texts : ctx(error)
    \/ \E error : Verbatim("stream", error) \/ Verbatim("panic", error)
    \/ Verbatim("abort", Same(<<"word">>))

\* The texts of scans that break off are texts of the model.
LEMMA EchoesAreTexts == Echoes \subseteq Texts
  <1>1. Echoes \subseteq Pieces
    <2>. DEFINE echo == Piece(<<"key", "=", "secret">>, <<"key", "=", Redacted>>)
    <2>1. echo \in Pieces  BY Zenon DEF Pieces
    <2>. QED  BY <2>1, Zenon DEF Echoes
  <1>2. Pieces \subseteq Texts  BY Zenon DEF Texts
  <1>. QED  BY <1>1, <1>2

\* Each way in which a call breaks off tells one of them.
LEMMA SaysRight ==
    ASSUME NEW what, NEW error \in Echoes, Says(what, error)
    PROVE  TellsRight
  <1>1. error \in Texts  BY EchoesAreTexts
  <1>. QED  BY <1>1 DEF Says, TellsRight

\* No step tells R of an error in any other way.
LEMMA ErrorsComeByTheseWays == [SNext]_svars => TellsRight
  <1>. SUFFICES ASSUME [SNext]_svars PROVE TellsRight
    OBVIOUS
  <1>1. CASE Connect \/ Loaded \/ Restart
    BY <1>1 DEF Connect, Loaded, Restart, TellsRight
  <1>2. ASSUME NEW error \in Echoes, LoadFails(error)
        PROVE  TellsRight
    <2>1. error \in Texts  BY EchoesAreTexts
    <2>. QED  BY <1>2, <2>1 DEF LoadFails, config_err, TellsRight
  <1>3. CASE Lists \/ icebergr_table \/ icebergr_scan
    BY <1>3 DEF Lists, icebergr_table, icebergr_scan, TellsRight
  <1>4. CASE ListFails  BY <1>4 DEF ListFails, TellsRight
  <1>5. ASSUME NEW n \in Limits \cup {NoLimit}, NEW k \in 0..MaxBatches, NEW e \in Cuts,
               icebergr_collect(n, k, e)
        PROVE  TellsRight
    BY <1>5 DEF icebergr_collect, TellsRight
  <1>6. ASSUME NEW error \in Echoes, StreamFails(error)
        PROVE  TellsRight
    BY <1>6 DEF StreamFails, TellsRight
  <1>7. CASE UNCHANGED svars  BY <1>7 DEF svars, TellsRight
  <1>8. ASSUME UNCHANGED told
        PROVE  TellsRight
    BY <1>8 DEF TellsRight
  <1>9. ASSUME NEW what, NEW error \in Echoes,
                \/ Breaks(ScanFails(what), what, error) \/ Breaks(NewFails(what), what, error)
                \/ Breaks(PullPanics(what), what, error)
         PROVE  TellsRight
    BY <1>9, SaysRight DEF Breaks
  <1>. QED
    BY <1>1, <1>2, <1>3, <1>4, <1>5, <1>6, <1>7, <1>8, <1>9 DEF SNext, Goes

\* No error that R is told of shows a secret or lacks another word, but those
\* that a stream or a panic brings: what ctx and config_err let through is what
\* R may see, and nothing else goes around them.
THEOREM ErrorsAreShownRight == SSpec => []OnlyStreamsAndPanicsLeak
  <1>1. SInit => OnlyStreamsAndPanicsLeak
    BY DEF SInit, NoError, OnlyStreamsAndPanicsLeak
  <1>2. OnlyStreamsAndPanicsLeak /\ [SNext]_svars => OnlyStreamsAndPanicsLeak'
    <2>1. ASSUME told' = NoError
          PROVE  OnlyStreamsAndPanicsLeak'
      BY <2>1 DEF OnlyStreamsAndPanicsLeak, NoError
    <2>2. ASSUME OnlyStreamsAndPanicsLeak, told' = told
          PROVE  OnlyStreamsAndPanicsLeak'
      BY <2>2 DEF OnlyStreamsAndPanicsLeak
    <2>3. ASSUME NEW error \in Texts, ctx(error)
          PROVE  OnlyStreamsAndPanicsLeak'
      <3>1. scrub(error.text) = error.shown  BY TextsShown
      <3>. QED  BY <2>3, <3>1 DEF ctx, Told, OnlyStreamsAndPanicsLeak
    <2>4. ASSUME NEW error, Verbatim("stream", error) \/ Verbatim("panic", error)
          PROVE  OnlyStreamsAndPanicsLeak'
      BY <2>4 DEF Verbatim, Told, OnlyStreamsAndPanicsLeak
    <2>5. ASSUME Verbatim("abort", Same(<<"word">>))
          PROVE  OnlyStreamsAndPanicsLeak'
      BY <2>5 DEF Verbatim, Told, Same, Piece, OnlyStreamsAndPanicsLeak
    <2>. QED  BY <2>1, <2>2, <2>3, <2>4, <2>5, ErrorsComeByTheseWays DEF TellsRight
  <1>. QED  BY <1>1, <1>2, PTL DEF SSpec
=============================================================================
