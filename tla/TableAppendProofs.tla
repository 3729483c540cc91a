--------------------------- MODULE TableAppendProofs ---------------------------
(***************************************************************************)
(* For any number of sessions, calls and other engines, any amount of data  *)
(* and any number of retries: what the runs of TableAppend check on small   *)
(* instances, and that it implements AppendLog.                             *)
(***************************************************************************)
EXTENDS TableAppend, TLAPS

\* What the catalog has of a call, by where the call is.
NetFits ==
    \A a \in Appends :
        /\ pc[a] \in {"sent", "unknown"} => net[a] \in {"sent", "applied", "conflict"}
        /\ pc[a] = "acked" => net[a] = "applied"
        /\ pc[a] = "aborted" => net[a] \in {"none", "conflict"}
        /\ pc[a] \in {"unused", "build", "write", "close", "load", "send", "refused", "noop"}
             => net[a] = "none"

\* What a call has uploaded, by where it is.
FilesFit ==
    \A a \in Appends :
        /\ pc[a] \in {"unused", "refused", "noop", "build"} => files[a] = "none"
        /\ pc[a] \in {"build", "write"} => left[a] > 0
        /\ pc[a] = "close" => left[a] = 0
        /\ pc[a] \in {"load", "send", "sent", "acked", "unknown"} =>
               files[a] = "complete" /\ left[a] = 0
        /\ Unwritable(given[a]) => pc[a] \in {"unused", "refused"}

\* The history holds each commit once, and those of the calls applied.
LogFits ==
    /\ \A i, j \in 1..Len(table.log) : table.log[i] = table.log[j] => i = j
    /\ \A a \in Appends : a \in Landed(table.log) <=> net[a] = "applied"

\* A pending snapshot is built on a branch the table went through, and each
\* refused attempt saw the branch grow.
BasesFit ==
    \A a \in Appends :
        /\ pc[a] \in {"send", "sent"} \/ net[a] = "sent" =>
             /\ IsHistory(base[a], table.log)
             /\ Len(base[a]) >= Len(given[a].log) + tries[a]
        /\ net[a] = "conflict" => Len(table.log) > Len(given[a].log) + tries[a]
        /\ Len(table.log) >= Len(given[a].log) + tries[a]
        /\ pc[a] = "unused" => tries[a] = 0

ResultsFit ==
    \A a \in Appends :
        net[a] = "applied" =>
            /\ IsHistory(given[a].log, result[a].log)
            /\ Len(given[a].log) < Len(result[a].log)
            /\ result[a].log[Len(result[a].log)] = a

SessionsFit ==
    \A s \in Sessions : busy[s] # Nobody =>
        /\ pc[busy[s]] \in Running
        /\ \A t \in Sessions : busy[t] = busy[s] => t = s
        /\ handle[s] = given[busy[s]]

WarnedFits == warned = {a \in Appends : pc[a] = "noop"}

IInv ==
    /\ TypeOK /\ NetFits /\ FilesFit /\ LogFits /\ HandlesAreHistory
    /\ BasesFit /\ ResultsFit /\ SessionsFit /\ WarnedFits

-----------------------------------------------------------------------------
(* Branches.                                                                *)

LEMMA HistoryIsOrder ==
    ASSUME NEW k \in Seq(Ids), NEW l \in Seq(Ids), NEW m \in Seq(Ids)
    PROVE  /\ IsHistory(l, l)
           /\ IsHistory(k, l) /\ IsHistory(l, m) => IsHistory(k, m)
           /\ IsHistory(k, l) => Len(k) <= Len(l)
           /\ IsHistory(k, l) /\ k # l => Len(k) < Len(l)
           /\ IsHistory(<<>>, l)
  BY DEF IsHistory

LEMMA BranchGrows ==
    ASSUME NEW l \in Seq(Ids), NEW x \in Ids
    PROVE  /\ Append(l, x) \in Seq(Ids)
           /\ Len(Append(l, x)) = Len(l) + 1
           /\ Append(l, x)[Len(l) + 1] = x
           /\ IsHistory(l, Append(l, x))
           /\ \A k \in Seq(Ids) : IsHistory(k, l) => IsHistory(k, Append(l, x))
           /\ Landed(Append(l, x)) = Landed(l) \cup {x}
           /\ (\A i, j \in 1..Len(l) : l[i] = l[j] => i = j) /\ x \notin Landed(l) =>
                \A i, j \in 1..Len(Append(l, x)) :
                    Append(l, x)[i] = Append(l, x)[j] => i = j
  <1> DEFINE m == Append(l, x)
  <1>1. m \in Seq(Ids) /\ Len(m) = Len(l) + 1 /\ m[Len(l) + 1] = x
    OBVIOUS
  <1>2. \A i \in 1..Len(l) : m[i] = l[i]
    OBVIOUS
  <1> HIDE DEF m
  <1>3. IsHistory(l, m) /\ \A k \in Seq(Ids) : IsHistory(k, l) => IsHistory(k, m)
    BY <1>1, <1>2 DEF IsHistory
  <1>4. Landed(m) = Landed(l) \cup {x}
    <2>1. \A y : y \in Landed(m) => y \in Landed(l) \cup {x}
      BY <1>1, <1>2 DEF Landed
    <2>2. \A y : y \in Landed(l) \cup {x} => y \in Landed(m)
      BY <1>1, <1>2 DEF Landed
    <2> QED BY <2>1, <2>2
  <1>5. ASSUME \A i, j \in 1..Len(l) : l[i] = l[j] => i = j, x \notin Landed(l),
               NEW i \in 1..Len(m), NEW j \in 1..Len(m), m[i] = m[j]
        PROVE  i = j
    <2>1. \A n \in 1..Len(l) : m[n] # x
      BY <1>2, <1>5 DEF Landed
    <2> QED BY <1>1, <1>2, <1>5, <2>1
  <1> QED BY <1>1, <1>3, <1>4, <1>5 DEF m

LEMMA NewTableType == \A odd \in BOOLEAN : NewTable(odd) \in Metadata
  BY DEF NewTable, Metadata

LEMMA MetadataLog == \A m \in Metadata : m.log \in Seq(Ids) /\ m.parted \in BOOLEAN /\ m.odd \in BOOLEAN
  BY DEF Metadata

-----------------------------------------------------------------------------
(* Each part of the invariant is kept by each action.                       *)

LEMMA InitIInv == Init => IInv
  <1> SUFFICES ASSUME NEW odd \in BOOLEAN,
                      table = NewTable(odd),
                      handle = [s \in Sessions |-> NewTable(odd)],
                      busy = [s \in Sessions |-> Nobody],
                      pc = [a \in Appends |-> "unused"],
                      given = [a \in Appends |-> NewTable(odd)],
                      left = [a \in Appends |-> 0],
                      files = [a \in Appends |-> "none"],
                      tries = [a \in Appends |-> 0],
                      base = [a \in Appends |-> <<>>],
                      net = [a \in Appends |-> "none"],
                      result = [a \in Appends |-> NewTable(odd)],
                      warned = {}
               PROVE  IInv
    BY DEF Init
  <1>1. TypeOK
    BY NewTableType, ConstantsAssumption DEF TypeOK, Running, Ended
  <1>2. NetFits /\ FilesFit /\ SessionsFit /\ WarnedFits /\ ResultsFit
    BY DEF NetFits, FilesFit, SessionsFit, WarnedFits, ResultsFit
  <1>3. table.log = <<>> /\ Len(table.log) = 0 /\ \A a \in Appends : given[a].log = <<>>
    BY DEF NewTable
  <1>4. LogFits
    BY <1>3 DEF LogFits, Landed
  <1>5. HandlesAreHistory
    BY <1>3 DEF HandlesAreHistory, IsHistory, NewTable
  <1>6. BasesFit
    BY <1>3 DEF BasesFit, IsHistory
  <1> QED BY <1>1, <1>2, <1>4, <1>5, <1>6 DEF IInv

\* A call that fails, is given up on or dies with its session stops the same way.
Abandon(a) ==
    /\ pc[a] \in Running
    /\ Goes(a, Abandoned(a))
    /\ UNCHANGED <<table, callVars, net, result, warned>>

LEMMA Abandons ==
    ASSUME TypeOK, SessionsFit,
           (\E a \in Appends : Fail(a) \/ GiveUp(a)) \/ (\E s \in Sessions : Crash(s))
    PROVE  \E a \in Appends : Abandon(a)
  <1>1. ASSUME NEW a \in Appends, Fail(a) \/ GiveUp(a)
        PROVE  Abandon(a)
    BY <1>1 DEF Fail, GiveUp, Abandon
  <1>2. ASSUME NEW s \in Sessions, Crash(s)
        PROVE  busy[s] \in Appends /\ Abandon(busy[s])
    BY <1>2 DEF Crash, Abandon, TypeOK, SessionsFit, callVars
  <1> QED BY <1>1, <1>2

LEMMA TypeStep ==
    ASSUME TypeOK, SessionsFit, Next
    PROVE  TypeOK'
  <1> USE DEF TypeOK, callVars, Goes, At, EndCall
  <1>1. ASSUME NEW s \in Sessions, NEW a \in Appends, NEW d \in Data,
               Refuse(s, a, d) \/ AppendNothing(s, a, d) \/ StartAppend(s, a, d)
        PROVE  TypeOK'
    <2>1. d.slices \in 0..MaxSlices
      BY DEF Data
    <2>2. CASE Refuse(s, a, d)
      BY <2>1, <2>2 DEF Refuse, Begin, Running, Ended
    <2>3. CASE AppendNothing(s, a, d)
      BY <2>1, <2>3 DEF AppendNothing, Begin, Running, Ended
    <2>4. CASE StartAppend(s, a, d)
      BY <2>1, <2>4 DEF StartAppend, Begin, Running, Ended
    <2> QED BY <1>1, <2>2, <2>3, <2>4
  <1>2. ASSUME NEW a \in Appends,
               BuildWriter(a) \/ WriteSlice(a) \/ CloseWriter(a) \/ CommitInvalid(a)
                 \/ CommitSend(a) \/ CommitRetry(a) \/ CommitConflict(a) \/ CatalogRefuse(a)
        PROVE  TypeOK'
    <2>1. CASE BuildWriter(a)
      BY <2>1, ConstantsAssumption DEF BuildWriter, Running, Ended
    <2>2. CASE WriteSlice(a)
      BY <2>2, ConstantsAssumption DEF WriteSlice, Running, Ended
    <2>3. CASE CloseWriter(a)
      BY <2>3, ConstantsAssumption DEF CloseWriter, Running, Ended
    <2>4. CASE CommitInvalid(a)
      BY <2>4, ConstantsAssumption DEF CommitInvalid, Running, Ended
    <2>5. CASE CommitSend(a)
      BY <2>5, ConstantsAssumption DEF CommitSend, Running, Ended
    <2>6. CASE CommitRetry(a)
      BY <2>6, ConstantsAssumption DEF CommitRetry, Running, Ended
    <2>7. CASE CommitConflict(a)
      BY <2>7, ConstantsAssumption DEF CommitConflict, Running, Ended
    <2>8. CASE CatalogRefuse(a)
      BY <2>8, ConstantsAssumption DEF CatalogRefuse, Running, Ended
    <2> QED BY <1>2, <2>1, <2>2, <2>3, <2>4, <2>5, <2>6, <2>7, <2>8
  <1>3. ASSUME NEW a \in Appends, CommitLoad(a)
        PROVE  TypeOK'
    BY <1>3, MetadataLog DEF CommitLoad, Running, Ended
  <1>4. ASSUME NEW a \in Appends, Fail(a) \/ GiveUp(a)
        PROVE  TypeOK'
    BY <1>4 DEF Fail, GiveUp, Abandoned, Running, Ended
  <1>5. ASSUME NEW a \in Appends, CatalogApply(a)
        PROVE  TypeOK'
    <2>1. base[a] \in Seq(Ids) /\ a \in Ids
      BY DEF Ids
    <2>2. table' \in Metadata
      BY <1>5, <2>1, BranchGrows DEF CatalogApply, Metadata
    <2> QED BY <1>5, <2>2 DEF CatalogApply
  <1>6. ASSUME NEW s \in Sessions, Open(s) \/ Crash(s)
        PROVE  TypeOK'
    <2>1. CASE Open(s)
      BY <2>1 DEF Open
    <2>2. CASE Crash(s)
      <3>1. busy[s] \in Appends
        BY <2>2 DEF Crash
      <3>2. Abandoned(busy[s]) \in Ended
        BY DEF Abandoned, Ended
      <3>3. pc' \in [Appends -> {"unused"} \cup Running \cup Ended]
        BY <2>2, <3>1, <3>2 DEF Crash
      <3> QED BY <2>2, <3>3 DEF Crash
    <2> QED BY <1>6, <2>1, <2>2
  <1>7. ASSUME NEW s \in Sessions, NEW a \in Appends, Return(s, a)
        PROVE  TypeOK'
    BY <1>7 DEF Return, Running, Ended
  <1>8. ASSUME NEW e \in Others, EngineAppend(e)
        PROVE  TypeOK'
    <2>1. table.log \in Seq(Ids) /\ e \in Ids
      BY MetadataLog DEF Ids
    <2>2. table' \in Metadata
      BY <1>8, <2>1, BranchGrows DEF EngineAppend, Metadata
    <2> QED BY <1>8, <2>2 DEF EngineAppend
  <1>9. ASSUME EngineRepartition
        PROVE  TypeOK'
    BY <1>9 DEF EngineRepartition, Metadata
  <1> QED BY <1>1, <1>2, <1>3, <1>4, <1>5, <1>6, <1>7, <1>8, <1>9 DEF Next

\* What the catalog has of a call moves with the call.
LEMMA NetFitsStep ==
    ASSUME IInv, Next
    PROVE  NetFits'
  <1> USE DEF IInv, TypeOK, callVars, Goes, At, EndCall, NetFits
  <1>1. ASSUME NEW s \in Sessions, NEW a \in Appends, NEW d \in Data,
              Refuse(s, a, d) \/ AppendNothing(s, a, d) \/ StartAppend(s, a, d)
        PROVE  NetFits'
    BY <1>1 DEF Running, Refuse, Begin, AppendNothing, StartAppend
  <1>2. ASSUME NEW a \in Appends, BuildWriter(a) \/ WriteSlice(a) \/ CloseWriter(a)
        PROVE  NetFits'
    BY <1>2 DEF Running, BuildWriter, WriteSlice, CloseWriter
  <1>3. ASSUME NEW a \in Appends, CommitLoad(a) \/ CommitInvalid(a)
        PROVE  NetFits'
    BY <1>3 DEF Running, CommitLoad, CommitInvalid
  <1>4. ASSUME NEW a \in Appends, CommitSend(a) \/ CommitRetry(a) \/ CommitConflict(a)
        PROVE  NetFits'
    BY <1>4 DEF Running, CommitSend, CommitRetry, CommitConflict
  <1>5. ASSUME NEW a \in Appends, Abandon(a)
        PROVE  NetFits'
    BY <1>5 DEF Running, Abandon, Abandoned
  <1>6. ASSUME NEW a \in Appends, CatalogApply(a) \/ CatalogRefuse(a)
        PROVE  NetFits'
    BY <1>6 DEF Running, CatalogApply, CatalogRefuse
  <1>7. ASSUME NEW s \in Sessions, NEW a \in Appends, Return(s, a)
        PROVE  NetFits'
    BY <1>7 DEF Running, Return
  <1>8. CASE UNCHANGED <<pc, net>>
    BY <1>8 DEF NetFits
  <1> QED BY <1>1, <1>2, <1>3, <1>4, <1>5, <1>6, <1>7, <1>8, Abandons DEF Next, Open,
          EngineAppend, EngineRepartition

\* Uploads move with the call.
LEMMA FilesFitStep ==
    ASSUME IInv, Next
    PROVE  FilesFit'
  <1> USE DEF IInv, TypeOK, callVars, Goes, At, EndCall, FilesFit
  <1>1. ASSUME NEW s \in Sessions, NEW a \in Appends, NEW d \in Data, Refuse(s, a, d)
        PROVE  FilesFit'
    BY <1>1 DEF Running, Refuse, Begin
  <1>2. ASSUME NEW s \in Sessions, NEW a \in Appends, NEW d \in Data, AppendNothing(s, a, d)
        PROVE  FilesFit'
    BY <1>2 DEF Running, AppendNothing, Begin
  <1>3. ASSUME NEW s \in Sessions, NEW a \in Appends, NEW d \in Data, StartAppend(s, a, d)
        PROVE  FilesFit'
    BY <1>3 DEF Running, StartAppend, Begin
  <1>4. ASSUME NEW a \in Appends, BuildWriter(a)
        PROVE  FilesFit'
    BY <1>4 DEF Running, BuildWriter
  <1>5. ASSUME NEW a \in Appends, WriteSlice(a)
        PROVE  FilesFit'
    BY <1>5 DEF Running, WriteSlice
  <1>6. ASSUME NEW a \in Appends, CloseWriter(a)
        PROVE  FilesFit'
    BY <1>6 DEF Running, CloseWriter
  <1>7. ASSUME NEW a \in Appends, CommitLoad(a) \/ CommitInvalid(a)
        PROVE  FilesFit'
    BY <1>7 DEF Running, CommitLoad, CommitInvalid
  <1>8. ASSUME NEW a \in Appends, CommitSend(a) \/ CommitRetry(a) \/ CommitConflict(a)
        PROVE  FilesFit'
    BY <1>8 DEF Running, CommitSend, CommitRetry, CommitConflict
  <1>9. ASSUME NEW a \in Appends, Abandon(a)
        PROVE  FilesFit'
    BY <1>9 DEF Running, Abandon, Abandoned
  <1>10. ASSUME NEW s \in Sessions, NEW a \in Appends, Return(s, a)
        PROVE  FilesFit'
    BY <1>10 DEF Running, Return
  <1>11. CASE UNCHANGED <<pc, files, left, given>>
    BY <1>11 DEF FilesFit, Unwritable
  <1> QED BY <1>1, <1>2, <1>3, <1>4, <1>5, <1>6, <1>7, <1>8, <1>9, <1>10, <1>11, Abandons DEF
          Next, Open, EngineAppend, EngineRepartition, CatalogApply, CatalogRefuse

\* A session is busy with a call that runs, its own, on the handle it holds.
LEMMA SessionsFitStep ==
    ASSUME IInv, Next
    PROVE  SessionsFit'
  <1> USE DEF IInv, TypeOK, callVars, Goes, At, EndCall, SessionsFit
  <1>1. ASSUME NEW s \in Sessions, NEW a \in Appends, NEW d \in Data, Refuse(s, a, d)
        PROVE  SessionsFit'
    BY <1>1, ConstantsAssumption DEF Running, Refuse, Begin
  <1>2. ASSUME NEW s \in Sessions, NEW a \in Appends, NEW d \in Data, AppendNothing(s, a, d)
        PROVE  SessionsFit'
    BY <1>2, ConstantsAssumption DEF Running, AppendNothing, Begin
  <1>3. ASSUME NEW s \in Sessions, NEW a \in Appends, NEW d \in Data, StartAppend(s, a, d)
        PROVE  SessionsFit'
    <2>1. /\ busy' = [busy EXCEPT ![s] = a] /\ pc' = [pc EXCEPT ![a] = "build"]
          /\ given' = [given EXCEPT ![a] = handle[s]] /\ handle' = handle
          /\ pc[a] = "unused" /\ busy[s] = Nobody /\ a # Nobody
      BY <1>3, ConstantsAssumption DEF StartAppend, Begin
    <2>2. \A t \in Sessions : busy[t] # Nobody => busy[t] # a /\ busy[t] \in Appends
      <3> SUFFICES ASSUME NEW t \in Sessions, busy[t] # Nobody
                   PROVE  busy[t] # a /\ busy[t] \in Appends
        OBVIOUS
      <3>1. busy[t] \in Appends /\ pc[busy[t]] \in Running
        OBVIOUS
      <3>2. "unused" \notin Running
        BY DEF Running
      <3> QED BY <2>1, <3>1, <3>2
    <2> SUFFICES ASSUME NEW t \in Sessions, busy'[t] # Nobody
                 PROVE  /\ pc'[busy'[t]] \in Running
                        /\ \A u \in Sessions : busy'[u] = busy'[t] => u = t
                        /\ handle'[t] = given'[busy'[t]]
      OBVIOUS
    <2>3. CASE t = s
      BY <2>1, <2>2, <2>3 DEF Running
    <2>4. CASE t # s
      <3>1. busy'[t] = busy[t] /\ busy[t] \in Appends /\ busy[t] # a
        BY <2>1, <2>2, <2>4
      <3> QED BY <2>1, <2>2, <2>4, <3>1 DEF Running
    <2> QED BY <2>3, <2>4
  <1>4. ASSUME NEW a \in Appends, BuildWriter(a)
        PROVE  SessionsFit'
    BY <1>4, ConstantsAssumption DEF Running, BuildWriter
  <1>5. ASSUME NEW a \in Appends, WriteSlice(a)
        PROVE  SessionsFit'
    BY <1>5, ConstantsAssumption DEF Running, WriteSlice
  <1>6. ASSUME NEW a \in Appends, CloseWriter(a)
        PROVE  SessionsFit'
    BY <1>6, ConstantsAssumption DEF Running, CloseWriter
  <1>7. ASSUME NEW a \in Appends, CommitLoad(a)
        PROVE  SessionsFit'
    BY <1>7, ConstantsAssumption DEF Running, CommitLoad
  <1>8. ASSUME NEW a \in Appends, CommitInvalid(a)
        PROVE  SessionsFit'
    BY <1>8, ConstantsAssumption DEF Running, CommitInvalid
  <1>9. ASSUME NEW a \in Appends, CommitSend(a)
        PROVE  SessionsFit'
    BY <1>9, ConstantsAssumption DEF Running, CommitSend
  <1>10. ASSUME NEW a \in Appends, CommitRetry(a)
        PROVE  SessionsFit'
    BY <1>10, ConstantsAssumption DEF Running, CommitRetry
  <1>11. ASSUME NEW a \in Appends, CommitConflict(a)
        PROVE  SessionsFit'
    BY <1>11, ConstantsAssumption DEF Running, CommitConflict
  <1>12. ASSUME NEW a \in Appends, Fail(a)
        PROVE  SessionsFit'
    BY <1>12, ConstantsAssumption DEF Running, Fail, Abandoned
  <1>13. ASSUME NEW a \in Appends, GiveUp(a)
        PROVE  SessionsFit'
    BY <1>13, ConstantsAssumption DEF Running, GiveUp, Abandoned
  <1>14. ASSUME NEW s \in Sessions, Open(s)
        PROVE  SessionsFit'
    BY <1>14, ConstantsAssumption DEF Running, Open
  <1>15. ASSUME NEW s \in Sessions, Crash(s)
        PROVE  SessionsFit'
    BY <1>15, ConstantsAssumption DEF Running, Crash, Abandoned
  <1>16. ASSUME NEW s \in Sessions, NEW a \in Appends, Return(s, a)
        PROVE  SessionsFit'
    BY <1>16, ConstantsAssumption DEF Running, Return
  <1>17. CASE UNCHANGED <<pc, busy, handle, given>>
    BY <1>17 DEF SessionsFit
  <1> QED BY <1>1, <1>2, <1>3, <1>4, <1>5, <1>6, <1>7, <1>8, <1>9, <1>10, <1>11, <1>12, <1>13,
          <1>14, <1>15, <1>16, <1>17 DEF Next, EngineAppend, EngineRepartition, CatalogApply,
          CatalogRefuse

\* The main branch only grows.
LEMMA LogGrows ==
    ASSUME IInv, Next
    PROVE  /\ table.log \in Seq(Ids)
           /\ table'.log \in Seq(Ids)
           /\ \A k \in Seq(Ids) : IsHistory(k, table.log) => IsHistory(k, table'.log)
           /\ Len(table.log) <= Len(table'.log)
  <1>1. table \in Metadata /\ table.log \in Seq(Ids)
    BY MetadataLog DEF IInv, TypeOK
  <1> DEFINE Grown == table'.log = table.log \/ \E x \in Ids : table'.log = Append(table.log, x)
  <1>2. ASSUME NEW a \in Appends, CatalogApply(a)
        PROVE  Grown
    BY <1>1, <1>2 DEF CatalogApply, Metadata, Ids
  <1>3. ASSUME NEW e \in Others, EngineAppend(e)
        PROVE  Grown
    BY <1>1, <1>3 DEF EngineAppend, Metadata, Ids
  <1>4. ASSUME EngineRepartition
        PROVE  Grown
    BY <1>1, <1>4 DEF EngineRepartition, Metadata
  <1>5. ASSUME UNCHANGED table
        PROVE  Grown
    BY <1>5
  <1> HIDE DEF Grown
  <1>6. Grown
    BY <1>2, <1>3, <1>4, <1>5
       DEF Next, Refuse, AppendNothing, StartAppend, Begin, BuildWriter, WriteSlice,
           CloseWriter, CommitLoad, CommitInvalid, CommitSend, CommitRetry, CommitConflict,
           Fail, GiveUp, CatalogRefuse, Open, Crash, Return
  <1>7. CASE \E x \in Ids : table'.log = Append(table.log, x)
    BY <1>1, <1>7, BranchGrows
  <1> QED BY <1>1, <1>6, <1>7 DEF Grown

\* The history holds each commit once: what lands was not there before.
LEMMA LogFitsStep ==
    ASSUME IInv, Next
    PROVE  LogFits'
  <1> USE DEF Goes, At, EndCall, callVars
  <1>1. /\ table \in Metadata /\ table.log \in Seq(Ids) /\ net \in [Appends -> {"none", "sent", "applied", "conflict"}]
        /\ LogFits /\ NetFits /\ pc \in [Appends -> {"unused"} \cup Running \cup Ended]
    BY MetadataLog DEF IInv, TypeOK
  <1>2. CASE UNCHANGED <<table, net>>
    BY <1>1, <1>2 DEF LogFits, Landed
  <1>3. ASSUME NEW a \in Appends, CommitSend(a) \/ CommitRetry(a) \/ CatalogRefuse(a)
        PROVE  LogFits'
    BY <1>1, <1>3 DEF LogFits, NetFits, Landed, CommitSend, CommitRetry, CatalogRefuse
  <1>4. ASSUME NEW a \in Appends, CatalogApply(a)
        PROVE  LogFits'
    <2>1. /\ table'.log = Append(table.log, a) /\ a \in Ids
          /\ net' = [net EXCEPT ![a] = "applied"] /\ net[a] = "sent"
      BY <1>1, <1>4 DEF CatalogApply, Metadata, Ids
    <2>2. a \notin Landed(table.log)
      BY <1>1, <2>1 DEF LogFits
    <2>3. Landed(table'.log) = Landed(table.log) \cup {a}
      BY <1>1, <2>1, BranchGrows
    <2>4. \A i, j \in 1..Len(table'.log) : table'.log[i] = table'.log[j] => i = j
      BY <1>1, <2>1, <2>2, BranchGrows DEF LogFits
    <2>5. \A b \in Appends : b \in Landed(table'.log) <=> net'[b] = "applied"
      BY <1>1, <2>1, <2>3 DEF LogFits
    <2> QED BY <2>4, <2>5 DEF LogFits
  <1>5. ASSUME NEW e \in Others, EngineAppend(e)
        PROVE  LogFits'
    <2>1. /\ table'.log = Append(table.log, e) /\ e \in Ids /\ e \notin Appends
          /\ net' = net /\ e \notin Landed(table.log)
      BY <1>1, <1>5, ConstantsAssumption DEF EngineAppend, Metadata, Ids
    <2>2. Landed(table'.log) = Landed(table.log) \cup {e}
      BY <1>1, <2>1, BranchGrows
    <2>3. \A i, j \in 1..Len(table'.log) : table'.log[i] = table'.log[j] => i = j
      BY <1>1, <2>1, BranchGrows DEF LogFits
    <2>4. \A b \in Appends : b \in Landed(table'.log) <=> net'[b] = "applied"
      BY <1>1, <2>1, <2>2 DEF LogFits
    <2> QED BY <2>3, <2>4 DEF LogFits
  <1>6. CASE EngineRepartition
    BY <1>1, <1>6 DEF EngineRepartition, LogFits, Landed, Metadata
  <1> QED BY <1>2, <1>3, <1>4, <1>5, <1>6
       DEF Next, Refuse, AppendNothing, StartAppend, Begin, BuildWriter, WriteSlice,
           CloseWriter, CommitLoad, CommitInvalid, CommitConflict, Fail, GiveUp, Open,
           Crash, Return

\* Every handle there is was the table once.
LEMMA HandlesStep ==
    ASSUME IInv, Next
    PROVE  HandlesAreHistory'
  <1> USE DEF callVars
  <1>1. /\ table \in Metadata /\ handle \in [Sessions -> Metadata]
        /\ given \in [Appends -> Metadata] /\ result \in [Appends -> Metadata]
        /\ HandlesAreHistory
    BY DEF IInv, TypeOK
  <1>2. /\ \A s \in Sessions : handle[s].log \in Seq(Ids)
        /\ \A a \in Appends : given[a].log \in Seq(Ids) /\ result[a].log \in Seq(Ids)
    BY <1>1, MetadataLog
  <1>3. /\ \A s \in Sessions : IsHistory(handle[s].log, table'.log)
        /\ \A a \in Appends :
              IsHistory(given[a].log, table'.log) /\ IsHistory(result[a].log, table'.log)
    BY <1>1, <1>2, LogGrows DEF HandlesAreHistory
  <1>4. IsHistory(table.log, table'.log) /\ IsHistory(table'.log, table'.log)
    BY LogGrows, HistoryIsOrder
  <1> HIDE DEF IsHistory
  <1>5. CASE UNCHANGED <<handle, given, result>>
    BY <1>3, <1>5 DEF HandlesAreHistory
  <1>6. ASSUME NEW s \in Sessions, NEW a \in Appends, NEW d \in Data,
               Refuse(s, a, d) \/ StartAppend(s, a, d)
        PROVE  HandlesAreHistory'
    BY <1>1, <1>3, <1>6 DEF HandlesAreHistory, Refuse, StartAppend, Begin
  <1>7. ASSUME NEW s \in Sessions, NEW a \in Appends, NEW d \in Data, AppendNothing(s, a, d)
        PROVE  HandlesAreHistory'
    BY <1>1, <1>3, <1>7 DEF HandlesAreHistory, AppendNothing, Begin
  <1>8. ASSUME NEW a \in Appends, CatalogApply(a)
        PROVE  HandlesAreHistory'
    BY <1>1, <1>3, <1>4, <1>8 DEF HandlesAreHistory, CatalogApply
  <1>9. ASSUME NEW s \in Sessions, Open(s) \/ Crash(s)
        PROVE  HandlesAreHistory'
    BY <1>1, <1>3, <1>4, <1>9 DEF HandlesAreHistory, Open, Crash
  <1>10. ASSUME NEW s \in Sessions, NEW a \in Appends, Return(s, a)
         PROVE  HandlesAreHistory'
    BY <1>1, <1>3, <1>10 DEF HandlesAreHistory, Return
  <1> QED BY <1>5, <1>6, <1>7, <1>8, <1>9, <1>10
       DEF Next, BuildWriter, WriteSlice, CloseWriter, CommitLoad, CommitInvalid, CommitSend,
           CommitRetry, CommitConflict, Fail, GiveUp, CatalogRefuse, EngineAppend,
           EngineRepartition

\* A pending snapshot is built on a branch the table went through.
LEMMA BasesStep ==
    ASSUME IInv, Next
    PROVE  BasesFit'
  <1> USE DEF callVars, Goes, At, EndCall
  <1>1. /\ table \in Metadata /\ table.log \in Seq(Ids) /\ handle \in [Sessions -> Metadata]
        /\ given \in [Appends -> Metadata] /\ base \in [Appends -> Seq(Ids)]
        /\ tries \in [Appends -> 0..MaxRetries]
        /\ net \in [Appends -> {"none", "sent", "applied", "conflict"}]
        /\ pc \in [Appends -> {"unused"} \cup Running \cup Ended]
        /\ BasesFit /\ NetFits
        /\ \A s \in Sessions : IsHistory(handle[s].log, table.log)
    BY MetadataLog DEF IInv, TypeOK, HandlesAreHistory
  <1>2. /\ \A s \in Sessions : handle[s].log \in Seq(Ids) /\ Len(handle[s].log) <= Len(table.log)
        /\ \A a \in Appends : given[a].log \in Seq(Ids) /\ tries[a] \in Nat
    BY <1>1, MetadataLog, HistoryIsOrder, ConstantsAssumption
  <1>3. /\ \A a \in Appends : IsHistory(base[a], table.log) => IsHistory(base[a], table'.log)
        /\ Len(table.log) <= Len(table'.log)
        /\ Len(table.log) \in Nat /\ Len(table'.log) \in Nat
    BY <1>1, LogGrows
  <1>4. /\ IsHistory(table.log, table.log)
        /\ \A a \in Appends : IsHistory(base[a], table.log) /\ base[a] # table.log =>
                                 Len(base[a]) < Len(table.log)
    BY <1>1, HistoryIsOrder
  <1>5. \A a \in Appends : Len(given[a].log) \in Nat /\ Len(base[a]) \in Nat
    BY <1>1, <1>2
  <1>6. CASE UNCHANGED <<given, tries, base, net, pc>>
    BY <1>1, <1>2, <1>3, <1>5, <1>6 DEF BasesFit
  <1>7. ASSUME NEW s \in Sessions, NEW a \in Appends, NEW d \in Data,
               Refuse(s, a, d) \/ AppendNothing(s, a, d) \/ StartAppend(s, a, d)
        PROVE  BasesFit'
    BY <1>1, <1>2, <1>3, <1>7 DEF BasesFit, NetFits, Refuse, AppendNothing, StartAppend, Begin
  <1>8. ASSUME NEW a \in Appends, BuildWriter(a) \/ WriteSlice(a) \/ CloseWriter(a)
        PROVE  BasesFit'
    BY <1>1, <1>2, <1>8 DEF BasesFit, BuildWriter, WriteSlice, CloseWriter
  <1>9. ASSUME NEW a \in Appends, CommitLoad(a)
        PROVE  BasesFit'
    BY <1>1, <1>2, <1>4, <1>5, <1>9 DEF BasesFit, CommitLoad
  <1>10. ASSUME NEW a \in Appends, CommitInvalid(a) \/ CommitConflict(a)
         PROVE  BasesFit'
    BY <1>1, <1>2, <1>10 DEF BasesFit, CommitInvalid, CommitConflict
  <1>11. ASSUME NEW a \in Appends, CommitSend(a)
         PROVE  BasesFit'
    BY <1>1, <1>2, <1>11 DEF BasesFit, CommitSend
  <1>12. ASSUME NEW a \in Appends, CommitRetry(a)
         PROVE  BasesFit'
    BY <1>1, <1>2, <1>5, <1>12 DEF BasesFit, CommitRetry
  <1>13. ASSUME NEW a \in Appends, Abandon(a)
         PROVE  BasesFit'
    BY <1>1, <1>2, <1>13 DEF BasesFit, NetFits, Abandon, Abandoned, Running
  <1>14. ASSUME NEW a \in Appends, CatalogApply(a)
         PROVE  BasesFit'
    BY <1>1, <1>2, <1>3, <1>5, <1>14 DEF BasesFit, CatalogApply
  <1>15. ASSUME NEW a \in Appends, CatalogRefuse(a)
         PROVE  BasesFit'
    BY <1>1, <1>2, <1>4, <1>5, <1>15 DEF BasesFit, CatalogRefuse
  <1>16. ASSUME NEW s \in Sessions, NEW a \in Appends, Return(s, a)
         PROVE  BasesFit'
    BY <1>1, <1>2, <1>16 DEF BasesFit, Return
  <1>17. (\E a \in Appends : Fail(a) \/ GiveUp(a)) \/ (\E s \in Sessions : Crash(s))
           => \E a \in Appends : Abandon(a)
    BY Abandons DEF IInv
  <1> QED BY <1>6, <1>7, <1>8, <1>9, <1>10, <1>11, <1>12, <1>13, <1>14, <1>15, <1>16, <1>17
       DEF Next, Open, EngineAppend, EngineRepartition

\* What the catalog answered extends what the call was passed.
LEMMA ResultsStep ==
    ASSUME IInv, Next
    PROVE  ResultsFit'
  <1> USE DEF callVars, Goes, At
  <1>1. /\ table \in Metadata /\ table.log \in Seq(Ids) /\ handle \in [Sessions -> Metadata]
        /\ given \in [Appends -> Metadata] /\ result \in [Appends -> Metadata]
        /\ net \in [Appends -> {"none", "sent", "applied", "conflict"}]
        /\ NetFits /\ ResultsFit
        /\ \A a \in Appends : given[a].log \in Seq(Ids) /\ IsHistory(given[a].log, table.log)
    BY MetadataLog DEF IInv, TypeOK, HandlesAreHistory
  <1>2. CASE UNCHANGED <<given, result, net>>
    BY <1>2, <1>1 DEF ResultsFit
  <1>3. ASSUME NEW s \in Sessions, NEW a \in Appends, NEW d \in Data,
               Refuse(s, a, d) \/ StartAppend(s, a, d)
        PROVE  ResultsFit'
    BY <1>1, <1>3 DEF ResultsFit, NetFits, Refuse, StartAppend, Begin
  <1>4. ASSUME NEW s \in Sessions, NEW a \in Appends, NEW d \in Data, AppendNothing(s, a, d)
        PROVE  ResultsFit'
    BY <1>1, <1>4 DEF ResultsFit, NetFits, AppendNothing, Begin
  <1>5. ASSUME NEW a \in Appends, CommitSend(a) \/ CommitRetry(a) \/ CatalogRefuse(a)
        PROVE  ResultsFit'
    BY <1>1, <1>5 DEF ResultsFit, CommitSend, CommitRetry, CatalogRefuse
  <1>6. ASSUME NEW a \in Appends, CatalogApply(a)
        PROVE  ResultsFit'
    <2>1. /\ table'.log = Append(table.log, a) /\ a \in Ids
          /\ result' = [result EXCEPT ![a] = table'] /\ given' = given
          /\ net' = [net EXCEPT ![a] = "applied"]
      BY <1>1, <1>6 DEF CatalogApply, Metadata, Ids
    <2>2. /\ IsHistory(given[a].log, table'.log)
          /\ Len(given[a].log) < Len(table'.log)
          /\ table'.log[Len(table'.log)] = a
      BY <1>1, <2>1, BranchGrows, HistoryIsOrder
    <2> QED BY <1>1, <2>1, <2>2 DEF ResultsFit
  <1> QED BY <1>2, <1>3, <1>4, <1>5, <1>6
       DEF Next, BuildWriter, WriteSlice, CloseWriter, CommitLoad, CommitInvalid,
           CommitConflict, Fail, GiveUp, Open, Crash, Return, EngineAppend, EngineRepartition

\* A returned snapshot is newer than any the call was passed.
LEMMA ResultIsNew ==
    ASSUME IInv, NEW a \in Appends, net[a] = "applied"
    PROVE  /\ CurrentSnapshot(result[a]) = a
           /\ CurrentSnapshot(given[a]) # a
  <1>1. /\ table.log \in Seq(Ids) /\ given[a].log \in Seq(Ids) /\ result[a].log \in Seq(Ids)
        /\ IsHistory(given[a].log, result[a].log)
        /\ Len(given[a].log) < Len(result[a].log)
        /\ result[a].log[Len(result[a].log)] = a
        /\ IsHistory(result[a].log, table.log)
        /\ \A i, j \in 1..Len(table.log) : table.log[i] = table.log[j] => i = j
    BY MetadataLog DEF IInv, TypeOK, ResultsFit, HandlesAreHistory, LogFits
  <1> DEFINE g == given[a].log
             r == result[a].log
  <1>2. CurrentSnapshot(result[a]) = a
    BY <1>1 DEF CurrentSnapshot
  <1>3. ASSUME g # <<>>, g[Len(g)] = a
        PROVE  FALSE
    <2>1. /\ g \in Seq(Ids) /\ r \in Seq(Ids) /\ IsHistory(g, r) /\ IsHistory(r, table.log)
          /\ Len(g) < Len(r) /\ r[Len(r)] = a /\ Len(table.log) \in Nat
      BY <1>1
    <2> HIDE DEF g, r
    <2>2. Len(g) \in Nat \ {0} /\ Len(r) \in Nat
      BY <1>3, <2>1
    <2>3. Len(g) \in 1..Len(g) /\ Len(g) \in 1..Len(r) /\ Len(r) \in 1..Len(r)
      BY <2>1, <2>2
    <2>4. r[Len(g)] = a
      BY <1>3, <2>1, <2>3 DEF IsHistory
    <2>5. table.log[Len(g)] = a /\ table.log[Len(r)] = a
      BY <2>1, <2>3, <2>4 DEF IsHistory
    <2>6. Len(r) <= Len(table.log)
      BY <2>1 DEF IsHistory
    <2>7. Len(g) \in 1..Len(table.log) /\ Len(r) \in 1..Len(table.log)
      BY <2>1, <2>2, <2>3, <2>6
    <2> QED BY <1>1, <2>1, <2>2, <2>5, <2>7
  <1>4. Nobody # a
    BY ConstantsAssumption
  <1> QED BY <1>2, <1>3, <1>4 DEF CurrentSnapshot

\* A call warns when it ends with nothing to append, and only then.
LEMMA WarnedStep ==
    ASSUME IInv, Next
    PROVE  WarnedFits'
  <1> USE DEF callVars, Goes, At
  <1>1. /\ WarnedFits /\ pc \in [Appends -> {"unused"} \cup Running \cup Ended]
        /\ result \in [Appends -> Metadata] /\ handle \in [Sessions -> Metadata]
    BY DEF IInv, TypeOK
  <1>2. ASSUME NEW s \in Sessions, NEW a \in Appends, NEW d \in Data, AppendNothing(s, a, d)
        PROVE  WarnedFits'
    BY <1>1, <1>2 DEF WarnedFits, AppendNothing, Begin
  <1>3. ASSUME NEW s \in Sessions, NEW a \in Appends, NEW d \in Data,
               Refuse(s, a, d) \/ StartAppend(s, a, d)
        PROVE  WarnedFits'
    BY <1>1, <1>3 DEF WarnedFits, Refuse, StartAppend, Begin
  <1>4. ASSUME NEW a \in Appends, BuildWriter(a) \/ WriteSlice(a) \/ CloseWriter(a)
        PROVE  WarnedFits'
    BY <1>1, <1>4 DEF WarnedFits, BuildWriter, WriteSlice, CloseWriter
  <1>5. ASSUME NEW a \in Appends, CommitLoad(a) \/ CommitInvalid(a) \/ CommitSend(a)
        PROVE  WarnedFits'
    BY <1>1, <1>5 DEF WarnedFits, CommitLoad, CommitInvalid, CommitSend
  <1>6. ASSUME NEW a \in Appends, CommitRetry(a) \/ CommitConflict(a)
        PROVE  WarnedFits'
    BY <1>1, <1>6 DEF WarnedFits, CommitRetry, CommitConflict
  <1>7. ASSUME NEW a \in Appends, Abandon(a)
        PROVE  WarnedFits'
    BY <1>1, <1>7 DEF WarnedFits, Abandon, Abandoned, Running
  <1>8. ASSUME NEW s \in Sessions, NEW a \in Appends, Return(s, a)
        PROVE  WarnedFits'
    <2>1. CurrentSnapshot(result[a]) = a /\ CurrentSnapshot(given[a]) # a
      BY <1>8, ResultIsNew DEF Return
    <2>2. warned' = warned
      BY <1>8, <2>1 DEF Return
    <2> QED BY <1>1, <1>8, <2>2 DEF WarnedFits, Return
  <1>9. CASE UNCHANGED <<pc, warned>>
    BY <1>1, <1>9 DEF WarnedFits
  <1>10. (\E a \in Appends : Fail(a) \/ GiveUp(a)) \/ (\E s \in Sessions : Crash(s))
           => \E a \in Appends : Abandon(a)
    BY Abandons DEF IInv
  <1> QED BY <1>2, <1>3, <1>4, <1>5, <1>6, <1>7, <1>8, <1>9, <1>10
       DEF Next, Open, CatalogApply, CatalogRefuse, EngineAppend, EngineRepartition

LEMMA StutterIInv ==
    ASSUME IInv, UNCHANGED vars
    PROVE  IInv'
  <1> USE DEF vars, callVars
  <1>1. TypeOK'
    BY DEF IInv, TypeOK
  <1>2. NetFits' /\ FilesFit' /\ SessionsFit' /\ WarnedFits'
    BY DEF IInv, NetFits, FilesFit, SessionsFit, WarnedFits, Unwritable
  <1>3. LogFits' /\ HandlesAreHistory'
    BY DEF IInv, LogFits, Landed, HandlesAreHistory
  <1>4. BasesFit' /\ ResultsFit'
    BY DEF IInv, BasesFit, ResultsFit
  <1> QED BY <1>1, <1>2, <1>3, <1>4 DEF IInv

\* The invariant, in every reachable state.
THEOREM AppendInvariant == Spec => []IInv
  <1>1. IInv /\ [Next]_vars => IInv'
    <2> SUFFICES ASSUME IInv, [Next]_vars
                 PROVE  IInv'
      OBVIOUS
    <2>1. CASE Next
      <3>1. TypeOK' /\ NetFits' /\ FilesFit'
        BY <2>1, TypeStep, NetFitsStep, FilesFitStep DEF IInv
      <3>2. LogFits' /\ HandlesAreHistory' /\ BasesFit'
        BY <2>1, LogFitsStep, HandlesStep, BasesStep
      <3>3. ResultsFit' /\ SessionsFit' /\ WarnedFits'
        BY <2>1, ResultsStep, SessionsFitStep, WarnedStep
      <3> QED BY <3>1, <3>2, <3>3 DEF IInv
    <2>2. CASE UNCHANGED vars
      BY <2>2, StutterIInv
    <2> QED BY <2>1, <2>2
  <1> QED BY <1>1, InitIInv, PTL DEF Spec

-----------------------------------------------------------------------------
(* What it implies.                                                         *)

\* Every variable has its type in every reachable state: no call retries more
\* often than the table allows, and no handle is anything but table metadata.
THEOREM AppendTypes == Spec => []TypeOK
  <1>1. IInv => TypeOK
    BY DEF IInv
  <1> QED BY <1>1, AppendInvariant, PTL

\* No commit is lost: every handle, passed, returned or held, is a beginning of
\* the table's history, whatever the sessions, engines and retries do.
THEOREM NoCommitIsLost == Spec => []HandlesAreHistory
  <1>1. IInv => HandlesAreHistory
    BY DEF IInv
  <1> QED BY <1>1, AppendInvariant, PTL

\* What the history names was uploaded to its last slice and closed.
THEOREM CommittedIsComplete == Spec => []CommittedFilesComplete
  <1>1. IInv => CommittedFilesComplete
    <2> SUFFICES ASSUME IInv, NEW a \in Appends, a \in Landed(table.log)
                 PROVE  files[a] = "complete" /\ left[a] = 0
      BY DEF CommittedFilesComplete
    <2>1. net[a] = "applied"
      BY DEF IInv, LogFits
    <2>2. pc[a] \in {"sent", "acked", "unknown"}
      BY <2>1 DEF IInv, TypeOK, NetFits, Running, Ended
    <2> QED BY <2>2 DEF IInv, FilesFit
  <1> QED BY <1>1, AppendInvariant, PTL

\* A call that its checks refuse, or a handle they would refuse, leaves no
\* trace in the warehouse, at the catalog or in the history.
THEOREM RefusalLeavesNothing == Spec => []RefusedLeavesNothing
  <1>1. IInv => RefusedLeavesNothing
    <2> SUFFICES ASSUME IInv, NEW a \in Appends,
                        pc[a] \in {"refused", "noop"} \/ Unwritable(given[a])
                 PROVE  files[a] = "none" /\ net[a] = "none" /\ a \notin Landed(table.log)
      BY DEF RefusedLeavesNothing
    <2>1. pc[a] \in {"unused", "refused", "noop"}
      BY DEF IInv, FilesFit
    <2>2. net[a] = "none" /\ files[a] = "none"
      BY <2>1 DEF IInv, NetFits, FilesFit
    <2> QED BY <2>2 DEF IInv, LogFits
  <1> QED BY <1>1, AppendInvariant, PTL

\* The handle of a successful call shows all that the one it was passed did,
\* and the call's own rows as the current snapshot.
THEOREM ReturnedHandleIsNewer == Spec => []ReturnedHandleExtendsGiven
  <1>1. IInv => ReturnedHandleExtendsGiven
    <2> SUFFICES ASSUME IInv, NEW a \in Appends, pc[a] = "acked"
                 PROVE  IsHistory(given[a].log, result[a].log) /\ CurrentSnapshot(result[a]) = a
      BY DEF ReturnedHandleExtendsGiven
    <2>1. net[a] = "applied"
      BY DEF IInv, NetFits
    <2> QED BY <2>1, ResultIsNew DEF IInv, ResultsFit
  <1> QED BY <1>1, AppendInvariant, PTL

\* Comparing the current snapshots of the two handles is the right test: it
\* warns exactly when the call committed nothing.
THEOREM WarningIsRight == Spec => []WarnedIffNothingCommitted
  <1>1. IInv => WarnedIffNothingCommitted
    <2> SUFFICES ASSUME IInv, NEW a \in Appends, pc[a] \in {"acked", "noop"}
                 PROVE  a \in warned <=> a \notin Landed(table.log)
      BY DEF WarnedIffNothingCommitted
    <2>1. pc[a] = "acked" => net[a] = "applied"
      BY DEF IInv, NetFits
    <2>2. pc[a] = "noop" => net[a] = "none"
      BY DEF IInv, NetFits
    <2> QED BY <2>1, <2>2 DEF IInv, WarnedFits, LogFits
  <1> QED BY <1>1, AppendInvariant, PTL

\* However stale a handle, a call meets no more refused swaps than others have
\* committed since the handle was taken.
THEOREM ConflictsAreOthers == Spec => []ConflictsHaveACause
  <1>1. IInv => ConflictsHaveACause
    <2> SUFFICES ASSUME IInv, NEW a \in Appends
                 PROVE  tries[a] + (IF net[a] = "conflict" THEN 1 ELSE 0)
                            <= Len(table.log) - Len(given[a].log)
      BY DEF ConflictsHaveACause
    <2>1. table.log \in Seq(Ids) /\ given[a].log \in Seq(Ids) /\ tries[a] \in Nat
      BY MetadataLog, ConstantsAssumption DEF IInv, TypeOK
    <2>2. Len(table.log) \in Nat /\ Len(given[a].log) \in Nat
      BY <2>1
    <2>3. /\ net[a] = "conflict" => Len(table.log) > Len(given[a].log) + tries[a]
          /\ Len(table.log) >= Len(given[a].log) + tries[a]
      BY DEF IInv, BasesFit
    <2> DEFINE n == Len(table.log)
               m == Len(given[a].log)
               k == tries[a]
    <2>4. n \in Nat /\ m \in Nat /\ k \in Nat /\ n >= m + k
      BY <2>1, <2>2, <2>3
    <2>5. net[a] = "conflict" => n > m + k
      BY <2>3
    <2> HIDE DEF n, m, k
    <2>6. k <= n - m /\ (net[a] = "conflict" => k + 1 <= n - m)
      BY <2>4, <2>5
    <2>7. k + (IF net[a] = "conflict" THEN 1 ELSE 0) <= n - m
      BY <2>4, <2>6
    <2> QED BY <2>7 DEF n, m, k
  <1> QED BY <1>1, AppendInvariant, PTL

\* No session ever reads an older table than it did: opening the table again,
\* and the handle an append returns, only add snapshots.
THEOREM HandlesOnlyGrow == Spec => HandleNeverGoesBack
  <1> DEFINE Grow == \A s \in Sessions : IsHistory(handle[s].log, handle'[s].log)
  <1>1. IInv /\ [Next]_vars => [Grow]_vars
    <2> SUFFICES ASSUME IInv, Next
                 PROVE  Grow
      OBVIOUS
    <2>1. /\ handle \in [Sessions -> Metadata]
          /\ \A s \in Sessions : handle[s].log \in Seq(Ids) /\ IsHistory(handle[s].log, table.log)
      BY MetadataLog DEF IInv, TypeOK, HandlesAreHistory
    <2>2. \A s \in Sessions : IsHistory(handle[s].log, handle[s].log)
      BY <2>1, HistoryIsOrder
    <2>3. ASSUME UNCHANGED handle
          PROVE  Grow
      BY <2>2, <2>3
    <2>4. ASSUME NEW s \in Sessions, Open(s) \/ Crash(s)
          PROVE  Grow
      BY <2>1, <2>2, <2>4 DEF Open, Crash
    <2>5. ASSUME NEW s \in Sessions, NEW a \in Appends, Return(s, a)
          PROVE  Grow
      <3>1. handle[s] = given[a] /\ net[a] = "applied"
        BY <2>5, ConstantsAssumption DEF Return, IInv, SessionsFit
      <3>2. IsHistory(handle[s].log, result[a].log)
        BY <3>1 DEF IInv, ResultsFit
      <3> QED BY <2>1, <2>2, <2>5, <3>2 DEF Return
    <2> HIDE DEF Grow
    <2> QED BY <2>3, <2>4, <2>5
       DEF Next, Refuse, AppendNothing, StartAppend, Begin, BuildWriter, WriteSlice,
           CloseWriter, CommitLoad, CommitInvalid, CommitSend, CommitRetry, CommitConflict,
           Fail, GiveUp, CatalogApply, CatalogRefuse, EngineAppend, EngineRepartition
  <1> QED BY <1>1, AppendInvariant, PTL DEF Spec, HandleNeverGoesBack

-----------------------------------------------------------------------------
(* The log of commits.                                                      *)

LEMMA Outcomes ==
    /\ Outcome("acked") = "done"
    /\ Outcome("refused") = "declined" /\ Outcome("noop") = "declined"
    /\ Outcome("aborted") = "declined"
    /\ Outcome("unknown") = "unknown"
    /\ Outcome("unused") = "pending"
    /\ \A phase \in Running : Outcome(phase) = "pending"
  <1>1. \A phase \in Running : phase \notin {"acked", "refused", "noop", "aborted", "unknown"}
    BY DEF Running
  <1> QED BY <1>1 DEF Outcome

\* A call that moves changes its own status and no other.
LEMMA StatusMoves ==
    ASSUME pc \in [Appends -> {"unused"} \cup Running \cup Ended],
           NEW a \in Appends, NEW phase, Goes(a, phase)
    PROVE  Status' = [Status EXCEPT ![a] = Outcome(phase)]
  BY DEF Status, Goes

LEMMA AbstractStep ==
    ASSUME IInv, Next
    PROVE  [Abstract!Next]_<<table.log, Status>>
  <1> DEFINE Step == [Abstract!Next]_<<table.log, Status>>
  <1> USE DEF callVars
  <1>1. /\ table \in Metadata /\ table.log \in Seq(Ids)
        /\ pc \in [Appends -> {"unused"} \cup Running \cup Ended]
        /\ \A a \in Appends : Status[a] = Outcome(pc[a])
        /\ Status \in [Appends -> {Outcome(phase) : phase \in {"unused"} \cup Running \cup Ended}]
        /\ \A a \in Appends : a \in Landed(table.log) <=> net[a] = "applied"
        /\ NetFits
    BY MetadataLog DEF IInv, TypeOK, Status, LogFits
  <1>2. ASSUME NEW a \in Appends, NEW phase, Goes(a, phase), UNCHANGED table,
               pc[a] \in {"unused"} \cup Running, phase \in Running
        PROVE  Step
    <2>1. Status' = [Status EXCEPT ![a] = Outcome(phase)]
      BY <1>1, <1>2, StatusMoves
    <2>2. Outcome(phase) = Status[a]
      BY <1>1, <1>2, Outcomes
    <2>3. Status' = Status
      BY <1>1, <2>1, <2>2
    <2> QED BY <1>2, <2>3
  <1>3. ASSUME NEW a \in Appends, NEW phase, Goes(a, phase), UNCHANGED table,
               pc[a] \in {"unused"} \cup Running, phase \in {"refused", "noop", "aborted"},
               net[a] # "applied"
        PROVE  Step
    <2>1. Status' = [Status EXCEPT ![a] = "declined"] /\ Status[a] = "pending"
      BY <1>1, <1>3, StatusMoves, Outcomes
    <2>2. a \notin Landed(table.log)
      BY <1>1, <1>3
    <2>3. Abstract!Decline(a)
      BY <1>3, <2>1, <2>2 DEF Abstract!Decline, Abstract!Report, Abstract!Landed, Landed
    <2> QED BY <2>3 DEF Abstract!Next
  <1>4. ASSUME UNCHANGED <<table, pc>>
        PROVE  Step
    BY <1>4 DEF Status
  <1>5. ASSUME NEW s \in Sessions, NEW a \in Appends, NEW d \in Data,
               Refuse(s, a, d) \/ AppendNothing(s, a, d) \/ StartAppend(s, a, d)
        PROVE  Step
    <2>1. pc[a] = "unused" /\ net[a] = "none" /\ UNCHANGED table
      BY <1>1, <1>5 DEF Refuse, AppendNothing, StartAppend, Begin, At, NetFits
    <2>2. Goes(a, "refused") \/ Goes(a, "noop") \/ Goes(a, "build")
      BY <1>5 DEF Refuse, AppendNothing, StartAppend
    <2>3. "build" \in Running
      BY DEF Running
    <2> QED BY <1>2, <1>3, <2>1, <2>2, <2>3
  <1>6. ASSUME NEW a \in Appends,
               BuildWriter(a) \/ WriteSlice(a) \/ CloseWriter(a) \/ CommitLoad(a)
                 \/ CommitSend(a) \/ CommitRetry(a)
        PROVE  Step
    <2>1. /\ pc[a] \in Running /\ UNCHANGED table
          /\ \E phase \in Running : Goes(a, phase)
      BY <1>6 DEF BuildWriter, WriteSlice, CloseWriter, CommitLoad, CommitSend, CommitRetry,
                  At, Running
    <2> QED BY <1>2, <2>1
  <1>7. ASSUME NEW a \in Appends, CommitInvalid(a) \/ CommitConflict(a)
        PROVE  Step
    <2>1. /\ pc[a] \in Running /\ UNCHANGED table /\ Goes(a, "aborted")
          /\ net[a] # "applied"
      BY <1>1, <1>7 DEF CommitInvalid, CommitConflict, At, Running, NetFits
    <2> QED BY <1>3, <2>1
  <1>8. ASSUME NEW a \in Appends, Abandon(a)
        PROVE  Step
    <2>1. pc[a] \in Running /\ UNCHANGED table
      BY <1>8 DEF Abandon
    <2>2. CASE pc[a] = "sent"
      <3>1. Status' = [Status EXCEPT ![a] = "unknown"] /\ Status[a] = "pending"
        BY <1>1, <1>8, <2>1, <2>2, StatusMoves, Outcomes DEF Abandon, Abandoned, At
      <3>2. Abstract!GiveUp(a)
        BY <2>1, <3>1 DEF Abstract!GiveUp, Abstract!Report
      <3> QED BY <3>2 DEF Abstract!Next
    <2>3. CASE pc[a] # "sent"
      <3>1. Goes(a, "aborted") /\ net[a] # "applied"
        BY <1>1, <1>8, <2>1, <2>3 DEF Abandon, Abandoned, At, Running, NetFits
      <3> QED BY <1>3, <2>1, <3>1
    <2> QED BY <2>2, <2>3
  <1>9. ASSUME NEW s \in Sessions, NEW a \in Appends, Return(s, a)
        PROVE  Step
    <2>1. /\ pc[a] \in Running /\ UNCHANGED table /\ Goes(a, "acked") /\ net[a] = "applied"
      BY <1>9 DEF Return, At, Running
    <2>2. Status' = [Status EXCEPT ![a] = "done"] /\ Status[a] = "pending"
      BY <1>1, <2>1, StatusMoves, Outcomes
    <2>3. Abstract!Acknowledge(a)
      BY <1>1, <2>1, <2>2 DEF Abstract!Acknowledge, Abstract!Report, Abstract!Landed, Landed
    <2> QED BY <2>3 DEF Abstract!Next
  <1>10. ASSUME NEW a \in Appends, CatalogApply(a)
         PROVE  Step
    <2>1. /\ table'.log = Append(table.log, a) /\ net[a] = "sent" /\ Status' = Status
      BY <1>1, <1>10 DEF CatalogApply, Metadata, Status
    <2>2. pc[a] \in {"sent", "unknown"} /\ a \notin Landed(table.log)
      BY <1>1, <2>1 DEF NetFits, Ended, Running
    <2>3. Status[a] \in {"pending", "unknown"}
      BY <1>1, <2>2, Outcomes DEF Running
    <2>4. Abstract!Land(a)
      BY <2>1, <2>2, <2>3 DEF Abstract!Land, Abstract!Landed, Landed
    <2> QED BY <2>4 DEF Abstract!Next
  <1>11. ASSUME NEW e \in Others, EngineAppend(e)
         PROVE  Step
    <2>1. /\ table'.log = Append(table.log, e) /\ Status' = Status
          /\ e \notin Landed(table.log) /\ e \notin Appends
      BY <1>1, <1>11, ConstantsAssumption DEF EngineAppend, Metadata, Status
    <2>2. Abstract!Land(e)
      BY <2>1 DEF Abstract!Land, Abstract!Landed, Landed
    <2> QED BY <2>2 DEF Abstract!Next
  <1>12. ASSUME EngineRepartition
         PROVE  Step
    <2>1. table'.log = table.log /\ Status' = Status
      BY <1>1, <1>12 DEF EngineRepartition, Metadata, Status
    <2> QED BY <2>1
  <1>13. (\E a \in Appends : Fail(a) \/ GiveUp(a)) \/ (\E s \in Sessions : Crash(s))
           => \E a \in Appends : Abandon(a)
    BY Abandons DEF IInv
  <1> HIDE DEF Step
  <1>14. Step
    BY <1>4, <1>5, <1>6, <1>7, <1>8, <1>9, <1>10, <1>11, <1>12, <1>13
       DEF Next, CatalogRefuse, Open
  <1> QED BY <1>14 DEF Step

\* No call is in the history twice.
THEOREM RowsLandOnce == Spec => []NoRowsTwice
  <1>1. IInv => NoRowsTwice
    BY DEF IInv, LogFits, NoRowsTwice, Abstract!LandsOnce
  <1> QED BY <1>1, AppendInvariant, PTL

\* Success means the rows are in the history; a failure before the commit went
\* out means they are not.
THEOREM OutcomesAreTrue == Spec => []ReportsAreTrue
  <1>1. IInv => ReportsAreTrue
    <2> SUFFICES ASSUME IInv, NEW a \in Appends
                 PROVE  /\ Status[a] = "done" => a \in Landed(table.log)
                        /\ Status[a] = "declined" => a \notin Landed(table.log)
      BY DEF ReportsAreTrue, Abstract!ReportsAreTrue, Abstract!Landed, Landed
    <2>1. Status[a] = Outcome(pc[a]) /\ pc[a] \in {"unused"} \cup Running \cup Ended
      BY DEF Status, IInv, TypeOK
    <2>2. Status[a] = "done" => pc[a] = "acked"
      BY <2>1, Outcomes DEF Ended
    <2>3. Status[a] = "declined" => pc[a] \in {"refused", "noop", "aborted"}
      BY <2>1, Outcomes DEF Ended
    <2> QED BY <2>2, <2>3 DEF IInv, NetFits, LogFits
  <1> QED BY <1>1, AppendInvariant, PTL

\* icebergr_append() keeps the promise of AppendLog: a call lands at most once,
\* a call that reported success has landed, and one that failed before its
\* commit went out never will.
THEOREM AppendsAreALog == Spec => ImplementsAppendLog
  <1>1. Init => Abstract!Init
    <2> SUFFICES ASSUME Init
                 PROVE  Abstract!Init
      OBVIOUS
    <2>1. table.log = <<>> /\ pc = [a \in Appends |-> "unused"]
      BY DEF Init, NewTable
    <2>2. Status = [a \in Appends |-> "pending"]
      BY <2>1, Outcomes DEF Status
    <2> QED BY <2>1, <2>2 DEF Abstract!Init
  <1>2. IInv /\ [Next]_vars => [Abstract!Next]_<<table.log, Status>>
    <2>1. UNCHANGED vars => UNCHANGED <<table.log, Status>>
      BY DEF vars, Status
    <2> QED BY <2>1, AbstractStep
  <1> QED BY <1>1, <1>2, AppendInvariant, PTL
          DEF Spec, ImplementsAppendLog, Abstract!Spec, Abstract!vars

=============================================================================
