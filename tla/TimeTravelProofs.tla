--------------------------- MODULE TimeTravelProofs ---------------------------
(***************************************************************************)
(* The invariants of TimeTravel, for any schemas, names and clocks and any  *)
(* number of snapshots.                                                     *)
(*                                                                          *)
(* That the log has a last entry at or before a time is not a fact about    *)
(* sequences here but one the invariant carries: an entry that is appended  *)
(* is last if it is eligible at all, and what is left of a shortened log    *)
(* has the last entry it had.  What was current at a time is then read off  *)
(* the log as long as no clock was off.                                     *)
(***************************************************************************)
EXTENDS TimeTravel, TLAPS

\* As-of resolution has an entry to find.
LogHasLast == \A t \in Times : Eligible(t) # {} => \E i \in DOMAIN log : IsLast(i, Eligible(t))

\* The tick that has begun ends with what is current now.
WasNow == was[now] = current

\* An entry is no newer than the commit that made it, unless a clock was off.
LogInThePast == ~skewed => \A i \in DOMAIN log : log[i].time <= now

IInv == TypeOK /\ LogHasLast /\ WasNow /\ LogInThePast /\ AsOfIsHistory

LEMMA Numbers == MaxSnapshots \in Nat /\ MaxTime \in Nat /\ Skews \subseteq Int /\ 0 \in Times
  BY TableAssumption DEF Times

\* A sequence over a set is one over a larger set.
LEMMA WiderSeq ==
    ASSUME NEW S, NEW T, S \subseteq T, NEW s \in Seq(S)
    PROVE  s \in Seq(T)
  <1>1. s \in [1..Len(s) -> S] /\ Len(s) \in Nat  OBVIOUS
  <1>2. s \in [1..Len(s) -> T]  BY <1>1
  <1>. QED  BY <1>1, <1>2

\* A sequence is one over any set that has its elements.
LEMMA SeqByElements ==
    ASSUME NEW S, NEW T, NEW s \in Seq(S), \A i \in 1..Len(s) : s[i] \in T
    PROVE  s \in Seq(T)
  <1>1. s \in [1..Len(s) -> S] /\ Len(s) \in Nat  OBVIOUS
  <1>2. s \in [1..Len(s) -> T]  BY <1>1
  <1>. QED  BY <1>1, <1>2

\* What the entries of the log are.
LEMMA LogEntries ==
    ASSUME TypeOK
    PROVE  /\ Len(log) \in Nat /\ DOMAIN log = 1..Len(log)
           /\ \A i \in DOMAIN log : log[i].id \in Known /\ log[i].time \in Int
  <1>. DEFINE Entries == [id : Known, time : Int]
  <1>. HIDE DEF Entries
  <1>0. log \in Seq(Entries)  BY DEF TypeOK, Entries
  <1>1. \A i \in DOMAIN log : log[i] \in Entries  BY <1>0
  <1>2. Len(log) \in Nat /\ DOMAIN log = 1..Len(log)  BY <1>0
  <1>. USE DEF Entries
  <1>. QED  BY <1>1, <1>2

-----------------------------------------------------------------------------
(* The entry of the log.                                                    *)

\* Where there is one, as_of resolves to the last eligible entry.
LEMMA EntryIsLast ==
    ASSUME TypeOK, LogHasLast, NEW t \in Times
    PROVE  /\ Eligible(t) = {} => entry_as_of(t) = 0
           /\ Eligible(t) # {} => /\ entry_as_of(t) \in Eligible(t)
                                  /\ IsLast(entry_as_of(t), Eligible(t))
                                  /\ entry_as_of(t) \in 1..Len(log)
  <1>1. DOMAIN log = 1..Len(log)  BY DEF TypeOK
  <1>2. CASE Eligible(t) # {}
    <2>1. \E i \in DOMAIN log : IsLast(i, Eligible(t))  BY <1>2 DEF LogHasLast
    <2>2. IsLast(entry_as_of(t), Eligible(t))  BY <1>2, <2>1 DEF entry_as_of
    <2>. QED  BY <1>1, <1>2, <2>2 DEF IsLast, Eligible
  <1>3. CASE Eligible(t) = {}  BY <1>3 DEF entry_as_of
  <1>. QED  BY <1>2, <1>3

\* There is one last entry.
LEMMA LastIsEntry ==
    ASSUME TypeOK, LogHasLast, NEW t \in Times, NEW i \in DOMAIN log, IsLast(i, Eligible(t))
    PROVE  entry_as_of(t) = i
  <1>1. DOMAIN log = 1..Len(log) /\ Len(log) \in Nat  BY DEF TypeOK
  <1>2. Eligible(t) # {}  BY DEF IsLast
  <1>3. IsLast(entry_as_of(t), Eligible(t)) /\ entry_as_of(t) \in 1..Len(log)
    BY <1>2, EntryIsLast
  <1>. QED  BY <1>1, <1>3 DEF IsLast

\* The later time of two finds the same entry or a later one.
LEMMA EntryMovesForward == TypeOK /\ LogHasLast => AsOfMovesForward
  <1>. SUFFICES ASSUME TypeOK, LogHasLast, NEW t \in Times, NEW u \in Times, t <= u
                PROVE  entry_as_of(t) <= entry_as_of(u)
    BY DEF AsOfMovesForward
  <1>1. Len(log) \in Nat  BY DEF TypeOK
  <1>2. Eligible(t) \subseteq Eligible(u)
    <2>1. \A i \in DOMAIN log : log[i].time \in Int  BY LogEntries
    <2>2. t \in Int /\ u \in Int  BY Numbers DEF Times
    <2>. QED  BY <2>1, <2>2 DEF Eligible
  <1>3. CASE Eligible(t) = {}
    <2>1. entry_as_of(t) = 0  BY <1>3, EntryIsLast
    <2>2. entry_as_of(u) \in Nat  BY <1>1, EntryIsLast
    <2>. QED  BY <2>1, <2>2
  <1>4. CASE Eligible(t) # {}
    <2>1. entry_as_of(t) \in Eligible(u)  BY <1>2, <1>4, EntryIsLast
    <2>2. IsLast(entry_as_of(u), Eligible(u))  BY <1>2, <1>4, EntryIsLast
    <2>. QED  BY <2>1, <2>2 DEF IsLast
  <1>. QED  BY <1>3, <1>4

-----------------------------------------------------------------------------
(* Types.                                                                   *)

LEMMA InitTypes == Init => TypeOK
  <1>. SUFFICES ASSUME Init PROVE TypeOK  OBVIOUS
  <1>1. Known = {}  BY DEF Init, Known
  <1>2. log \in Seq([id : Known, time : Int])  BY DEF Init
  <1>3. was \in [Times -> Ids \cup {None}]  BY DEF Init
  <1>4. made \in 0..MaxSnapshots /\ now \in Times  BY Numbers DEF Init
  <1>. QED  BY <1>1, <1>2, <1>3, <1>4 DEF Init, TypeOK

\* A new snapshot is listed with the others.
LEMMA NewSnapshotTypes ==
    ASSUME TypeOK, NEW named \in Schemas \cup {NoSchema}, NewSnapshot(named)
    PROVE  /\ made' \in 0..MaxSnapshots /\ made' \in Known' /\ made' \in Ids
           /\ Known' \subseteq 1..made' /\ Known \subseteq Known'
           /\ \A s \in Known' : snapshots'[s] \in Schemas \cup {NoSchema}
           /\ \A s \in Known : snapshots'[s] = snapshots[s]
  <1>1. made' = made + 1 /\ made \in Nat /\ made < MaxSnapshots
    BY Numbers DEF TypeOK, NewSnapshot
  <1>2. Known' = Known \cup {made'}  BY DEF NewSnapshot, Known
  <1>3. \A s \in Known' : snapshots'[s] = IF s = made' THEN named ELSE snapshots[s]
    BY <1>2 DEF NewSnapshot
  <1>4. made' \notin Known  BY <1>1 DEF TypeOK
  <1>. QED  BY <1>1, <1>2, <1>3, <1>4, Numbers DEF TypeOK, Ids

\* The log and the record of what was current take the new entry.
LEMMA BecomesCurrentTypes ==
    ASSUME TypeOK, NEW s \in Ids, NEW d \in Skews, BecomesCurrent(s, d),
           s \in Known', Known \subseteq Known'
    PROVE  /\ log' \in Seq([id : Known', time : Int])
           /\ current' \in Known' /\ skewed' \in BOOLEAN
           /\ was' \in [Times -> Ids \cup {None}]
  <1>1. now + d \in Int  BY Numbers DEF TypeOK, Times
  <1>2. log \in Seq([id : Known', time : Int])
    <2>1. [id : Known, time : Int] \subseteq [id : Known', time : Int]  OBVIOUS
    <2>2. log \in Seq([id : Known, time : Int])  BY DEF TypeOK
    <2>. QED  BY <2>1, <2>2, WiderSeq
  <1>3. [id |-> s, time |-> now + d] \in [id : Known', time : Int]  BY <1>1
  <1>4. log' \in Seq([id : Known', time : Int])  BY <1>2, <1>3 DEF BecomesCurrent
  <1>. QED  BY <1>4 DEF TypeOK, BecomesCurrent

\* What an expired snapshot leaves of the log is its end.
LEMMA ExpireLog ==
    ASSUME TypeOK, NEW s \in Known, Expire(s)
    PROVE  \E n \in 0..Len(log) :
             /\ Len(log') = Len(log) - n
             /\ \A i \in 1..(Len(log) - n) : log'[i] = log[i + n]
             /\ \A i \in 1..(Len(log) - n) : log[i + n].id # s
             /\ DOMAIN log' = 1..(Len(log) - n)
             /\ log' \in Seq([id : Known, time : Int])
  <1>. DEFINE Entries == [id : Known, time : Int]
  <1>. HIDE DEF Entries
  <1>0. log \in Seq(Entries) /\ Len(log) \in Nat  BY DEF TypeOK, Entries
  <1>1. PICK n \in 0..Len(log) :
          /\ \A i \in DOMAIN log : log[i].id = s => i <= n
          /\ log' = SubSeq(log, n + 1, Len(log))
    BY DEF Expire
  <1>2. Len(log') = Len(log) - n /\ log' \in Seq(Entries)
    BY <1>0, <1>1
  <1>3. \A i \in 1..(Len(log) - n) : log'[i] = log[i + n]
    BY <1>0, <1>1
  <1>4. DOMAIN log' = 1..(Len(log) - n)
    BY <1>2
  <1>5. \A i \in 1..(Len(log) - n) : log[i + n].id # s
    <2>. TAKE i \in 1..(Len(log) - n)
    <2>1. i + n \in DOMAIN log /\ ~(i + n <= n)  BY <1>0
    <2>. QED  BY <2>1, <1>1
  <1>. QED  BY <1>2, <1>3, <1>4, <1>5 DEF Entries

LEMMA TypeStep == TypeOK /\ [Next]_vars => TypeOK'
  <1>. SUFFICES ASSUME TypeOK, [Next]_vars PROVE TypeOK'  OBVIOUS
  <1>. USE DEF metadata, ghosts
  <1>1. ASSUME NEW named \in {schema, NoSchema}, NEW d \in Skews, Commit(named, d)
        PROVE  TypeOK'
    <2>1. named \in Schemas \cup {NoSchema}  BY DEF TypeOK
    <2>2. NewSnapshot(named) /\ BecomesCurrent(made', d) /\ UNCHANGED <<schema, now, expired>>
      BY <1>1 DEF Commit
    <2>3. /\ made' \in 0..MaxSnapshots /\ made' \in Known' /\ made' \in Ids
          /\ Known' \subseteq 1..made' /\ Known \subseteq Known'
          /\ \A s \in Known' : snapshots'[s] \in Schemas \cup {NoSchema}
      BY <2>1, <2>2, NewSnapshotTypes
    <2>4. /\ log' \in Seq([id : Known', time : Int])
          /\ current' \in Known' /\ skewed' \in BOOLEAN
          /\ was' \in [Times -> Ids \cup {None}]
      BY <2>2, <2>3, BecomesCurrentTypes
    <2>. QED  BY <2>2, <2>3, <2>4 DEF TypeOK
  <1>2. ASSUME NEW named \in {schema, NoSchema}, Branch(named)
        PROVE  TypeOK'
    <2>1. named \in Schemas \cup {NoSchema}  BY DEF TypeOK
    <2>2. NewSnapshot(named) /\ UNCHANGED <<log, current, schema, now, ghosts>>
      BY <1>2 DEF Branch
    <2>3. /\ made' \in 0..MaxSnapshots
          /\ Known' \subseteq 1..made' /\ Known \subseteq Known'
          /\ \A s \in Known' : snapshots'[s] \in Schemas \cup {NoSchema}
      BY <2>1, <2>2, NewSnapshotTypes
    <2>4. log' \in Seq([id : Known', time : Int])
      <3>1. [id : Known, time : Int] \subseteq [id : Known', time : Int]  BY <2>3
      <3>2. log \in Seq([id : Known, time : Int])  BY DEF TypeOK
      <3>3. log \in Seq([id : Known', time : Int])  BY <3>1, <3>2, WiderSeq
      <3>. QED  BY <2>2, <3>3
    <2>. QED  BY <2>2, <2>3, <2>4 DEF TypeOK
  <1>3. ASSUME NEW s \in Known, NEW d \in Skews, Rollback(s, d)
        PROVE  TypeOK'
    <2>1. s \in Ids  BY Numbers DEF TypeOK, Ids
    <2>2. BecomesCurrent(s, d) /\ UNCHANGED <<snapshots, schema, made, now, expired>>
      BY <1>3 DEF Rollback
    <2>3. Known' = Known  BY <2>2 DEF Known
    <2>4. /\ log' \in Seq([id : Known', time : Int])
          /\ current' \in Known' /\ skewed' \in BOOLEAN
          /\ was' \in [Times -> Ids \cup {None}]
      BY <2>1, <2>2, <2>3, BecomesCurrentTypes
    <2>. QED  BY <2>2, <2>3, <2>4 DEF TypeOK
  <1>4. ASSUME NEW S \in Schemas, Alter(S)
        PROVE  TypeOK'
    BY <1>4 DEF Alter, TypeOK, Known
  <1>5. ASSUME NEW s \in Known, Expire(s)
        PROVE  TypeOK'
    <2>1. Known' = Known \ {s} /\ \A k \in Known' : snapshots'[k] = snapshots[k]
      BY <1>5 DEF Expire, Known
    <2>2. PICK n \in 0..Len(log) :
            /\ Len(log') = Len(log) - n
            /\ \A i \in 1..(Len(log) - n) : log'[i] = log[i + n]
            /\ \A i \in 1..(Len(log) - n) : log[i + n].id # s
            /\ DOMAIN log' = 1..(Len(log) - n)
            /\ log' \in Seq([id : Known, time : Int])
      BY <1>5, ExpireLog
    <2>. DEFINE Entries == [id : Known, time : Int]
                Left == [id : Known', time : Int]
    <2>3. \A e \in Entries : e.id # s => e \in Left  BY <2>1
    <2>4. log' \in Seq(Left)
      <3>. HIDE DEF Entries, Left
      <3>1. log' \in Seq(Entries)  BY <2>2 DEF Entries
      <3>2. Len(log') \in Nat /\ \A i \in 1..Len(log') : log'[i] \in Entries  BY <3>1
      <3>3. \A i \in 1..Len(log') : log'[i].id # s  BY <2>2
      <3>4. \A i \in 1..Len(log') : log'[i] \in Left  BY <2>3, <3>2, <3>3
      <3>. QED  BY <3>1, <3>4, SeqByElements
    <2>. QED  BY <1>5, <2>1, <2>4 DEF Expire, TypeOK
  <1>6. CASE Tick
    <2>1. now' \in Times  BY <1>6, Numbers DEF Tick, TypeOK, Times
    <2>2. Known \subseteq Ids  BY Numbers DEF TypeOK, Ids
    <2>. QED  BY <1>6, <2>1, <2>2 DEF Tick, TypeOK, Known
  <1>7. CASE UNCHANGED vars  BY <1>7 DEF vars, TypeOK, Known
  <1>. QED  BY <1>1, <1>2, <1>3, <1>4, <1>5, <1>6, <1>7 DEF Next

-----------------------------------------------------------------------------
(* As of a time.                                                            *)

\* A last element is the only one.
LEMMA ChooseLast ==
    ASSUME NEW n \in Nat, NEW S, NEW i \in 1..n, IsLast(i, S), S \subseteq 1..n
    PROVE  (CHOOSE k \in 1..n : IsLast(k, S)) = i
  <1>1. \A k \in 1..n : IsLast(k, S) => k = i  BY DEF IsLast
  <1>. QED  BY <1>1

\* The entry that a snapshot made current leaves in the log.
LEMMA EntryAppended ==
    ASSUME TypeOK, NEW s, NEW d \in Skews, BecomesCurrent(s, d)
    PROVE  /\ Len(log') = Len(log) + 1 /\ DOMAIN log' = 1..Len(log')
           /\ \A i \in 1..Len(log) : log'[i] = log[i]
           /\ log'[Len(log')] = [id |-> s, time |-> now + d]
  <1>. DEFINE Entries == [id : Known, time : Int]
              entry == [id |-> s, time |-> now + d]
  <1>1. log' = Append(log, entry)  BY DEF BecomesCurrent
  <1>2. log \in Seq(Entries)  BY DEF TypeOK
  <1>. HIDE DEF Entries, entry
  <1>3. Len(log') = Len(log) + 1 /\ DOMAIN log' = 1..Len(log')  BY <1>1, <1>2
  <1>4. \A i \in 1..Len(log) : log'[i] = log[i]  BY <1>1, <1>2
  <1>5. log'[Len(log')] = entry  BY <1>1, <1>2, <1>3
  <1>. QED  BY <1>3, <1>4, <1>5 DEF entry

\* As of the time it bears and of any later one, the new entry is the last;
\* before, the log answers what it did.
LEMMA AppendedEntry ==
    ASSUME TypeOK, LogHasLast, NEW s, NEW d \in Skews, BecomesCurrent(s, d),
           NEW t \in Times
    PROVE  /\ now + d <= t => /\ IsLast(Len(log'), Eligible(t)')
                              /\ snapshot_as_of(t)' = s
           /\ ~(now + d <= t) => /\ Eligible(t)' = Eligible(t)
                                 /\ snapshot_as_of(t)' = snapshot_as_of(t)
  <1>1. /\ Len(log') = Len(log) + 1 /\ DOMAIN log' = 1..Len(log')
        /\ \A i \in 1..Len(log) : log'[i] = log[i]
        /\ log'[Len(log')] = [id |-> s, time |-> now + d]
    BY EntryAppended
  <1>2. Len(log) \in Nat /\ DOMAIN log = 1..Len(log)  BY LogEntries
  <1>3. Eligible(t)' = {i \in 1..Len(log') : log'[i].time <= t}  BY <1>1 DEF Eligible
  <1>4. Eligible(t) = {i \in 1..Len(log) : log[i].time <= t}  BY <1>2 DEF Eligible
  <1>5. ASSUME now + d <= t
        PROVE  IsLast(Len(log'), Eligible(t)') /\ snapshot_as_of(t)' = s
    <2>1. Len(log') \in Eligible(t)'  BY <1>1, <1>2, <1>3, <1>5
    <2>2. \A i \in Eligible(t)' : i <= Len(log')  BY <1>1, <1>2, <1>3
    <2>3. IsLast(Len(log'), Eligible(t)')  BY <2>1, <2>2 DEF IsLast
    <2>4. (CHOOSE i \in 1..Len(log') : IsLast(i, Eligible(t)')) = Len(log')
      BY <1>1, <1>2, <1>3, <2>3, ChooseLast
    <2>5. entry_as_of(t)' = Len(log')  BY <1>1, <2>1, <2>4 DEF entry_as_of
    <2>6. Len(log') # 0  BY <1>1, <1>2
    <2>. QED  BY <1>1, <2>3, <2>5, <2>6 DEF snapshot_as_of
  <1>6. ASSUME ~(now + d <= t)
        PROVE  Eligible(t)' = Eligible(t) /\ snapshot_as_of(t)' = snapshot_as_of(t)
    <2>1. Eligible(t)' = Eligible(t)  BY <1>1, <1>2, <1>3, <1>4, <1>6
    <2>2. CASE Eligible(t) = {}
      <3>1. entry_as_of(t) = 0 /\ entry_as_of(t)' = 0  BY <2>1, <2>2 DEF entry_as_of
      <3>. QED  BY <2>1, <3>1 DEF snapshot_as_of
    <2>3. CASE Eligible(t) # {}
      <3>. DEFINE i == entry_as_of(t)
      <3>1. IsLast(i, Eligible(t)) /\ i \in 1..Len(log)  BY <2>3, EntryIsLast
      <3>. HIDE DEF i
      <3>2. i \in 1..Len(log') /\ i # 0 /\ Eligible(t) \subseteq 1..Len(log')
        BY <1>1, <1>2, <1>4, <3>1
      <3>3. (CHOOSE k \in 1..Len(log') : IsLast(k, Eligible(t)')) = i
        BY <1>1, <1>2, <2>1, <3>1, <3>2, ChooseLast
      <3>4. entry_as_of(t)' = i  BY <1>1, <2>1, <2>3, <3>3 DEF entry_as_of
      <3>5. log'[i] = log[i]  BY <1>1, <3>1
      <3>6. snapshot_as_of(t)' = log'[i].id  BY <3>2, <3>4 DEF snapshot_as_of
      <3>7. snapshot_as_of(t) = log[i].id  BY <3>2 DEF snapshot_as_of, i
      <3>. QED  BY <2>1, <3>5, <3>6, <3>7
    <2>. QED  BY <2>2, <2>3
  <1>. QED  BY <1>5, <1>6

\* What is left of a log has the last entry it had, or none.
LEMMA ShortenedLog ==
    ASSUME TypeOK, LogHasLast, NEW s \in Known, Expire(s), NEW t \in Times
    PROVE  \/ Eligible(t)' = {} /\ snapshot_as_of(t)' = None
           \/ /\ \E i \in DOMAIN log' : IsLast(i, Eligible(t)')
              /\ snapshot_as_of(t)' = snapshot_as_of(t)
              /\ snapshot_as_of(t) # None
  <1>1. PICK n \in 0..Len(log) :
          /\ Len(log') = Len(log) - n
          /\ \A i \in 1..(Len(log) - n) : log'[i] = log[i + n]
          /\ DOMAIN log' = 1..(Len(log) - n)
    BY ExpireLog
  <1>2. Len(log) \in Nat /\ DOMAIN log = 1..Len(log)  BY LogEntries
  <1>3. Eligible(t)' = {i \in 1..(Len(log) - n) : log[i + n].time <= t}
    BY <1>1 DEF Eligible
  <1>4. CASE Eligible(t)' = {}
    <2>1. entry_as_of(t)' = 0  BY <1>4 DEF entry_as_of
    <2>. QED  BY <1>4, <2>1 DEF snapshot_as_of
  <1>5. CASE Eligible(t)' # {}
    <2>1. PICK k \in 1..(Len(log) - n) : log[k + n].time <= t  BY <1>3, <1>5
    <2>2. k + n \in Eligible(t)  BY <1>2, <2>1 DEF Eligible
    <2>. DEFINE e == entry_as_of(t)
    <2>3. IsLast(e, Eligible(t)) /\ e \in 1..Len(log)  BY <2>2, EntryIsLast
    <2>. HIDE DEF e
    <2>4. e >= k + n /\ log[e].time <= t  BY <2>2, <2>3 DEF IsLast, Eligible
    <2>5. e - n \in 1..(Len(log) - n) /\ (e - n) + n = e  BY <1>2, <2>3, <2>4
    <2>6. \A i \in Eligible(t)' : i <= e - n
      <3>. TAKE i \in Eligible(t)'
      <3>1. i \in 1..(Len(log) - n) /\ log[i + n].time <= t  BY <1>3
      <3>2. i + n \in Eligible(t)  BY <1>2, <3>1 DEF Eligible
      <3>3. i + n <= e  BY <2>3, <3>2 DEF IsLast
      <3>. QED  BY <1>2, <2>3, <3>1, <3>3
    <2>7. e - n \in Eligible(t)'  BY <1>3, <2>4, <2>5
    <2>8. IsLast(e - n, Eligible(t)')  BY <2>6, <2>7 DEF IsLast
    <2>9. (CHOOSE i \in 1..(Len(log) - n) : IsLast(i, Eligible(t)')) = e - n
      <3>1. Len(log) - n \in Nat /\ Eligible(t)' \subseteq 1..(Len(log) - n)
        BY <1>2, <1>3
      <3>. QED  BY <2>5, <2>8, <3>1, ChooseLast
    <2>10. entry_as_of(t)' = e - n  BY <1>1, <1>5, <2>9 DEF entry_as_of
    <2>11. log'[e - n] = log[e] /\ e - n # 0 /\ e # 0  BY <1>1, <2>3, <2>5
    <2>12. snapshot_as_of(t)' = log[e].id  BY <2>10, <2>11 DEF snapshot_as_of
    <2>13. snapshot_as_of(t) = log[e].id  BY <2>11 DEF snapshot_as_of, e
    <2>14. log[e].id # None
      <3>1. log[e].id \in Known  BY <1>2, <2>3, LogEntries
      <3>2. Known \subseteq 1..made /\ made \in Nat  BY Numbers DEF TypeOK
      <3>. QED  BY <3>1, <3>2 DEF None
    <2>. QED  BY <1>1, <2>5, <2>8, <2>12, <2>13, <2>14
  <1>. QED  BY <1>4, <1>5

\* Nothing that leaves the log alone changes what it answers.
LEMMA SameLog ==
    ASSUME log' = log, NEW t \in Times
    PROVE  /\ Eligible(t)' = Eligible(t)
           /\ entry_as_of(t)' = entry_as_of(t) /\ snapshot_as_of(t)' = snapshot_as_of(t)
  <1>1. Eligible(t)' = Eligible(t)  BY DEF Eligible
  <1>2. entry_as_of(t)' = entry_as_of(t)  BY <1>1 DEF entry_as_of
  <1>. QED  BY <1>1, <1>2 DEF snapshot_as_of

\* History is kept by a snapshot made current: what its entry does not
\* answer lies before its commit.
LEMMA BecomesCurrentKeeps ==
    ASSUME IInv, NEW s, NEW d \in Skews, BecomesCurrent(s, d), now' = now
    PROVE  LogHasLast' /\ WasNow' /\ LogInThePast' /\ (expired' = expired => AsOfIsHistory')
  <1>1. /\ current' = s /\ was' = [was EXCEPT ![now] = s]
        /\ skewed' = (skewed \/ d # 0)
    BY DEF BecomesCurrent
  <1>2. now \in Times /\ was \in [Times -> Ids \cup {None}] /\ now \in Int
        /\ skewed \in BOOLEAN
    BY DEF IInv, TypeOK, Times
  <1>3. /\ Len(log') = Len(log) + 1 /\ DOMAIN log' = 1..Len(log')
        /\ \A i \in 1..Len(log) : log'[i] = log[i]
        /\ log'[Len(log')] = [id |-> s, time |-> now + d]
    BY EntryAppended DEF IInv
  <1>4. Len(log) \in Nat /\ DOMAIN log = 1..Len(log)  BY LogEntries DEF IInv
  <1>5. LogHasLast'
    <2>. SUFFICES ASSUME NEW t \in Times, Eligible(t)' # {}
                  PROVE  \E i \in DOMAIN log' : IsLast(i, Eligible(t)')
      BY DEF LogHasLast
    <2>1. CASE now + d <= t
      <3>1. IsLast(Len(log'), Eligible(t)')  BY <2>1, AppendedEntry DEF IInv
      <3>. QED  BY <1>3, <1>4, <3>1
    <2>2. CASE ~(now + d <= t)
      <3>1. Eligible(t)' = Eligible(t)  BY <2>2, AppendedEntry DEF IInv
      <3>2. PICK i \in DOMAIN log : IsLast(i, Eligible(t))  BY <3>1 DEF IInv, LogHasLast
      <3>3. i \in DOMAIN log'  BY <1>3, <1>4, <3>2
      <3>. QED  BY <3>1, <3>2, <3>3
    <2>. QED  BY <2>1, <2>2
  <1>6. WasNow'  BY <1>1, <1>2 DEF WasNow
  <1>7. LogInThePast'
    <2>. SUFFICES ASSUME ~skewed', NEW i \in DOMAIN log' PROVE log'[i].time <= now
      BY now' = now DEF LogInThePast
    <2>1. ~skewed /\ d = 0  BY <1>1
    <2>2. CASE i = Len(log')
      <3>1. log'[i].time = now + d  BY <1>3, <2>2
      <3>. QED  BY <1>2, <2>1, <3>1
    <2>3. CASE i # Len(log')
      <3>1. i \in DOMAIN log  BY <1>3, <1>4, <2>3
      <3>2. log[i].time <= now  BY <2>1, <3>1 DEF IInv, LogInThePast
      <3>3. log'[i] = log[i]  BY <1>3, <1>4, <3>1
      <3>. QED  BY <3>2, <3>3
    <2>. QED  BY <2>2, <2>3
  <1>8. ASSUME expired' = expired PROVE AsOfIsHistory'
    <2>. SUFFICES ASSUME ~skewed', NEW t \in Times
                  PROVE  \/ snapshot_as_of(t)' = IF t < now THEN was'[t] ELSE current'
                         \/ expired /\ snapshot_as_of(t)' = None
      BY <1>8 DEF AsOfIsHistory
    <2>1. ~skewed /\ d = 0  BY <1>1
    <2>. t \in Int  BY Numbers DEF Times
    <2>2. CASE now <= t
      <3>1. now + d <= t /\ ~(t < now)  BY <1>2, <2>1, <2>2
      <3>2. snapshot_as_of(t)' = s  BY <3>1, AppendedEntry DEF IInv
      <3>. QED  BY <1>1, <3>1, <3>2
    <2>3. CASE ~(now <= t)
      <3>1. ~(now + d <= t) /\ t < now /\ t # now  BY <1>2, <2>1, <2>3
      <3>2. snapshot_as_of(t)' = snapshot_as_of(t)  BY <3>1, AppendedEntry DEF IInv
      <3>3. was'[t] = was[t]  BY <1>1, <1>2, <3>1
      <3>4. \/ snapshot_as_of(t) = IF t < now THEN was[t] ELSE current
            \/ expired /\ snapshot_as_of(t) = None
        BY <2>1 DEF IInv, AsOfIsHistory
      <3>. QED  BY <3>1, <3>2, <3>3, <3>4
    <2>. QED  BY <2>2, <2>3
  <1>. QED  BY <1>5, <1>6, <1>7, <1>8

LEMMA InvStep == IInv /\ [Next]_vars => IInv'
  <1>. SUFFICES ASSUME IInv, [Next]_vars PROVE IInv'  OBVIOUS
  <1>. USE DEF metadata, ghosts
  <1>0. TypeOK' /\ TypeOK  BY TypeStep DEF IInv
  <1>1. ASSUME NEW named \in {schema, NoSchema}, NEW d \in Skews, Commit(named, d)
        PROVE  IInv'
    BY <1>0, <1>1, BecomesCurrentKeeps DEF Commit, IInv
  <1>2. ASSUME NEW s \in Known, NEW d \in Skews, Rollback(s, d)
        PROVE  IInv'
    BY <1>0, <1>2, BecomesCurrentKeeps DEF Rollback, IInv
  <1>3. ASSUME UNCHANGED <<log, current, now, ghosts>>
        PROVE  IInv'
    <2>1. \A t \in Times : /\ Eligible(t)' = Eligible(t)
                           /\ snapshot_as_of(t)' = snapshot_as_of(t)
      BY <1>3, SameLog
    <2>2. LogHasLast'  BY <1>3, <2>1 DEF IInv, LogHasLast
    <2>3. WasNow' /\ LogInThePast'  BY <1>3 DEF IInv, WasNow, LogInThePast
    <2>4. AsOfIsHistory'  BY <1>3, <2>1 DEF IInv, AsOfIsHistory
    <2>. QED  BY <1>0, <2>2, <2>3, <2>4 DEF IInv
  <1>4. ASSUME NEW named \in {schema, NoSchema}, Branch(named)
        PROVE  IInv'
    BY <1>3, <1>4 DEF Branch
  <1>5. ASSUME NEW S \in Schemas, Alter(S)
        PROVE  IInv'
    BY <1>3, <1>5 DEF Alter
  <1>6. ASSUME NEW s \in Known, Expire(s)
        PROVE  IInv'
    <2>1. expired' = TRUE /\ UNCHANGED <<current, now, was, skewed>>
      BY <1>6 DEF Expire
    <2>2. \A t \in Times :
            \/ Eligible(t)' = {} /\ snapshot_as_of(t)' = None
            \/ /\ \E i \in DOMAIN log' : IsLast(i, Eligible(t)')
               /\ snapshot_as_of(t)' = snapshot_as_of(t)
               /\ snapshot_as_of(t) # None
      BY <1>6, ShortenedLog DEF IInv
    <2>3. LogHasLast'  BY <2>2 DEF LogHasLast
    <2>4. WasNow'  BY <2>1 DEF IInv, WasNow
    <2>5. LogInThePast'
      <3>1. PICK n \in 0..Len(log) :
              /\ \A i \in 1..(Len(log) - n) : log'[i] = log[i + n]
              /\ DOMAIN log' = 1..(Len(log) - n)
        BY <1>0, <1>6, ExpireLog
      <3>2. DOMAIN log = 1..Len(log) /\ Len(log) \in Nat  BY <1>0, LogEntries
      <3>3. \A i \in DOMAIN log' : i + n \in DOMAIN log  BY <3>1, <3>2
      <3>. QED  BY <2>1, <3>1, <3>3 DEF IInv, LogInThePast
    <2>6. AsOfIsHistory'
      <3>. SUFFICES ASSUME ~skewed', NEW t \in Times
                    PROVE  \/ snapshot_as_of(t)' = IF t < now THEN was[t] ELSE current
                           \/ snapshot_as_of(t)' = None
        BY <2>1 DEF AsOfIsHistory
      <3>. QED  BY <2>1, <2>2 DEF IInv, AsOfIsHistory
    <2>. QED  BY <1>0, <2>3, <2>4, <2>5, <2>6 DEF IInv
  <1>7. CASE Tick
    <2>1. /\ now' = now + 1 /\ now < MaxTime /\ was' = [was EXCEPT ![now'] = current]
          /\ log' = log /\ current' = current /\ skewed' = skewed /\ expired' = expired
      BY <1>7 DEF Tick
    <2>2. now' \in Times /\ now \in Nat /\ was \in [Times -> Ids \cup {None}]
      BY <1>0, <2>1, Numbers DEF TypeOK, Times
    <2>3. \A t \in Times : /\ Eligible(t)' = Eligible(t)
                           /\ snapshot_as_of(t)' = snapshot_as_of(t)
      BY <2>1, SameLog
    <2>4. LogHasLast'  BY <2>1, <2>3 DEF IInv, LogHasLast
    <2>5. WasNow'  BY <2>1, <2>2 DEF WasNow
    <2>6. LogInThePast'
      <3>1. \A i \in DOMAIN log : log[i].time \in Int  BY <1>0, LogEntries
      <3>. QED  BY <2>1, <2>2, <3>1 DEF IInv, LogInThePast
    <2>7. AsOfIsHistory'
      <3>. SUFFICES ASSUME ~skewed, NEW t \in Times
                    PROVE  \/ snapshot_as_of(t) = IF t < now' THEN was'[t] ELSE current
                           \/ expired /\ snapshot_as_of(t) = None
        BY <2>1, <2>3 DEF AsOfIsHistory
      <3>1. \/ snapshot_as_of(t) = IF t < now THEN was[t] ELSE current
            \/ expired /\ snapshot_as_of(t) = None
        BY DEF IInv, AsOfIsHistory
      <3>2. t < now' => was'[t] = was[t]  BY <2>1, <2>2 DEF Times
      <3>3. t < now' /\ ~(t < now) => t = now  BY <2>1, <2>2 DEF Times
      <3>4. was[now] = current  BY DEF IInv, WasNow
      <3>5. t < now => t < now'  BY <2>1, <2>2 DEF Times
      <3>. QED  BY <3>1, <3>2, <3>3, <3>4, <3>5
    <2>. QED  BY <1>0, <2>4, <2>5, <2>6, <2>7 DEF IInv
  <1>8. CASE UNCHANGED vars  BY <1>3, <1>8 DEF vars
  <1>. QED  BY <1>1, <1>2, <1>4, <1>5, <1>6, <1>7, <1>8 DEF Next

LEMMA InvInit == Init => IInv
  <1>. SUFFICES ASSUME Init PROVE IInv  OBVIOUS
  <1>1. log = <<>> /\ current = None /\ now = 0 /\ was = [t \in Times |-> None]
    BY DEF Init
  <1>2. DOMAIN log = {}  BY <1>1
  <1>3. \A t \in Times : Eligible(t) = {}  BY <1>2 DEF Eligible
  <1>4. \A t \in Times : snapshot_as_of(t) = None
    BY <1>3 DEF entry_as_of, snapshot_as_of
  <1>5. LogHasLast /\ LogInThePast  BY <1>2, <1>3 DEF LogHasLast, LogInThePast
  <1>6. WasNow  BY <1>1, Numbers DEF WasNow
  <1>7. AsOfIsHistory  BY <1>1, <1>4 DEF AsOfIsHistory
  <1>. QED  BY <1>5, <1>6, <1>7, InitTypes DEF IInv

\* The inductive invariant: types, the last entry of the log, and what was
\* current at each time.
THEOREM MetadataInvariant == Spec => []IInv
  <1>. QED  BY InvInit, InvStep, PTL DEF Spec

\* The table's metadata stays of its types under any engine's changes.
THEOREM MetadataTypes == Spec => []TypeOK
  <1>1. IInv => TypeOK  BY DEF IInv
  <1>. QED  BY <1>1, MetadataInvariant, PTL

\* With true clocks, as_of = t reads the table that was there at t, or is
\* refused because snapshots were expired.
THEOREM AsOfReadsHistory == Spec => []AsOfIsHistory
  <1>1. IInv => AsOfIsHistory  BY DEF IInv
  <1>. QED  BY <1>1, MetadataInvariant, PTL

\* With any clocks, a later time reads the same entry of the log or a later
\* one.
THEOREM AsOfNeverGoesBack == Spec => []AsOfMovesForward
  <1>1. IInv => AsOfMovesForward  BY EntryMovesForward DEF IInv
  <1>. QED  BY <1>1, MetadataInvariant, PTL

-----------------------------------------------------------------------------
(* Names.                                                                   *)

\* A scan that R builds is pinned to a snapshot that is listed, or to none.
LEMMA PinsAreKnown == IInv => \A s \in Pins : resolves(s)
  <1>. SUFFICES ASSUME IInv, NEW m \in Moments, ~moment_refused(m)
                PROVE  resolves(pinned(m))
    BY DEF Pins
  <1>1. CASE m.by = "nothing"  BY <1>1 DEF pinned, resolves
  <1>2. CASE m.by = "snapshot_id"  BY <1>2 DEF pinned, resolves, moment_refused
  <1>3. CASE m.by = "as_of"
    <2>1. m.value \in Times  BY <1>3 DEF Moments
    <2>2. snapshot_as_of(m.value) # None /\ pinned(m) = snapshot_as_of(m.value)
      BY <1>3 DEF moment_refused, pinned
    <2>3. entry_as_of(m.value) # 0  BY <2>2 DEF snapshot_as_of
    <2>4. entry_as_of(m.value) \in 1..Len(log)  BY <2>1, <2>3, EntryIsLast DEF IInv
    <2>5. log[entry_as_of(m.value)].id \in Known  BY <2>4, LogEntries DEF IInv
    <2>. QED  BY <2>2, <2>3, <2>5 DEF snapshot_as_of, resolves
  <1>4. m.by \in {"nothing", "snapshot_id", "as_of"}  BY DEF Moments
  <1>. QED  BY <1>1, <1>2, <1>3, <1>4

\* R and Rust resolve names against the same schema, which is the one
\* iceberg-rust plans with whenever it plans anything.
LEMMA OneSchemaPerScan ==
    ASSUME TypeOK, NEW s, resolves(s)
    PROVE  /\ table_columns(s) = DOMAIN read_schema(s)
           /\ ~PlansNothing(s) => PlanSchema(s) = read_schema(s)
  <1>1. current = None \/ current \in Known  BY DEF TypeOK
  <1>2. None \notin Known
    <2>1. Known \subseteq 1..made /\ made \in Nat  BY Numbers DEF TypeOK
    <2>. QED  BY <2>1 DEF None
  <1>. QED
    BY <1>1, <1>2 DEF table_columns, read_schema, schema_at, PlanSchema, PlansNothing, resolves

\* What a name is found to be is a column.
LEMMA IndexIsColumn ==
    ASSUME NEW n, NEW columns, NEW cs, NEW c \in column_index(n, columns, cs)
    PROVE  c \in columns /\ (c # n => alike(n, columns) = {c})
  BY DEF column_index, alike

LEMMA IndexOfExact ==
    ASSUME NEW n, NEW columns
    PROVE  n \in columns <=> column_index(n, columns, TRUE) # {}
  BY DEF column_index

LEMMA TypesGiveScansPlan == IInv => ScansPlan
  <1>. SUFFICES ASSUME IInv, NEW s \in Pins, ~PlansNothing(s)
                PROVE  /\ resolves(s)
                       /\ \A n \in Names :
                            n \in DOMAIN PlanSchema(s) <=> column_index(n, table_columns(s), TRUE) # {}
                       /\ \A select \in Selects, cs \in BOOLEAN :
                            \A picked \in selection(select, table_columns(s), cs) :
                              \A i \in DOMAIN picked : picked[i] \in DOMAIN PlanSchema(s)
    BY DEF ScansPlan
  <1>1. resolves(s)  BY PinsAreKnown
  <1>2. table_columns(s) = DOMAIN PlanSchema(s)  BY <1>1, OneSchemaPerScan DEF IInv
  <1>. DEFINE C == table_columns(s)
              D == DOMAIN PlanSchema(s)
  <1>. HIDE DEF C, D
  <1>3. C = D  BY <1>2 DEF C, D
  <1>4. \A n \in Names : n \in D <=> column_index(n, C, TRUE) # {}  BY <1>3, IndexOfExact
  <1>5. \A select \in Selects, cs \in BOOLEAN :
          \A picked \in selection(select, C, cs) : \A i \in DOMAIN picked : picked[i] \in D
    BY <1>3 DEF selection
  <1>. QED  BY <1>1, <1>4, <1>5 DEF C, D

LEMMA TypesGiveEmptyReadsAlike == IInv => EmptyReadsAlike
  <1>. SUFFICES ASSUME IInv, NEW s \in Pins, ~PlansNothing(s)
                PROVE  \A select : fallback_schema(select, s) = batch_schema(select, s)
    BY DEF EmptyReadsAlike
  <1>1. PlanSchema(s) = read_schema(s)  BY PinsAreKnown, OneSchemaPerScan DEF IInv
  <1>. QED  BY <1>1 DEF fallback_schema, batch_schema

LEMMA TypesGiveNamesMeanOneColumn == IInv => NamesMeanOneColumn
  <1>. SUFFICES ASSUME IInv, NEW s \in Pins, NEW n \in Names, NEW cs \in BOOLEAN,
                       NEW c \in column_index(n, table_columns(s), cs)
                PROVE  /\ c # n => \A k \in DOMAIN read_schema(s) : lower[k] = lower[n] => k = c
                       /\ reference(c, read_schema(s), cs) = {c}
                       /\ ~PlansNothing(s) => c \in DOMAIN PlanSchema(s)
    BY DEF NamesMeanOneColumn
  <1>1. /\ table_columns(s) = DOMAIN read_schema(s)
        /\ ~PlansNothing(s) => PlanSchema(s) = read_schema(s)
    BY PinsAreKnown, OneSchemaPerScan DEF IInv
  <1>. DEFINE C == DOMAIN read_schema(s)
  <1>. HIDE DEF C
  <1>2. c \in C /\ (c # n => alike(n, C) = {c})  BY <1>1, IndexIsColumn DEF C
  <1>3. c # n => \A k \in C : lower[k] = lower[n] => k = c  BY <1>2 DEF alike
  <1>4. reference(c, read_schema(s), cs) = {c}  BY <1>2 DEF reference, C
  <1>5. ~PlansNothing(s) => c \in DOMAIN PlanSchema(s)  BY <1>1, <1>2 DEF C
  <1>. QED  BY <1>3, <1>4, <1>5 DEF C

\* What is not a column on the value side is like no column either, when the
\* scan ignores case.
LEMMA ValueIsNoColumn ==
    ASSUME NEW n, NEW columns, NEW cs \in BOOLEAN, ~value_columns(n, columns, cs)
    PROVE  n \notin columns /\ (~cs => \A c \in columns : lower[c] # lower[n])
  BY DEF value_columns, alike

LEMMA TypesGiveNoVariableShadowsAColumn == IInv => NoVariableShadowsAColumn
  <1>. SUFFICES ASSUME IInv, NEW s \in Pins, NEW left \in Names, NEW right \in Names,
                       NEW cs \in BOOLEAN,
                       NEW made_of \in comparison(left, right, table_columns(s), cs)
                PROVE  /\ made_of.variable \notin DOMAIN read_schema(s)
                       /\ ~cs => \A c \in DOMAIN read_schema(s) :
                                   lower[c] # lower[made_of.variable]
    BY DEF NoVariableShadowsAColumn
  <1>1. table_columns(s) = DOMAIN read_schema(s)
    BY PinsAreKnown, OneSchemaPerScan DEF IInv
  <1>2. ~value_columns(made_of.variable, table_columns(s), cs)
    BY DEF comparison
  <1>. QED  BY <1>1, <1>2, ValueIsNoColumn

\* The scans that R builds are the ones that Rust resolves and iceberg-rust
\* plans, with columns that are there.
THEOREM ScansAreResolvedAlike == Spec => []ScansPlan
  <1>. QED  BY TypesGiveScansPlan, MetadataInvariant, PTL

\* A name is one column on both sides, whichever names differ by case only.
THEOREM NamesAreUnambiguous == Spec => []NamesMeanOneColumn
  <1>. QED  BY TypesGiveNamesMeanOneColumn, MetadataInvariant, PTL

\* No column of the snapshot is evaluated as a variable.
THEOREM VariablesAreNoColumns == Spec => []NoVariableShadowsAColumn
  <1>. QED  BY TypesGiveNoVariableShadowsAColumn, MetadataInvariant, PTL

\* An empty result is typed as a result with rows.
THEOREM EmptyReadsAreTyped == Spec => []EmptyReadsAlike
  <1>. QED  BY TypesGiveEmptyReadsAlike, MetadataInvariant, PTL
=============================================================================
