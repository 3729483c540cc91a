----------------------------- MODULE RegistryProofs -----------------------------
(***************************************************************************)
(* The safety of Registry, for any sessions, calls, engines and names.      *)
(*                                                                          *)
(* A call is new, runs, and ends once (Moves); while it runs it has made     *)
(* what is below the level it has come to (MadeFit), and what is below was  *)
(* there or was made, so that it can only be missing when it was dropped    *)
(* behind this walk's back (ParentsFit).  What the catalog holds is what was *)
(* made last (EntriesFit).                                                  *)
(***************************************************************************)
EXTENDS Registry, TLAPS, SequenceTheorems, WellFoundedInduction

-----------------------------------------------------------------------------
(* Names.                                                                   *)

\* A name as it is sent: no level of it is blank.
Path == Seq(Levels)

LEMMA PrefixOf ==
    ASSUME NEW p \in Path, NEW n \in 1..Len(p)
    PROVE  /\ Prefix(p, n) \in Path /\ Len(Prefix(p, n)) = n
           /\ Len(p) \in Nat
  BY DEF Path, Prefix

LEMMA PrefixIsAll ==
    ASSUME NEW p \in Path
    PROVE  Prefix(p, Len(p)) = p
  BY DEF Path, Prefix

LEMMA ParentOfPrefix ==
    ASSUME NEW p \in Path, NEW n \in 2..Len(p)
    PROVE  Parent(Prefix(p, n)) = Prefix(p, n - 1) /\ n - 1 \in 1..Len(p)
  <1>. DEFINE S == Levels
              q == Prefix(p, n)
  <1>1. p \in Seq(S) /\ q \in Seq(S) /\ Len(q) = n /\ \A i \in 1..n : q[i] = p[i]
    BY DEF Path, Prefix
  <1>2. /\ SubSeq(q, 1, n - 1) \in Seq(S) /\ Len(SubSeq(q, 1, n - 1)) = n - 1
        /\ \A i \in 1..(n - 1) : SubSeq(q, 1, n - 1)[i] = q[i]
    BY <1>1
  <1>3. /\ SubSeq(p, 1, n - 1) \in Seq(S) /\ Len(SubSeq(p, 1, n - 1)) = n - 1
        /\ \A i \in 1..(n - 1) : SubSeq(p, 1, n - 1)[i] = p[i]
    BY <1>1
  <1>4. \A i \in 1..(n - 1) : SubSeq(q, 1, n - 1)[i] = SubSeq(p, 1, n - 1)[i]
    BY <1>1, <1>2, <1>3
  <1>5. SubSeq(q, 1, n - 1) = SubSeq(p, 1, n - 1)
    <2>. HIDE DEF S, q
    <2>. QED  BY <1>2, <1>3, <1>4, SeqEqual
  <1>. QED  BY <1>1, <1>5 DEF Parent, Prefix

-----------------------------------------------------------------------------
(* What is left of a name when its blanks are dropped.                      *)

Less == {ss \in Nat \X Nat : ss[1] < ss[2]}

\* Some member of a set of natural numbers is the least.
LEMMA LeastOf ==
    ASSUME NEW S \in SUBSET Nat, S # {}
    PROVE  \E m \in S : \A k \in S : m <= k
  <1>1. Less = OpToRel(<, Nat)  BY Zenon DEF Less, OpToRel
  <1>2. IsWellFoundedOn(Less, Nat)
    BY <1>1, NatLessThanWellFounded
  <1>3. PICK m \in S : \A y \in S : ~ (<<y, m>> \in Less)
    BY <1>2, WFMin
  <1>4. \A y \in S : y \in Nat /\ m \in Nat /\ ~(y < m)  BY <1>3 DEF Less
  <1>. QED  BY <1>4

\* That f is the function without_blanks() is built from, up to level m.
Cuts(f, x, m) ==
    /\ f \in [0..m -> Path]
    /\ f[0] = <<>>
    /\ \A n \in 1..m :
          f[n] = IF named(x[n]) THEN Append(f[n - 1], x[n]) ELSE f[n - 1]

\* One more level can always be cut.
LEMMA CutOne ==
    ASSUME NEW x \in Seq(Levels \cup {Blank}), NEW m \in 1..Len(x), NEW f, Cuts(f, x, m - 1)
    PROVE  \E g : Cuts(g, x, m)
  <1>. DEFINE last == IF named(x[m]) THEN Append(f[m - 1], x[m]) ELSE f[m - 1]
              g == [n \in 0..m |-> IF n = m THEN last ELSE f[n]]
  <1>1. /\ m \in Nat /\ m - 1 \in Nat /\ m - 1 \in 0..(m - 1) /\ m # 0
        /\ \A n \in 0..m : n # m => n \in 0..(m - 1)
        /\ \A n \in 1..m : n - 1 \in 0..m /\ n - 1 # m /\ (n # m => n \in 1..(m - 1))
        /\ 0 \in 0..m /\ \A n \in 1..m : n \in 0..m
    OBVIOUS
  <1>2. x[m] \in Levels \cup {Blank}  OBVIOUS
  <1>3. f[m - 1] \in Path  BY <1>1 DEF Cuts
  <1>4. last \in Path
    <2>1. CASE named(x[m])
      <3>1. x[m] \in Levels  BY <2>1, <1>2 DEF named
      <3>. QED  BY <2>1, <3>1, <1>3 DEF Path
    <2>2. CASE ~named(x[m])  BY <2>2, <1>3
    <2>. QED  BY <2>1, <2>2
  <1>. HIDE DEF last
  <1>5. g \in [0..m -> Path]
    BY <1>1, <1>4 DEF Cuts
  <1>6. g[0] = <<>>
    BY <1>1 DEF Cuts
  <1>7. ASSUME NEW n \in 1..m
        PROVE  g[n] = IF named(x[n]) THEN Append(g[n - 1], x[n]) ELSE g[n - 1]
    <2>1. g[n - 1] = f[n - 1]  BY <1>1
    <2>2. CASE n = m
      <3>1. g[n] = last  BY <1>1, <2>2
      <3>. QED  BY <2>1, <2>2, <3>1 DEF last
    <2>3. CASE n # m
      <3>1. g[n] = f[n] /\ n \in 1..(m - 1)  BY <1>1, <2>3
      <3>. QED  BY <2>1, <3>1 DEF Cuts
    <2>. QED  BY <2>2, <2>3
  <1>. HIDE DEF g
  <1>. QED  BY <1>5, <1>6, <1>7 DEF Cuts

\* So that all of them can.
LEMMA CutAll ==
    ASSUME NEW x \in Seq(Levels \cup {Blank})
    PROVE  \E f : Cuts(f, x, Len(x))
  <1>. DEFINE Uncut == {m \in 0..Len(x) : ~ \E f : Cuts(f, x, m)}
  <1>. SUFFICES ASSUME ~ \E f : Cuts(f, x, Len(x)) PROVE FALSE  OBVIOUS
  <1>1. Len(x) \in Uncut
    <2>1. Len(x) \in 0..Len(x)  OBVIOUS
    <2>. QED  BY Zenon, <2>1
  <1>2. Uncut \in SUBSET Nat  OBVIOUS
  <1>. HIDE DEF Uncut
  <1>3. PICK m \in Uncut : \A k \in Uncut : m <= k  BY <1>1, <1>2, LeastOf
  <1>4. m \in 0..Len(x) /\ ~ \E f : Cuts(f, x, m)  BY <1>3 DEF Uncut
  <1>5. CASE m = 0
    <2>. DEFINE f == [n \in {0} |-> <<>>]
    <2>1. 0..0 = {0} /\ 1..0 = {} /\ <<>> \in Path  BY DEF Path
    <2>2. f \in [{0} -> Path] /\ f[0] = <<>>  BY <2>1
    <2>. HIDE DEF f
    <2>3. Cuts(f, x, 0)  BY <2>1, <2>2 DEF Cuts
    <2>. QED  BY <2>3, <1>4, <1>5
  <1>6. CASE m # 0
    <2>1. m \in 1..Len(x) /\ m - 1 \in 0..Len(x) /\ ~(m <= m - 1)  BY <1>4, <1>6
    <2>2. m - 1 \notin Uncut  BY <2>1, <1>3
    <2>3. PICK f : Cuts(f, x, m - 1)  BY <2>1, <2>2 DEF Uncut
    <2>. QED  BY <2>1, <2>3, <1>4, CutOne
  <1>. QED  BY <1>5, <1>6

\* Level by level, that which without_blanks() is built from.
Upto(f, x) ==
    /\ f[0] = <<>>
    /\ \A n \in 1..Len(x) :
          f[n] = IF named(x[n]) THEN Append(f[n - 1], x[n]) ELSE f[n - 1]

LEMMA BlanksCut ==
    ASSUME NEW x \in Seq(Levels \cup {Blank})
    PROVE  \E f : Upto(f, x) /\ without_blanks(x) = f[Len(x)]
  <1>. DEFINE upto[n \in 0..Len(x)] ==
                IF n = 0 THEN <<>>
                ELSE IF named(x[n]) THEN Append(upto[n - 1], x[n])
                ELSE upto[n - 1]
              Step(f) == [n \in 0..Len(x) |->
                            IF n = 0 THEN <<>>
                            ELSE IF named(x[n]) THEN Append(f[n - 1], x[n])
                            ELSE f[n - 1]]
  <1>1. PICK g : Cuts(g, x, Len(x))  BY CutAll
  <1>2. g = Step(g)
    <2>1. /\ g = [n \in 0..Len(x) |-> g[n]]
          /\ \A n \in 0..Len(x) : n # 0 => n \in 1..Len(x)
      BY <1>1 DEF Cuts
    <2>2. \A n \in 0..Len(x) : g[n] = Step(g)[n]
      BY <1>1, <2>1 DEF Cuts
    <2>. QED  BY <2>1, <2>2
  <1>3. upto = CHOOSE f : f = Step(f)  BY Zenon
  <1>4. upto = Step(upto)
    <2>. HIDE DEF Step, upto
    <2>. QED  BY <1>2, <1>3
  <1>5. without_blanks(x) = upto[Len(x)]  BY Zenon DEF without_blanks
  <1>. HIDE DEF upto
  <1>6. Upto(upto, x)
    <2>1. 0 \in 0..Len(x) /\ \A n \in 1..Len(x) : n \in 0..Len(x) /\ n # 0  OBVIOUS
    <2>. QED  BY <1>4, <2>1 DEF Upto
  <1>. QED  BY <1>5, <1>6

\* It is the levels it was given that have a name, and all of them if all do.
LEMMA UptoIsPath ==
    ASSUME NEW x \in Seq(Levels \cup {Blank}), NEW f, Upto(f, x), NEW m \in 0..Len(x)
    PROVE  /\ f[m] \in Path
           /\ x \in Seq(Levels) => f[m] = SubSeq(x, 1, m)
  <1>. DEFINE Fits(n) == f[n] \in Path /\ (x \in Seq(Levels) => f[n] = SubSeq(x, 1, n))
              Bad == {n \in 0..Len(x) : ~Fits(n)}
  <1>. SUFFICES ASSUME Bad # {} PROVE FALSE  OBVIOUS
  <1>1. Bad \in SUBSET Nat  OBVIOUS
  <1>. HIDE DEF Bad
  <1>2. PICK n \in Bad : \A k \in Bad : n <= k  BY <1>1, LeastOf
  <1>3. n \in 0..Len(x) /\ ~Fits(n)  BY <1>2 DEF Bad
  <1>4. CASE n = 0
    <2>1. f[0] = <<>> /\ <<>> \in Path /\ SubSeq(x, 1, 0) = <<>>  BY DEF Upto, Path
    <2>. QED  BY <2>1, <1>3, <1>4
  <1>5. CASE n # 0
    <2>1. n \in 1..Len(x) /\ n - 1 \in 0..Len(x) /\ ~(n <= n - 1)  BY <1>3, <1>5
    <2>2. Fits(n - 1)  BY <2>1, <1>2 DEF Bad
    <2>3. f[n] = IF named(x[n]) THEN Append(f[n - 1], x[n]) ELSE f[n - 1]
      BY <2>1 DEF Upto
    <2>4. x[n] \in Levels \cup {Blank}  BY <2>1
    <2>5. f[n] \in Path
      <3>1. CASE named(x[n])
        <4>1. x[n] \in Levels  BY <3>1, <2>4 DEF named
        <4>. QED  BY <4>1, <3>1, <2>2, <2>3 DEF Path
      <3>2. CASE ~named(x[n])  BY <3>2, <2>2, <2>3
      <3>. QED  BY <3>1, <3>2
    <2>6. ASSUME x \in Seq(Levels)
          PROVE  f[n] = SubSeq(x, 1, n)
      <3>1. x[n] \in Levels  BY <2>1, <2>6
      <3>2. named(x[n])  BY <3>1, NamesAssumption DEF named
      <3>3. f[n] = Append(SubSeq(x, 1, n - 1), x[n])  BY <2>2, <2>3, <2>6, <3>2
      <3>. QED  BY <2>1, <2>6, <3>3
    <2>. QED  BY <2>5, <2>6, <1>3
  <1>. QED  BY <1>4, <1>5

\* What a call makes of a name as it is written has no blank in it, and is the
\* name itself if that had none.
LEMMA WithoutBlanks ==
    ASSUME NEW x \in Seq(Levels \cup {Blank})
    PROVE  /\ without_blanks(x) \in Path
           /\ x \in Seq(Levels) => without_blanks(x) = x
  <1>1. PICK f : Upto(f, x) /\ without_blanks(x) = f[Len(x)]  BY BlanksCut
  <1>2. Len(x) \in 0..Len(x) /\ SubSeq(x, 1, Len(x)) = x  OBVIOUS
  <1>. QED  BY <1>1, <1>2, UptoIsPath

\* As it is read from what is written, so it is sent.
LEMMA NamesAreSent ==
    ASSUME NEW x \in Spellings
    PROVE  as_namespace(x) \in Path /\ parse_identifier(x).parts \in Path
  <1>1. x \in Seq(Levels \cup {Blank})  BY NamesAssumption
  <1>. QED  BY <1>1, WithoutBlanks DEF as_namespace, parse_identifier

-----------------------------------------------------------------------------
(* The inductive invariant.                                                 *)

Kinds == {"namespace", "table"}
Asked == [op : Operations, path : Path]
Entry == [kind : Kinds, path : Path, by : Calls \cup Engines]

CallTypes ==
    /\ at \in [Sessions -> Awaits \cup {"R"}] /\ call \in [Sessions -> Calls \cup {Nobody}]
    /\ asked \in [Calls -> Asked] /\ level \in [Calls -> Nat]
    /\ result \in [Calls -> Results] /\ there \in [Calls -> BOOLEAN]

CatalogTypes == created \subseteq Entry /\ late \subseteq Entry

\* A session that awaits is in a call of its own, which runs, and no other is.
SessionsFit ==
    /\ \A s \in Sessions : at[s] = "R" => call[s] = Nobody
    /\ \A s \in Sessions : at[s] # "R" => call[s] \in Calls /\ result[call[s]] = "running"
    /\ \A s, t \in Sessions : at[s] # "R" /\ at[t] # "R" /\ call[s] = call[t] => s = t

\* Which await belongs to which operation, and to which level of the name.
PhaseFits(op, await, n, len) ==
    /\ await \in {"check", "parent"} => op = "create_namespace" /\ n \in 1..(len - 1)
    /\ await = "leaf" => op = "create_namespace" /\ n = len /\ n > 0
    /\ await = "entry" => op \in {"create_table", "register_table"} /\ n = len /\ n > 1
    /\ await = "exists" => op = "table_exists" /\ n = len
    /\ await = "open" => op = "table" /\ n = len

PhasesFit ==
    \A s \in Sessions :
      at[s] # "R" =>
        PhaseFits(asked[call[s]].op, at[s], level[call[s]], Len(asked[call[s]].path))

LevelsFit == \A c \in Calls : level[c] <= Len(asked[c].path)

\* A call makes the levels of its name, or all of it.
Part(r, c, n) ==
    /\ Makes(c) /\ r.kind = Kind(c)
    /\ r.path = Prefix(asked[c].path, n)
    /\ Kind(c) = "table" => n = Len(asked[c].path)

Unfinished == {"running", "taken", "missing"}

Below(r, c) ==
    /\ result[c] \notin {"new", "invalid"}
    /\ \E n \in 1..Len(asked[c].path) :
         /\ Part(r, c, n)
         /\ result[c] \in Unfinished => n < level[c]

MadeFit == \A r \in created : r.by \in Calls => Below(r, r.by)

LateFit == \A r \in late : r.by \in Calls /\ result[r.by] = "broken" /\ Below(r, r.by)

\* The catalog holds what was made, and what was made or a later one is there
\* unless it was dropped.
EntriesFit ==
    /\ \A kind \in Kinds : \A p \in DOMAIN Entries(kind) :
         [kind |-> kind, path |-> p, by |-> Entries(kind)[p]] \in created
    /\ \A r \in created :
         \/ r.path \in DOMAIN Entries(r.kind) /\ Entries(r.kind)[r.path] = r.by
         \/ [kind |-> r.kind, path |-> r.path] \in dropped

ParentsFit ==
    \A s \in Sessions :
      at[s] \in {"check", "parent", "leaf"} =>
        \A n \in 1..(level[call[s]] - 1) :
          \/ Prefix(asked[call[s]].path, n) \in DOMAIN namespaces
          \/ Prefix(asked[call[s]].path, n) \in lost[call[s]]

AnswerFits(c) ==
    /\ result[c] = "ok" /\ Makes(c) => MadeBy(c, Kind(c), asked[c].path)
    /\ result[c] = "yes" => there[c]
    /\ result[c] = "no" => ~there[c]

AnswersFit == \A c \in Calls : AnswerFits(c)

CallsFit == CallTypes /\ SessionsFit /\ PhasesFit /\ LevelsFit

IInv ==
    /\ CallsFit /\ CatalogTypes
    /\ MadeFit /\ LateFit /\ EntriesFit /\ ParentsFit
    /\ AnswersFit /\ WalkRefusedByOthers

-----------------------------------------------------------------------------
(* How calls move.                                                          *)

Answers == {"ok", "yes", "no", "taken", "missing", "broken"}

\* What a step makes of call c: nothing, a beginning, or a step up or an end.
Moves(c) ==
    \/ /\ asked'[c] = asked[c] /\ level'[c] = level[c]
       /\ result'[c] = result[c] /\ there'[c] = there[c]
    \/ result[c] = "new" /\ result'[c] \in {"running", "invalid"}
    \/ /\ result[c] = "running" /\ result'[c] \in {"running"} \cup Answers
       /\ asked'[c] = asked[c] /\ level'[c] >= level[c]

LEMMA StartMoves ==
    ASSUME CallsFit, NEW s \in Sessions, NEW c \in Calls, NEW op \in Operations,
           NEW path \in Path, NEW await \in Awaits, NEW n \in 1..Len(path),
           PhaseFits(op, await, n, Len(path)), Start(s, c, op, path, await, n)
    PROVE  CallsFit' /\ (\A d \in Calls : Moves(d))
  <1>. DEFINE rec == [op |-> op, path |-> path]
  <1>1. /\ at[s] = "R" /\ result[c] = "new"
        /\ at' = [at EXCEPT ![s] = await] /\ call' = [call EXCEPT ![s] = c]
        /\ asked' = [asked EXCEPT ![c] = rec]
        /\ level' = [level EXCEPT ![c] = n]
        /\ result' = [result EXCEPT ![c] = "running"]
        /\ there' = there
    BY DEF Start
  <1>2. rec \in Asked /\ rec.op = op /\ rec.path = path /\ n \in Nat /\ Len(path) \in Nat
    BY DEF Asked, Path
  <1>. HIDE DEF rec
  <1>3. CallTypes'
    BY <1>1, <1>2 DEF CallsFit, CallTypes, Results
  <1>4. SessionsFit'
    <2>1. \A t \in Sessions : at'[t] = "R" => call'[t] = Nobody
      BY <1>1 DEF CallsFit, CallTypes, SessionsFit, Awaits
    <2>2. \A t \in Sessions : at'[t] # "R" => call'[t] \in Calls /\ result'[call'[t]] = "running"
      BY <1>1 DEF CallsFit, CallTypes, SessionsFit
    <2>3. \A t, u \in Sessions : at'[t] # "R" /\ at'[u] # "R" /\ call'[t] = call'[u] => t = u
      BY <1>1 DEF CallsFit, CallTypes, SessionsFit
    <2>. QED  BY <2>1, <2>2, <2>3 DEF SessionsFit
  <1>5. PhasesFit'
    <2>. SUFFICES ASSUME NEW t \in Sessions, at'[t] # "R"
                  PROVE  PhaseFits(asked'[call'[t]].op, at'[t], level'[call'[t]],
                                   Len(asked'[call'[t]].path))
      BY DEF PhasesFit, PhaseFits
    <2>1. CASE t = s  BY <1>1, <1>2, <2>1 DEF CallsFit, CallTypes
    <2>2. CASE t # s
      <3>1. at[t] # "R" /\ at'[t] = at[t] /\ call'[t] = call[t] /\ call[t] \in Calls /\ call[t] # c
        BY <1>1, <2>2 DEF CallsFit, CallTypes, SessionsFit
      <3>2. asked'[call[t]] = asked[call[t]] /\ level'[call[t]] = level[call[t]]
        BY <1>1, <3>1 DEF CallsFit, CallTypes
      <3>. QED  BY <3>1, <3>2 DEF CallsFit, PhasesFit
    <2>. QED  BY <2>1, <2>2
  <1>6. LevelsFit'
    BY <1>1, <1>2 DEF CallsFit, CallTypes, LevelsFit
  <1>7. \A d \in Calls : Moves(d)
    BY <1>1 DEF CallsFit, CallTypes, Moves
  <1>. QED  BY <1>3, <1>4, <1>5, <1>6, <1>7 DEF CallsFit

LEMMA RefusalMoves ==
    ASSUME CallsFit, NEW c \in Calls, result[c] = "new",
           result' = [result EXCEPT ![c] = "invalid"],
           UNCHANGED <<at, call, asked, level, there>>
    PROVE  CallsFit' /\ (\A d \in Calls : Moves(d))
  <1>1. CallTypes' /\ SessionsFit' /\ LevelsFit'
    BY DEF CallsFit, CallTypes, SessionsFit, LevelsFit, Results
  <1>2. PhasesFit'
    BY DEF CallsFit, PhasesFit
  <1>3. \A d \in Calls : Moves(d)
    BY DEF CallsFit, CallTypes, Moves
  <1>. QED  BY <1>1, <1>2, <1>3 DEF CallsFit

LEMMA FinishMoves ==
    ASSUME CallsFit, NEW s \in Sessions, at[s] # "R", NEW answer \in Answers, Finish(s, answer)
    PROVE  CallsFit' /\ (\A d \in Calls : Moves(d))
  <1>. DEFINE c == call[s]
              now == asked[c].path \in DOMAIN tables
  <1>1. /\ at' = [at EXCEPT ![s] = "R"] /\ call' = [call EXCEPT ![s] = Nobody]
        /\ result' = [result EXCEPT ![c] = answer]
        /\ there' = [there EXCEPT ![c] = now]
        /\ asked' = asked /\ level' = level
    BY DEF Finish
  <1>2. c \in Calls /\ result[c] = "running" /\ now \in BOOLEAN
    BY DEF CallsFit, SessionsFit
  <1>. HIDE DEF now
  <1>3. CallTypes'
    BY <1>1, <1>2 DEF CallsFit, CallTypes, Results, Answers
  <1>4. SessionsFit'
    BY <1>1, <1>2 DEF CallsFit, CallTypes, SessionsFit
  <1>5. PhasesFit' /\ LevelsFit'
    BY <1>1, <1>2 DEF CallsFit, CallTypes, PhasesFit, LevelsFit
  <1>6. \A d \in Calls : Moves(d)
    BY <1>1, <1>2 DEF CallsFit, CallTypes, Moves
  <1>. QED  BY <1>3, <1>4, <1>5, <1>6 DEF CallsFit

\* The walk takes the levels one by one.
LEMMA WalkStep ==
    ASSUME NEW p \in Path, NEW n \in 1..Len(p)
    PROVE  /\ Walk(p, n).level = n
           /\ Walk(p, n).await = IF n < Len(p) THEN "check" ELSE "leaf"
  <1>1. Len(p) \in Nat  BY DEF Path
  <1>2. CASE n <= Len(p) - 1  BY <1>1, <1>2 DEF Walk, parents
  <1>3. CASE ~(n <= Len(p) - 1)
    <2>1. n = Len(p)  BY <1>1, <1>3
    <2>. QED  BY <1>1, <1>3, <2>1 DEF Walk, parents
  <1>. QED  BY <1>2, <1>3

\* What a session asks for is a part of what its call was asked for.
LEMMA RequestIsPart ==
    ASSUME CallsFit, NEW s \in Sessions, at[s] \in {"check", "parent", "leaf", "entry"}
    PROVE  /\ call[s] \in Calls /\ result[call[s]] = "running"
           /\ level[call[s]] \in 1..Len(asked[call[s]].path)
           /\ Part(Request(s), call[s], level[call[s]])
           /\ Request(s) \in Entry /\ Request(s).by = call[s]
           /\ asked[call[s]].path \in Path
           /\ at[s] # "entry" => asked[call[s]].op = "create_namespace"
           /\ at[s] \in {"check", "parent"} => level[call[s]] < Len(asked[call[s]].path)
           /\ at[s] \in {"leaf", "entry"} => level[call[s]] = Len(asked[call[s]].path)
  <1>. DEFINE c == call[s]
              p == asked[c].path
              n == level[c]
  <1>1. c \in Calls /\ result[c] = "running"
    BY DEF CallsFit, SessionsFit
  <1>2. p \in Path /\ Len(p) \in Nat /\ n \in Nat /\ asked[c].op \in Operations
    BY <1>1 DEF CallsFit, CallTypes, Asked, Path
  <1>3. PhaseFits(asked[c].op, at[s], n, Len(p))
    BY DEF CallsFit, PhasesFit
  <1>4. /\ at[s] # "entry" => asked[c].op = "create_namespace"
        /\ at[s] = "entry" => asked[c].op \in {"create_table", "register_table"}
        /\ at[s] \in {"check", "parent"} => n \in 1..(Len(p) - 1)
        /\ at[s] \in {"leaf", "entry"} => n = Len(p) /\ n > 0
    BY <1>2, <1>3 DEF PhaseFits
  <1>5. n \in 1..Len(p)
    BY <1>2, <1>4
  <1>6. Prefix(p, n) \in Path
    BY <1>2, <1>5, PrefixOf
  <1>7. Request(s) \in Entry /\ Request(s).by = c /\ Request(s).path = Prefix(p, n)
        /\ Request(s).kind = IF at[s] = "entry" THEN "table" ELSE "namespace"
    BY <1>1, <1>6 DEF Request, Entry, Kinds
  <1>8. Part(Request(s), c, n)
    BY <1>4, <1>7 DEF Part, Makes, Kind
  <1>. QED  BY <1>1, <1>2, <1>4, <1>5, <1>7, <1>8

LEMMA ParentMoves ==
    ASSUME CallsFit, NEW s \in Sessions, at[s] \in {"check", "parent"}, NextParent(s)
    PROVE  /\ CallsFit' /\ (\A d \in Calls : Moves(d))
           /\ call' = call /\ asked' = asked /\ result' = result
           /\ level'[call[s]] = level[call[s]] + 1
           /\ \A t \in Sessions \ {s} : at'[t] = at[t]
           /\ \A d \in Calls \ {call[s]} : level'[d] = level[d]
  <1>. DEFINE c == call[s]
              p == asked[c].path
              n == level[c]
              w == Walk(p, n + 1)
  <1>1. /\ c \in Calls /\ result[c] = "running" /\ p \in Path /\ Len(p) \in Nat
        /\ n \in 1..Len(p) /\ n < Len(p) /\ asked[c].op = "create_namespace"
    BY RequestIsPart DEF Path
  <1>2. n + 1 \in 1..Len(p)  BY <1>1
  <1>3. w.level = n + 1 /\ w.await = IF n + 1 < Len(p) THEN "check" ELSE "leaf"
    BY <1>1, <1>2, WalkStep
  <1>4. /\ at' = [at EXCEPT ![s] = w.await] /\ level' = [level EXCEPT ![c] = w.level]
        /\ UNCHANGED <<call, asked, result, there>>
    BY DEF NextParent
  <1>. HIDE DEF w
  <1>5. CallTypes'
    BY <1>1, <1>3, <1>4 DEF CallsFit, CallTypes, Awaits
  <1>6. SessionsFit'
    BY <1>1, <1>3, <1>4 DEF CallsFit, CallTypes, SessionsFit
  <1>7. PhasesFit'
    <2>. SUFFICES ASSUME NEW t \in Sessions, at'[t] # "R"
                  PROVE  PhaseFits(asked[call[t]].op, at'[t], level'[call[t]], Len(asked[call[t]].path))
      BY <1>4 DEF PhasesFit, PhaseFits
    <2>1. CASE t = s
      <3>1. at'[s] = w.await /\ level'[c] = n + 1
        BY <1>1, <1>3, <1>4 DEF CallsFit, CallTypes
      <3>. QED  BY <1>1, <1>2, <1>3, <2>1, <3>1 DEF PhaseFits
    <2>2. CASE t # s
      <3>1. at[t] # "R" /\ at'[t] = at[t] /\ call[t] \in Calls /\ call[t] # c
        BY <1>4, <2>2 DEF CallsFit, CallTypes, SessionsFit
      <3>2. level'[call[t]] = level[call[t]]
        BY <1>4, <3>1 DEF CallsFit, CallTypes
      <3>. QED  BY <3>1, <3>2 DEF CallsFit, PhasesFit
    <2>. QED  BY <2>1, <2>2
  <1>8. LevelsFit'
    BY <1>1, <1>2, <1>3, <1>4 DEF CallsFit, CallTypes, LevelsFit
  <1>9. \A d \in Calls : Moves(d)
    <2>. SUFFICES ASSUME NEW d \in Calls PROVE Moves(d)  OBVIOUS
    <2>1. CASE d = c
      <3>1. level'[c] = n + 1  BY <1>1, <1>3, <1>4 DEF CallsFit, CallTypes
      <3>. QED  BY <1>1, <1>4, <2>1, <3>1 DEF Moves
    <2>2. CASE d # c
      BY <1>4, <2>2 DEF CallsFit, CallTypes, Moves
    <2>. QED  BY <2>1, <2>2
  <1>. QED
    BY <1>1, <1>3, <1>4, <1>5, <1>6, <1>7, <1>8, <1>9 DEF CallsFit, CallTypes

LEMMA MissingMoves ==
    ASSUME CallsFit, NEW s \in Sessions, ParentMissing(s)
    PROVE  CallsFit' /\ (\A d \in Calls : Moves(d))
  <1>1. at[s] = "check" /\ at' = [at EXCEPT ![s] = "parent"]
        /\ UNCHANGED <<call, asked, level, result, there>>
    BY DEF ParentMissing
  <1>2. CallTypes' /\ SessionsFit' /\ LevelsFit'
    BY <1>1 DEF CallsFit, CallTypes, SessionsFit, LevelsFit, Awaits
  <1>3. PhasesFit'
    BY <1>1 DEF CallsFit, CallTypes, PhasesFit, PhaseFits
  <1>. QED  BY <1>1, <1>2, <1>3 DEF CallsFit, Moves

-----------------------------------------------------------------------------
(* How the catalog moves.                                                   *)

\* What was made and dropped stays so, and every walk that is past a namespace
\* which the catalog loses has lost it.
Grows ==
    /\ created \subseteq created' /\ dropped \subseteq dropped'
    /\ \A c \in Calls : lost[c] \subseteq lost'[c]
    /\ \A p \in DOMAIN namespaces :
         \/ p \in DOMAIN namespaces'
         \/ \A c \in Calls : p \in Past(c) => p \in lost'[c]

LEMMA EnterGrows ==
    ASSUME CatalogTypes, EntriesFit, NEW r \in Entry, Accepts(r), Enter(r)
    PROVE  Grows /\ EntriesFit' /\ created' \subseteq Entry /\ created' = created \cup {r}
  <1>. DEFINE E(k) == Entries(k)
  <1>1. /\ created' = created \cup {r} /\ dropped' = dropped /\ lost' = lost
        /\ r.path \notin DOMAIN Entries(r.kind) /\ r.kind \in Kinds
    BY DEF Enter, Accepts, Taken, Entry
  <1>2. /\ DOMAIN Entries(r.kind)' = DOMAIN Entries(r.kind) \cup {r.path}
        /\ Entries(r.kind)'[r.path] = r.by
        /\ \A p \in DOMAIN Entries(r.kind) : Entries(r.kind)'[p] = Entries(r.kind)[p]
    BY <1>1 DEF Entries, Enter, Entered, Kinds
  <1>3. \A k \in Kinds \ {r.kind} : Entries(k)' = Entries(k)
    BY <1>1 DEF Entries, Enter, Kinds
  <1>4. \A k \in Kinds : \A p \in DOMAIN Entries(k)' :
          [kind |-> k, path |-> p, by |-> Entries(k)'[p]] \in created'
    <2>. SUFFICES ASSUME NEW k \in Kinds, NEW p \in DOMAIN Entries(k)'
                  PROVE  [kind |-> k, path |-> p, by |-> Entries(k)'[p]] \in created'
      OBVIOUS
    <2>1. CASE k = r.kind /\ p = r.path
      <3>1. [kind |-> k, path |-> p, by |-> Entries(k)'[p]] = r
        BY <1>2, <2>1 DEF Entry
      <3>. QED  BY <1>1, <3>1
    <2>2. CASE k = r.kind /\ p # r.path
      BY <1>1, <1>2, <2>2 DEF EntriesFit
    <2>3. CASE k # r.kind
      BY <1>1, <1>3, <2>3 DEF EntriesFit
    <2>. QED  BY <2>1, <2>2, <2>3
  <1>5. \A q \in created' :
          \/ q.path \in DOMAIN Entries(q.kind)' /\ Entries(q.kind)'[q.path] = q.by
          \/ [kind |-> q.kind, path |-> q.path] \in dropped'
    <2>. SUFFICES ASSUME NEW q \in created',
                         [kind |-> q.kind, path |-> q.path] \notin dropped'
                  PROVE  q.path \in DOMAIN Entries(q.kind)' /\ Entries(q.kind)'[q.path] = q.by
      OBVIOUS
    <2>1. CASE q = r  BY <1>2, <2>1
    <2>2. CASE q # r
      <3>1. /\ q \in created /\ q.kind \in Kinds
            /\ q.path \in DOMAIN Entries(q.kind) /\ Entries(q.kind)[q.path] = q.by
        BY <1>1, <2>2 DEF EntriesFit, CatalogTypes, Entry
      <3>. QED  BY <1>2, <1>3, <3>1
    <2>. QED  BY <2>1, <2>2
  <1>6. EntriesFit'
    BY <1>4, <1>5 DEF EntriesFit, Entries
  <1>7. DOMAIN namespaces \subseteq DOMAIN namespaces'
    BY DEF Enter, Entered
  <1>. QED  BY <1>1, <1>6, <1>7 DEF Grows, CatalogTypes

LEMMA DropGrows ==
    ASSUME CatalogTypes, EntriesFit, NEW kind \in Kinds, NEW path, EngineDrops(kind, path)
    PROVE  Grows /\ EntriesFit' /\ created' = created
  <1>1. /\ created' = created /\ dropped' = dropped \cup {[kind |-> kind, path |-> path]}
        /\ namespaces' = [p \in DOMAIN namespaces \ {q \in {path} : kind = "namespace"} |-> namespaces[p]]
        /\ tables' = [p \in DOMAIN tables \ {q \in {path} : kind = "table"} |-> tables[p]]
        /\ lost' = [c \in Calls |-> lost[c] \cup {q \in {path} \cap Past(c) : kind = "namespace"}]
    BY DEF EngineDrops
  <1>2. \A k \in Kinds :
          /\ DOMAIN Entries(k)' \subseteq DOMAIN Entries(k)
          /\ \A p \in DOMAIN Entries(k)' : Entries(k)'[p] = Entries(k)[p]
          /\ \A p \in DOMAIN Entries(k) : p \notin DOMAIN Entries(k)' => k = kind /\ p = path
    BY <1>1 DEF Entries, Kinds
  <1>3. \A k \in Kinds : \A p \in DOMAIN Entries(k)' :
          [kind |-> k, path |-> p, by |-> Entries(k)'[p]] \in created'
    BY <1>1, <1>2 DEF EntriesFit
  <1>4. \A q \in created' :
          \/ q.path \in DOMAIN Entries(q.kind)' /\ Entries(q.kind)'[q.path] = q.by
          \/ [kind |-> q.kind, path |-> q.path] \in dropped'
    <2>. SUFFICES ASSUME NEW q \in created,
                         [kind |-> q.kind, path |-> q.path] \notin dropped'
                  PROVE  q.path \in DOMAIN Entries(q.kind)' /\ Entries(q.kind)'[q.path] = q.by
      BY <1>1
    <2>1. /\ q.kind \in Kinds
          /\ q.path \in DOMAIN Entries(q.kind) /\ Entries(q.kind)[q.path] = q.by
      BY <1>1 DEF EntriesFit, CatalogTypes, Entry
    <2>2. ~(q.kind = kind /\ q.path = path)
      BY <1>1
    <2>. QED  BY <1>2, <2>1, <2>2
  <1>5. EntriesFit'
    BY <1>3, <1>4 DEF EntriesFit, Entries
  <1>6. \A c \in Calls : lost[c] \subseteq lost'[c]
    BY <1>1
  <1>7. ASSUME NEW p \in DOMAIN namespaces, p \notin DOMAIN namespaces', NEW c \in Calls, p \in Past(c)
        PROVE  p \in lost'[c]
    <2>1. kind = "namespace" /\ p = path
      BY <1>1, <1>7
    <2>. QED  BY <1>1, <1>7, <2>1
  <1>. QED  BY <1>1, <1>5, <1>6, <1>7 DEF Grows

-----------------------------------------------------------------------------
(* What a step adds.                                                        *)

Walking == {"check", "parent", "leaf"}

\* A session on its way stays, begins, or leaves a level that is there.
Climbs(s) ==
    at'[s] \in Walking =>
      \/ level'[call'[s]] = 1
      \/ /\ at[s] \in Walking /\ call'[s] = call[s]
         /\ asked'[call[s]] = asked[call[s]]
         /\ \/ level'[call[s]] = level[call[s]]
            \/ /\ level'[call[s]] = level[call[s]] + 1
               /\ Prefix(asked[call[s]].path, level[call[s]]) \in DOMAIN namespaces'

RefusalFits(c) ==
    asked[c].op = "create_namespace" =>
      LET came == Prefix(asked[c].path, level[c])
      IN  /\ result[c] = "taken" => \E r \in created : r.kind = "namespace" /\ r.path = came /\ r.by # c
          /\ result[c] = "missing" => Parent(came) \in lost[c]

NewMade == \A r \in created' \ created : r.by \in Calls => Below(r, r.by)'
NewLate == \A r \in late' \ late : r.by \in Calls /\ result'[r.by] = "broken" /\ Below(r, r.by)'
NewAnswers == \A c \in Calls : result'[c] # result[c] => AnswerFits(c)' /\ RefusalFits(c)'

StepFits ==
    /\ CallsFit' /\ (\A c \in Calls : Moves(c))
    /\ Grows /\ EntriesFit' /\ CatalogTypes'
    /\ NewMade /\ NewLate /\ NewAnswers
    /\ \A s \in Sessions : Climbs(s)

LEMMA BelowStays ==
    ASSUME CallsFit, CallsFit', NEW c \in Calls, Moves(c), NEW r, Below(r, c)
    PROVE  Below(r, c)'
  <1>1. result[c] \notin {"new", "invalid"}
    BY DEF Below
  <1>2. PICK n \in 1..Len(asked[c].path) : Part(r, c, n) /\ (result[c] \in Unfinished => n < level[c])
    BY DEF Below
  <1>3. asked'[c] = asked[c] /\ level'[c] >= level[c] /\ level[c] \in Nat
    BY <1>1 DEF Moves, CallsFit, CallTypes
  <1>4. result'[c] \notin {"new", "invalid"} /\ (result'[c] \in Unfinished => result[c] \in Unfinished)
    BY <1>1 DEF Moves, Answers, Unfinished
  <1>5. Part(r, c, n)'
    BY <1>2, <1>3 DEF Part, Makes, Kind
  <1>6. Len(asked[c].path) \in Nat /\ level'[c] >= level[c]
    BY <1>3 DEF CallsFit, CallTypes, Asked, Path
  <1>7. result'[c] \in Unfinished => n < level'[c]
    <2>1. level[c] \in Nat /\ level'[c] \in Nat /\ n \in Nat
      BY <1>6 DEF CallsFit, CallTypes
    <2>. QED  BY <1>2, <1>3, <1>4, <2>1
  <1>. QED  BY <1>3, <1>4, <1>5, <1>7 DEF Below

LEMMA MadeStays ==
    ASSUME IInv, StepFits
    PROVE  MadeFit' /\ LateFit'
  <1>1. MadeFit'
    <2>. SUFFICES ASSUME NEW r \in created', r.by \in Calls PROVE Below(r, r.by)'
      BY DEF MadeFit
    <2>1. CASE r \in created
      <3>1. Below(r, r.by)  BY <2>1 DEF IInv, MadeFit
      <3>. QED  BY <3>1, BelowStays DEF IInv, StepFits
    <2>2. CASE r \notin created
      BY <2>2 DEF StepFits, NewMade
    <2>. QED  BY <2>1, <2>2
  <1>2. LateFit'
    <2>. SUFFICES ASSUME NEW r \in late'
                  PROVE  r.by \in Calls /\ result'[r.by] = "broken" /\ Below(r, r.by)'
      BY DEF LateFit
    <2>1. CASE r \in late
      <3>1. r.by \in Calls /\ result[r.by] = "broken" /\ Below(r, r.by)
        BY <2>1 DEF IInv, LateFit
      <3>2. result'[r.by] = "broken"
        BY <3>1 DEF StepFits, Moves
      <3>. QED  BY <3>1, <3>2, BelowStays DEF IInv, StepFits
    <2>2. CASE r \notin late
      BY <2>2 DEF StepFits, NewLate
    <2>. QED  BY <2>1, <2>2
  <1>. QED  BY <1>1, <1>2

LEMMA ParentsStay ==
    ASSUME IInv, StepFits
    PROVE  ParentsFit'
  <1>. SUFFICES ASSUME NEW s \in Sessions, at'[s] \in Walking, NEW n \in 1..(level'[call'[s]] - 1)
                PROVE  \/ Prefix(asked'[call'[s]].path, n) \in DOMAIN namespaces'
                       \/ Prefix(asked'[call'[s]].path, n) \in lost'[call'[s]]
    BY DEF ParentsFit, Walking
  <1>1. level'[call'[s]] # 1
    OBVIOUS
  <1>2. /\ at[s] \in Walking /\ call'[s] = call[s]
        /\ asked'[call[s]] = asked[call[s]]
        /\ \/ level'[call[s]] = level[call[s]]
           \/ /\ level'[call[s]] = level[call[s]] + 1
              /\ Prefix(asked[call[s]].path, level[call[s]]) \in DOMAIN namespaces'
    BY <1>1 DEF StepFits, Climbs
  <1>3. level[call[s]] \in Nat
    BY <1>2 DEF IInv, CallsFit, CallTypes, SessionsFit, Walking
  <1>4. CASE n \in 1..(level[call[s]] - 1)
    <2>1. \/ Prefix(asked[call[s]].path, n) \in DOMAIN namespaces
          \/ Prefix(asked[call[s]].path, n) \in lost[call[s]]
      BY <1>2, <1>4 DEF IInv, ParentsFit, Walking
    <2>2. call[s] \in Calls /\ result[call[s]] = "running"
      BY <1>2 DEF IInv, CallsFit, SessionsFit, Walking
    <2>3. asked[call[s]].op = "create_namespace"
      BY <1>2 DEF IInv, CallsFit, PhasesFit, PhaseFits, Walking
    <2>4. Prefix(asked[call[s]].path, n) \in Past(call[s])
      BY <1>4, <2>2, <2>3 DEF Past
    <2>. QED  BY <1>2, <2>1, <2>2, <2>4 DEF StepFits, Grows
  <1>5. CASE n \notin 1..(level[call[s]] - 1)
    <2>1. /\ n = level[call[s]]
          /\ Prefix(asked[call[s]].path, level[call[s]]) \in DOMAIN namespaces'
      BY <1>2, <1>3, <1>5
    <2>. QED  BY <1>2, <2>1
  <1>. QED  BY <1>4, <1>5

LEMMA AnswersStay ==
    ASSUME IInv, StepFits
    PROVE  AnswersFit' /\ WalkRefusedByOthers'
  <1>1. \A c \in Calls : AnswerFits(c) /\ RefusalFits(c)
    BY DEF IInv, AnswersFit, WalkRefusedByOthers, RefusalFits
  <1>2. ASSUME NEW c \in Calls PROVE AnswerFits(c)' /\ RefusalFits(c)'
    <2>1. CASE result'[c] # result[c]
      BY <2>1 DEF StepFits, NewAnswers
    <2>2. CASE result'[c] = result[c]
      <3>1. CASE result[c] \in {"new", "running"}
        BY <2>2, <3>1 DEF AnswerFits, RefusalFits
      <3>2. CASE result[c] \notin {"new", "running"}
        <4>1. asked'[c] = asked[c] /\ level'[c] = level[c] /\ there'[c] = there[c]
          BY <3>2 DEF StepFits, Moves
        <4>2. created \subseteq created' /\ dropped \subseteq dropped' /\ lost[c] \subseteq lost'[c]
          BY DEF StepFits, Grows
        <4>3. AnswerFits(c)'
          BY <1>1, <2>2, <4>1, <4>2 DEF AnswerFits, Makes, Kind, MadeBy
        <4>4. RefusalFits(c)'
          BY <1>1, <2>2, <4>1, <4>2 DEF RefusalFits
        <4>. QED  BY <4>3, <4>4
      <3>. QED  BY <3>1, <3>2
    <2>. QED  BY <2>1, <2>2
  <1>3. AnswersFit'
    BY <1>2 DEF AnswersFit
  <1>4. WalkRefusedByOthers'
    BY <1>2 DEF WalkRefusedByOthers, RefusalFits
  <1>. QED  BY <1>3, <1>4

LEMMA StepStays ==
    ASSUME IInv, StepFits
    PROVE  IInv'
  BY MadeStays, ParentsStay, AnswersStay DEF IInv, StepFits

-----------------------------------------------------------------------------
(* The steps, by what they do to the calls.                                 *)

\* A session that is left alone goes on as it was.
LEMMA OthersClimb ==
    ASSUME CallsFit, NEW t \in Sessions, at'[t] = at[t], call'[t] = call[t],
           \A d \in Calls : Moves(d),
           at[t] # "R" => level'[call[t]] = level[call[t]]
    PROVE  Climbs(t)
  <1>. SUFFICES ASSUME at[t] \in Walking PROVE Climbs(t)
    BY DEF Climbs
  <1>1. call[t] \in Calls /\ result[call[t]] = "running" /\ at[t] # "R"
    BY DEF CallsFit, SessionsFit, Walking
  <1>2. asked'[call[t]] = asked[call[t]]
    BY <1>1 DEF Moves
  <1>. QED  BY <1>1, <1>2 DEF Climbs

\* The catalog is left alone.
LEMMA SameCatalog ==
    ASSUME IInv, UNCHANGED <<catalog, late>>
    PROVE  Grows /\ EntriesFit' /\ CatalogTypes' /\ NewMade /\ NewLate
  <1>1. namespaces' = namespaces /\ tables' = tables /\ created' = created /\ dropped' = dropped
        /\ lost' = lost /\ late' = late
    BY DEF catalog
  <1>2. Grows /\ CatalogTypes' /\ NewMade /\ NewLate
    BY <1>1 DEF IInv, Grows, CatalogTypes, NewMade, NewLate
  <1>3. EntriesFit'
    BY <1>1 DEF IInv, EntriesFit, Entries
  <1>. QED  BY <1>2, <1>3

LEMMA StartFits ==
    ASSUME IInv, NEW s \in Sessions, NEW c \in Calls, NEW op \in Operations,
           NEW path \in Path, NEW await \in Awaits, NEW n \in 1..Len(path),
           PhaseFits(op, await, n, Len(path)), await \in Walking => n = 1,
           Start(s, c, op, path, await, n)
    PROVE  StepFits
  <1>1. CallsFit' /\ (\A d \in Calls : Moves(d))
    BY StartMoves DEF IInv
  <1>2. Grows /\ EntriesFit' /\ CatalogTypes' /\ NewMade /\ NewLate
    BY SameCatalog DEF Start
  <1>3. /\ result[c] = "new" /\ at' = [at EXCEPT ![s] = await] /\ call' = [call EXCEPT ![s] = c]
        /\ level' = [level EXCEPT ![c] = n]
        /\ result' = [result EXCEPT ![c] = "running"]
    BY DEF Start
  <1>4. \A t \in Sessions : Climbs(t)
    <2>. SUFFICES ASSUME NEW t \in Sessions PROVE Climbs(t)  OBVIOUS
    <2>1. CASE t = s
      BY <1>3, <2>1 DEF Climbs, IInv, CallsFit, CallTypes
    <2>2. CASE t # s
      <3>1. at'[t] = at[t] /\ call'[t] = call[t]
        BY <1>3, <2>2 DEF IInv, CallsFit, CallTypes
      <3>2. at[t] # "R" => level'[call[t]] = level[call[t]]
        BY <1>3 DEF IInv, CallsFit, CallTypes, SessionsFit
      <3>. QED  BY <1>1, <3>1, <3>2, OthersClimb DEF IInv
    <2>. QED  BY <2>1, <2>2
  <1>5. NewAnswers
    BY <1>3 DEF NewAnswers, AnswerFits, RefusalFits, IInv, CallsFit, CallTypes
  <1>. QED  BY <1>1, <1>2, <1>4, <1>5 DEF StepFits

LEMMA RefusalFit ==
    ASSUME IInv, NEW c \in Calls, result[c] = "new",
           result' = [result EXCEPT ![c] = "invalid"],
           UNCHANGED <<catalog, late, at, call, asked, level, there>>
    PROVE  StepFits
  <1>1. CallsFit' /\ (\A d \in Calls : Moves(d))
    BY RefusalMoves DEF IInv
  <1>2. Grows /\ EntriesFit' /\ CatalogTypes' /\ NewMade /\ NewLate
    BY SameCatalog
  <1>3. \A t \in Sessions : Climbs(t)
    BY <1>1, OthersClimb DEF IInv
  <1>4. NewAnswers
    BY DEF NewAnswers, AnswerFits, RefusalFits, IInv, CallsFit, CallTypes
  <1>. QED  BY <1>1, <1>2, <1>3, <1>4 DEF StepFits

LEMMA FinishFits ==
    ASSUME IInv, NEW s \in Sessions, at[s] # "R", NEW answer \in Answers, Finish(s, answer),
           Grows, EntriesFit', CatalogTypes', NewMade, NewLate,
           NEW c \in Calls, call[s] = c, AnswerFits(c)', RefusalFits(c)'
    PROVE  StepFits
  <1>1. CallsFit' /\ (\A d \in Calls : Moves(d))
    BY FinishMoves DEF IInv
  <1>2. /\ at' = [at EXCEPT ![s] = "R"] /\ call' = [call EXCEPT ![s] = Nobody]
        /\ result' = [result EXCEPT ![call[s]] = answer] /\ level' = level
    BY DEF Finish
  <1>3. \A t \in Sessions : Climbs(t)
    <2>. SUFFICES ASSUME NEW t \in Sessions PROVE Climbs(t)  OBVIOUS
    <2>1. CASE t = s
      BY <1>2, <2>1 DEF Climbs, Walking, IInv, CallsFit, CallTypes
    <2>2. CASE t # s
      <3>1. at'[t] = at[t] /\ call'[t] = call[t]
        BY <1>2, <2>2 DEF IInv, CallsFit, CallTypes
      <3>. QED  BY <1>1, <1>2, <3>1, OthersClimb DEF IInv
    <2>. QED  BY <2>1, <2>2
  <1>4. NewAnswers
    <2>. SUFFICES ASSUME NEW d \in Calls, result'[d] # result[d]
                  PROVE  AnswerFits(d)' /\ RefusalFits(d)'
      BY DEF NewAnswers
    <2>1. d = c  BY <1>2 DEF IInv, CallsFit, CallTypes
    <2>. QED  BY <2>1
  <1>. QED  BY <1>1, <1>3, <1>4 DEF StepFits

LEMMA CatalogFits ==
    ASSUME IInv, UNCHANGED calls,
           Grows, EntriesFit', CatalogTypes', NewMade, NewLate
    PROVE  StepFits
  <1>1. at' = at /\ call' = call /\ asked' = asked /\ level' = level /\ result' = result
        /\ there' = there
    BY DEF calls
  <1>2. CallTypes' /\ SessionsFit' /\ PhasesFit' /\ LevelsFit'
    BY <1>1 DEF IInv, CallsFit, CallTypes, SessionsFit, PhasesFit, PhaseFits, LevelsFit
  <1>3. \A d \in Calls : Moves(d)
    BY <1>1 DEF Moves
  <1>4. \A t \in Sessions : Climbs(t)
    BY <1>1, <1>3, OthersClimb DEF IInv
  <1>5. NewAnswers
    BY <1>1 DEF NewAnswers
  <1>. QED  BY <1>2, <1>3, <1>4, <1>5 DEF StepFits, CallsFit

-----------------------------------------------------------------------------
(* The steps, one by one.                                                   *)

LEMMA BeginNamespaceFits ==
    ASSUME IInv, NEW s \in Sessions, NEW c \in Calls, NEW x \in Spellings, BeginNamespace(s, c, x)
    PROVE  StepFits
  <1>. DEFINE path == as_namespace(x)
  <1>1. path \in Path /\ path # <<>>
    BY NamesAreSent DEF BeginNamespace
  <1>. HIDE DEF path
  <1>2. PICK n \in Nat : n = Len(path) /\ n > 0
    BY <1>1 DEF Path
  <1>3. Walk(path, 1).level = 1 /\ Walk(path, 1).await = IF 1 < n THEN "check" ELSE "leaf"
    BY <1>1, <1>2, WalkStep
  <1>4. Start(s, c, "create_namespace", path, Walk(path, 1).await, 1)
    BY <1>3 DEF BeginNamespace, path
  <1>5. PhaseFits("create_namespace", Walk(path, 1).await, 1, Len(path))
    <2>1. CASE 1 < n
      <3>1. PhaseFits("create_namespace", "check", 1, n)
        BY <2>1 DEF PhaseFits
      <3>. QED  BY <1>2, <1>3, <2>1, <3>1
    <2>2. CASE n = 1
      <3>1. PhaseFits("create_namespace", "leaf", 1, n)
        BY <2>2 DEF PhaseFits
      <3>. QED  BY <1>2, <1>3, <2>2, <3>1
    <2>. QED  BY <1>2, <2>1, <2>2
  <1>6. Walk(path, 1).await \in Awaits /\ "create_namespace" \in Operations /\ 1 \in 1..Len(path)
    BY <1>2, <1>3 DEF Awaits, Operations
  <1>. QED  BY <1>1, <1>2, <1>4, <1>5, <1>6, StartFits

LEMMA BeginTableFits ==
    ASSUME IInv, NEW s \in Sessions, NEW c \in Calls, NEW x \in Spellings,
           NEW op \in {"create_table", "register_table", "table_exists", "table"},
           BeginTable(s, c, op, x)
    PROVE  StepFits
  <1>. DEFINE path == parse_identifier(x).parts
              await == CASE op = "table_exists" -> "exists"
                         [] op = "table"        -> "open"
                         [] OTHER               -> "entry"
  <1>1. path \in Path
    BY NamesAreSent
  <1>2. Len(path) >= 2 /\ Start(s, c, op, path, await, Len(path))
    BY DEF BeginTable
  <1>. HIDE DEF path
  <1>3. Len(path) \in Nat /\ Len(path) \in 1..Len(path)
    BY <1>1, <1>2 DEF Path
  <1>4. op \in Operations /\ await \in {"exists", "open", "entry"}
    BY DEF Operations
  <1>5. PhaseFits(op, await, Len(path), Len(path))
    BY <1>2, <1>3 DEF PhaseFits
  <1>. HIDE DEF await
  <1>6. await \in Awaits /\ await \notin Walking
    BY <1>4 DEF Awaits, Walking
  <1>. QED  BY <1>1, <1>2, <1>3, <1>4, <1>5, <1>6, StartFits

LEMMA ParentFits ==
    ASSUME IInv, NEW s \in Sessions, at[s] \in {"check", "parent"}, NextParent(s),
           Request(s).path \in DOMAIN namespaces',
           Grows, EntriesFit', CatalogTypes', late' = late, created' \subseteq created \cup {Request(s)}
    PROVE  StepFits
  <1>. DEFINE c == call[s]
  <1>1. /\ CallsFit' /\ (\A d \in Calls : Moves(d))
        /\ call' = call /\ asked' = asked /\ result' = result
        /\ level'[c] = level[c] + 1
        /\ \A t \in Sessions \ {s} : at'[t] = at[t]
        /\ \A d \in Calls \ {c} : level'[d] = level[d]
    BY ParentMoves DEF IInv
  <1>2. /\ c \in Calls /\ result[c] = "running" /\ level[c] \in 1..Len(asked[c].path)
        /\ Part(Request(s), c, level[c]) /\ Request(s).by = c
    BY RequestIsPart DEF IInv
  <1>3. NewMade
    <2>. SUFFICES ASSUME NEW r \in created' \ created PROVE Below(r, r.by)'
      BY DEF NewMade
    <2>1. r.by = c /\ Part(r, c, level[c])
      BY <1>2
    <2>2. PICK b \in Calls : b = c
      BY <1>2
    <2>3. Part(r, b, level[b]) /\ asked' = asked /\ result' = result /\ result[b] = "running"
          /\ level[b] \in 1..Len(asked[b].path) /\ level'[b] = level[b] + 1 /\ level[b] \in Nat
      BY <1>1, <1>2, <2>1, <2>2 DEF IInv, CallsFit, CallTypes
    <2>4. PICK n \in Nat : n = level[b]
      BY <2>3
    <2>5. Part(r, b, n)' /\ n \in 1..Len(asked'[b].path) /\ n < level'[b] /\ result'[b] = "running"
      BY <2>3, <2>4 DEF Part, Makes, Kind
    <2>6. Below(r, b)'
      BY <2>5 DEF Below
    <2>. QED  BY <2>1, <2>2, <2>6
  <1>4. NewLate /\ NewAnswers
    BY <1>1 DEF NewLate, NewAnswers
  <1>5. \A t \in Sessions : Climbs(t)
    <2>. SUFFICES ASSUME NEW t \in Sessions PROVE Climbs(t)  OBVIOUS
    <2>1. CASE t = s
      <3>1. Prefix(asked[c].path, level[c]) \in DOMAIN namespaces'
        BY DEF Request
      <3>. QED  BY <1>1, <2>1, <3>1 DEF Climbs, Walking
    <2>2. CASE t # s
      <3>1. at[t] # "R" => call[t] \in Calls \ {c}
        BY <1>2, <2>2 DEF IInv, CallsFit, SessionsFit
      <3>. QED  BY <1>1, <2>2, <3>1, OthersClimb DEF IInv
    <2>. QED  BY <2>1, <2>2
  <1>. QED  BY <1>1, <1>3, <1>4, <1>5 DEF StepFits

LEMMA ParentMissingFits ==
    ASSUME IInv, NEW s \in Sessions, ParentMissing(s)
    PROVE  StepFits
  <1>1. CallsFit' /\ (\A d \in Calls : Moves(d))
    BY MissingMoves DEF IInv
  <1>2. Grows /\ EntriesFit' /\ CatalogTypes' /\ NewMade /\ NewLate
    BY SameCatalog DEF ParentMissing
  <1>3. /\ at[s] = "check" /\ at' = [at EXCEPT ![s] = "parent"]
        /\ UNCHANGED <<call, asked, level, result, there>>
    BY DEF ParentMissing
  <1>4. \A t \in Sessions : Climbs(t)
    <2>. SUFFICES ASSUME NEW t \in Sessions PROVE Climbs(t)  OBVIOUS
    <2>1. CASE t = s  BY <1>3, <2>1 DEF Climbs, Walking
    <2>2. CASE t # s
      <3>1. at'[t] = at[t]  BY <1>3, <2>2 DEF IInv, CallsFit, CallTypes
      <3>. QED  BY <1>1, <1>3, <3>1, OthersClimb DEF IInv
    <2>. QED  BY <2>1, <2>2
  <1>5. NewAnswers
    BY <1>3 DEF NewAnswers
  <1>. QED  BY <1>1, <1>2, <1>4, <1>5 DEF StepFits

\* What is entered for a session is what it asks for, and a call that has
\* asked has it below.
LEMMA EnterRequest ==
    ASSUME IInv, NEW s \in Sessions, at[s] \in {"parent", "leaf", "entry"},
           Accepts(Request(s)), Enter(Request(s))
    PROVE  /\ Grows /\ EntriesFit' /\ created' = created \cup {Request(s)}
           /\ created' \subseteq Entry
  BY RequestIsPart, EnterGrows DEF IInv

LEMMA ParentExistsFits ==
    ASSUME IInv, NEW s \in Sessions, ParentExists(s)
    PROVE  StepFits
  <1>1. at[s] = "check" /\ Request(s).path \in DOMAIN namespaces /\ NextParent(s)
        /\ UNCHANGED <<catalog, late>>
    BY DEF ParentExists
  <1>2. Grows /\ EntriesFit' /\ CatalogTypes'
    BY <1>1, SameCatalog
  <1>3. namespaces' = namespaces /\ created' = created /\ late' = late
    BY <1>1 DEF catalog
  <1>4. Request(s).path \in DOMAIN namespaces' /\ created' \subseteq created \cup {Request(s)}
    BY <1>1, <1>3
  <1>. QED  BY <1>1, <1>2, <1>3, <1>4, ParentFits

LEMMA CreateParentFits ==
    ASSUME IInv, NEW s \in Sessions, CreateParent(s)
    PROVE  StepFits
  <1>1. at[s] = "parent" /\ Accepts(Request(s)) /\ Enter(Request(s)) /\ NextParent(s) /\ late' = late
    BY DEF CreateParent
  <1>2. Grows /\ EntriesFit' /\ created' = created \cup {Request(s)} /\ created' \subseteq Entry
    BY <1>1, EnterRequest
  <1>3. CatalogTypes'
    BY <1>1, <1>2 DEF CatalogTypes, IInv
  <1>4. Request(s).kind = "namespace"
    BY <1>1 DEF Request
  <1>5. Request(s).path \in DOMAIN namespaces'
    BY <1>1, <1>4 DEF Enter, Entered
  <1>. QED  BY <1>1, <1>2, <1>3, <1>5, ParentFits

\* The leaf, or the table.
LEMMA MakeFits ==
    ASSUME IInv, NEW s \in Sessions, at[s] \in {"leaf", "entry"},
           Accepts(Request(s)), Enter(Request(s)), Finish(s, "ok"), late' = late
    PROVE  StepFits
  <1>1. Grows /\ EntriesFit' /\ created' = created \cup {Request(s)} /\ created' \subseteq Entry
    BY EnterRequest
  <1>2. CatalogTypes' /\ NewLate
    BY <1>1 DEF CatalogTypes, IInv, NewLate
  <1>3. /\ call[s] \in Calls /\ result[call[s]] = "running"
        /\ Part(Request(s), call[s], level[call[s]]) /\ Request(s).by = call[s]
        /\ Request(s) \in Entry
        /\ level[call[s]] \in 1..Len(asked[call[s]].path)
        /\ level[call[s]] = Len(asked[call[s]].path) /\ asked[call[s]].path \in Path
    BY RequestIsPart DEF IInv
  <1>4. PICK c \in Calls : c = call[s]
    BY <1>3
  <1>5. result'[c] = "ok" /\ asked' = asked /\ level' = level
    BY <1>4 DEF Finish, IInv, CallsFit, CallTypes
  <1>6. \A r \in created' \ created : r = Request(s)
    BY <1>1
  <1>7. PICK n \in 1..Len(asked[c].path) : n = level[c]
    BY <1>3, <1>4
  <1>8. Part(Request(s), c, n)
    BY <1>3, <1>4, <1>7
  <1>9. NewMade
    <2>. SUFFICES ASSUME NEW r \in created' \ created PROVE Below(r, r.by)'
      BY DEF NewMade
    <2>1. r.by = c /\ Part(r, c, n)
      BY <1>3, <1>4, <1>6, <1>8
    <2>2. Part(r, c, n)' /\ n \in 1..Len(asked'[c].path)
      BY <1>5, <2>1 DEF Part, Makes, Kind
    <2>3. Below(r, c)'
      BY <1>5, <2>2 DEF Below, Unfinished
    <2>. QED  BY <2>1, <2>3
  <1>10. AnswerFits(c)'
    <2>1. /\ Request(s).path = asked[c].path /\ Request(s).kind = Kind(c) /\ Request(s).by = c
      BY <1>3, <1>4, <1>8, PrefixIsAll DEF Part
    <2>2. Request(s) = [kind |-> Kind(c), path |-> asked[c].path, by |-> c]
      BY <1>3, <2>1 DEF Entry
    <2>3. MadeBy(c, Kind(c), asked[c].path)'
      BY <1>1, <1>5, <2>2 DEF MadeBy, Kind
    <2>. QED  BY <1>5, <2>3 DEF AnswerFits
  <1>11. RefusalFits(c)'
    BY <1>5 DEF RefusalFits
  <1>12. at[s] # "R" /\ "ok" \in Answers
    BY DEF Answers
  <1>. QED  BY <1>1, <1>2, <1>4, <1>9, <1>10, <1>11, <1>12, FinishFits

LEMMA RefusedFits ==
    ASSUME IInv, NEW s \in Sessions, Refused(s)
    PROVE  StepFits
  <1>. DEFINE answer == IF Homeless(Request(s)) THEN "missing" ELSE "taken"
              r == Request(s)
  <1>1. at[s] \in {"parent", "leaf", "entry"} /\ ~Accepts(r) /\ Finish(s, answer)
        /\ UNCHANGED <<catalog, late>>
    BY DEF Refused
  <1>2. Grows /\ EntriesFit' /\ CatalogTypes' /\ NewMade /\ NewLate
    BY <1>1, SameCatalog
  <1>3. /\ call[s] \in Calls /\ result[call[s]] = "running"
        /\ Part(r, call[s], level[call[s]]) /\ r.by = call[s] /\ r \in Entry
        /\ level[call[s]] \in 1..Len(asked[call[s]].path) /\ asked[call[s]].path \in Path
        /\ at[s] # "entry" => asked[call[s]].op = "create_namespace"
    BY <1>1, RequestIsPart DEF IInv
  <1>4. PICK c \in Calls : c = call[s]
    BY <1>3
  <1>5. asked' = asked /\ level' = level /\ created' = created /\ lost' = lost
        /\ result'[c] = answer
    BY <1>1, <1>4 DEF Finish, IInv, CallsFit, CallTypes, catalog
  <1>6. AnswerFits(c)'
    BY <1>5 DEF AnswerFits
  <1>7. PICK n \in 1..Len(asked[c].path) : n = level[c]
    BY <1>3, <1>4
  <1>. DEFINE p == asked[c].path
  <1>8. p \in Path /\ r.path = Prefix(p, n) /\ Len(r.path) = n /\ Len(p) \in Nat /\ r.path \in Path
    BY <1>3, <1>4, <1>7, PrefixOf DEF Part
  <1>9. RefusalFits(c)'
    <2>. SUFFICES ASSUME asked[c].op = "create_namespace"
                  PROVE  /\ answer = "taken" =>
                              \E q \in created : q.kind = "namespace" /\ q.path = r.path /\ q.by # c
                         /\ answer = "missing" => Parent(r.path) \in lost[c]
      BY <1>5, <1>7, <1>8 DEF RefusalFits
    <2>1. r.kind = "namespace" /\ at[s] # "entry"
      <3>1. r.kind = "namespace"
        BY <1>3, <1>4 DEF Part, Kind
      <3>. QED  BY <3>1 DEF Request
    <2>2. CASE Homeless(r)
      <3>1. Len(r.path) > 1 /\ Parent(r.path) \notin DOMAIN namespaces
        BY <2>2 DEF Homeless
      <3>2. n \in 2..Len(p)
        BY <1>8, <3>1
      <3>3. Parent(r.path) = Prefix(p, n - 1)
        BY <1>8, <3>2, ParentOfPrefix
      <3>4. n - 1 \in 1..(level[call[s]] - 1)
        BY <1>4, <1>7, <1>8, <3>2
      <3>5. at[s] \in {"check", "parent", "leaf"}
        BY <1>1, <2>1
      <3>6. \/ Prefix(p, n - 1) \in DOMAIN namespaces
            \/ Prefix(p, n - 1) \in lost[c]
        BY <1>4, <3>4, <3>5 DEF IInv, ParentsFit
      <3>7. Parent(r.path) \in lost[c]
        BY <3>1, <3>3, <3>6
      <3>. QED  BY <2>2, <3>7
    <2>3. CASE ~Homeless(r)
      <3>1. r.path \in DOMAIN Entries("namespace")
        BY <1>1, <2>1, <2>3 DEF Accepts, Taken
      <3>2. PICK q \in created : q = [kind |-> "namespace", path |-> r.path, by |-> Entries("namespace")[r.path]]
        BY <3>1 DEF IInv, EntriesFit, Kinds
      <3>3. q.by # c
        <4>. SUFFICES ASSUME q.by = c PROVE FALSE
          OBVIOUS
        <4>1. Below(q, c)
          BY <3>2 DEF IInv, MadeFit
        <4>2. PICK m \in 1..Len(p) : Part(q, c, m) /\ (result[c] \in Unfinished => m < level[c])
          BY <4>1 DEF Below
        <4>3. m < n
          BY <1>3, <1>4, <1>7, <4>2 DEF Unfinished
        <4>4. Len(q.path) = m
          BY <1>8, <4>2, PrefixOf DEF Part
        <4>5. q.path = r.path
          BY <3>2
        <4>. QED  BY <1>8, <4>3, <4>4, <4>5
      <3>. QED  BY <2>3, <3>2, <3>3
    <2>. QED  BY <2>2, <2>3
  <1>10. at[s] # "R" /\ answer \in Answers
    BY <1>1 DEF Answers
  <1>. QED  BY <1>1, <1>2, <1>4, <1>6, <1>9, <1>10, FinishFits

\* A look at the catalog, which only tells.
LEMMA LookFits ==
    ASSUME IInv, NEW s \in Sessions, TableExists(s) \/ OpenTable(s)
    PROVE  StepFits
  <1>1. UNCHANGED <<catalog, late>> /\ at[s] \in {"exists", "open"}
    BY DEF TableExists, OpenTable
  <1>2. Grows /\ EntriesFit' /\ CatalogTypes' /\ NewMade /\ NewLate
    BY <1>1, SameCatalog
  <1>3. PICK c \in Calls : c = call[s]
    BY <1>1 DEF IInv, CallsFit, SessionsFit
  <1>4. PhaseFits(asked[c].op, at[s], level[c], Len(asked[c].path)) /\ asked[c] \in Asked
    BY <1>1, <1>3 DEF IInv, CallsFit, PhasesFit, CallTypes
  <1>5. level[c] = Len(asked[c].path) /\ asked[c].op = (IF at[s] = "exists" THEN "table_exists" ELSE "table")
    BY <1>1, <1>4 DEF PhaseFits
  <1>6. Request(s).path = asked[c].path
    <2>1. Request(s).path = Prefix(asked[c].path, level[c])
      BY <1>3 DEF Request
    <2>2. asked[c].path \in Path
      BY <1>4 DEF Asked
    <2>. QED  BY <1>5, <2>1, <2>2, PrefixIsAll
  <1>7. ASSUME NEW answer \in {"yes", "no", "ok", "missing"}, Finish(s, answer),
               answer = "yes" => asked[c].path \in DOMAIN tables,
               answer = "no" => asked[c].path \notin DOMAIN tables,
               answer = "ok" => at[s] = "open"
        PROVE  StepFits
    <2>1. asked' = asked /\ result'[c] = answer /\ there'[c] = (asked[c].path \in DOMAIN tables)
      BY <1>3, <1>7 DEF Finish, IInv, CallsFit, CallTypes
    <2>2. AnswerFits(c)'
      BY <1>5, <1>7, <2>1 DEF AnswerFits, Makes
    <2>3. RefusalFits(c)'
      BY <1>5, <2>1 DEF RefusalFits
    <2>4. at[s] # "R" /\ answer \in Answers
      BY <1>1 DEF Answers
    <2>. QED  BY <1>2, <1>3, <1>7, <2>2, <2>3, <2>4, FinishFits
  <1>8. CASE TableExists(s)
    <2>1. Finish(s, IF asked[c].path \in DOMAIN tables THEN "yes" ELSE "no")
      BY <1>6, <1>8 DEF TableExists
    <2>2. CASE asked[c].path \in DOMAIN tables  BY <1>7, <2>1, <2>2
    <2>3. CASE asked[c].path \notin DOMAIN tables  BY <1>7, <2>1, <2>3
    <2>. QED  BY <2>2, <2>3
  <1>9. CASE OpenTable(s)
    <2>1. Finish(s, IF asked[c].path \in DOMAIN tables THEN "ok" ELSE "missing") /\ at[s] = "open"
      BY <1>6, <1>9 DEF OpenTable
    <2>2. CASE asked[c].path \in DOMAIN tables  BY <1>7, <2>1, <2>2
    <2>3. CASE asked[c].path \notin DOMAIN tables  BY <1>7, <2>1, <2>3
    <2>. QED  BY <2>2, <2>3
  <1>. QED  BY <1>8, <1>9

LEMMA BreakFits ==
    ASSUME IInv, NEW s \in Sessions, Break(s)
    PROVE  StepFits
  <1>1. /\ at[s] \in Awaits /\ Finish(s, "broken") /\ UNCHANGED catalog
        /\ late' = IF at[s] \in {"parent", "leaf", "entry"} THEN late \cup {Request(s)} ELSE late
    BY DEF Break
  <1>2. at[s] # "R" /\ "broken" \in Answers
    BY <1>1 DEF Awaits, Answers
  <1>3. PICK c \in Calls : c = call[s]
    BY <1>2 DEF IInv, CallsFit, SessionsFit
  <1>4. asked' = asked /\ level' = level /\ result'[c] = "broken"
    BY <1>1, <1>3 DEF Finish, IInv, CallsFit, CallTypes
  <1>5. namespaces' = namespaces /\ tables' = tables /\ created' = created /\ dropped' = dropped
        /\ lost' = lost
    BY <1>1 DEF catalog
  <1>6. Grows /\ EntriesFit' /\ NewMade
    BY <1>5 DEF IInv, Grows, EntriesFit, Entries, NewMade
  <1>7. CatalogTypes' /\ NewLate
    <2>1. CASE at[s] \notin {"parent", "leaf", "entry"}
      BY <1>1, <1>5, <2>1 DEF IInv, CatalogTypes, NewLate
    <2>2. CASE at[s] \in {"parent", "leaf", "entry"}
      <3>1. /\ Part(Request(s), c, level[c]) /\ Request(s) \in Entry /\ Request(s).by = c
            /\ level[c] \in 1..Len(asked[c].path)
        BY <1>3, <2>2, RequestIsPart DEF IInv
      <3>2. late' = late \cup {Request(s)}
        BY <1>1, <2>2
      <3>3. CatalogTypes'
        BY <1>5, <3>1, <3>2 DEF IInv, CatalogTypes
      <3>4. PICK n \in 1..Len(asked[c].path) : n = level[c]
        BY <3>1
      <3>5. NewLate
        <4>. SUFFICES ASSUME NEW r \in late' \ late
                      PROVE  r.by \in Calls /\ result'[r.by] = "broken" /\ Below(r, r.by)'
          BY DEF NewLate
        <4>1. r.by = c /\ Part(r, c, n)
          BY <3>1, <3>2, <3>4
        <4>2. Part(r, c, n)' /\ n \in 1..Len(asked'[c].path)
          BY <1>4, <4>1 DEF Part, Makes, Kind
        <4>3. Below(r, c)'
          BY <1>4, <4>2 DEF Below, Unfinished
        <4>. QED  BY <1>4, <4>1, <4>3
      <3>. QED  BY <3>3, <3>5
    <2>. QED  BY <2>1, <2>2
  <1>8. AnswerFits(c)' /\ RefusalFits(c)'
    BY <1>4 DEF AnswerFits, RefusalFits
  <1>. QED  BY <1>1, <1>2, <1>3, <1>6, <1>7, <1>8, FinishFits

LEMMA ArriveFits ==
    ASSUME IInv, NEW r \in late, Arrive(r) \/ Vanish(r)
    PROVE  StepFits
  <1>1. UNCHANGED calls /\ late' = late \ {r}
    BY DEF Arrive, Vanish
  <1>2. r \in Entry /\ late' \subseteq Entry /\ NewLate
    BY <1>1 DEF IInv, CatalogTypes, NewLate
  <1>3. CASE UNCHANGED catalog
    <2>1. namespaces' = namespaces /\ tables' = tables /\ created' = created /\ dropped' = dropped
          /\ lost' = lost
      BY <1>3 DEF catalog
    <2>2. Grows /\ EntriesFit' /\ CatalogTypes' /\ NewMade
      BY <1>2, <2>1 DEF IInv, Grows, EntriesFit, Entries, CatalogTypes, NewMade
    <2>. QED  BY <1>1, <1>2, <2>2, CatalogFits
  <1>4. CASE Accepts(r) /\ Enter(r)
    <2>1. Grows /\ EntriesFit' /\ created' \subseteq Entry /\ created' = created \cup {r}
      BY <1>2, <1>4, EnterGrows DEF IInv
    <2>2. CatalogTypes'
      BY <1>2, <2>1 DEF CatalogTypes
    <2>3. r.by \in Calls /\ Below(r, r.by)
      BY DEF IInv, LateFit
    <2>4. Below(r, r.by)'
      BY <1>1, <2>3 DEF calls, Below, Part, Makes, Kind
    <2>5. NewMade
      BY <2>1, <2>4 DEF NewMade
    <2>. QED  BY <1>1, <1>2, <2>1, <2>2, <2>5, CatalogFits
  <1>. QED  BY <1>3, <1>4 DEF Arrive, Vanish

LEMMA EngineFits ==
    ASSUME IInv, NEW kind \in Kinds, NEW p \in Paths,
           EngineDrops(kind, p) \/ \E e \in Engines : EngineMakes(kind, p, e)
    PROVE  StepFits
  <1>1. UNCHANGED calls /\ late' = late
    BY DEF EngineDrops, EngineMakes
  <1>2. NewLate
    BY <1>1 DEF NewLate
  <1>3. CASE EngineDrops(kind, p)
    <2>1. Grows /\ EntriesFit' /\ created' = created
      BY <1>3, DropGrows DEF IInv
    <2>2. CatalogTypes' /\ NewMade
      BY <1>1, <2>1 DEF IInv, CatalogTypes, NewMade
    <2>. QED  BY <1>1, <1>2, <2>1, <2>2, CatalogFits
  <1>4. ASSUME NEW e \in Engines, EngineMakes(kind, p, e) PROVE StepFits
    <2>. DEFINE r == [kind |-> kind, path |-> p, by |-> e]
    <2>1. Accepts(r) /\ Enter(r)
      BY <1>4 DEF EngineMakes
    <2>2. p \in Path
      BY NamesAreSent DEF Paths
    <2>3. r \in Entry
      BY <2>2 DEF Entry
    <2>4. Grows /\ EntriesFit' /\ created' \subseteq Entry /\ created' = created \cup {r}
      BY <2>1, <2>3, EnterGrows DEF IInv
    <2>5. CatalogTypes'
      BY <1>1, <2>4 DEF IInv, CatalogTypes
    <2>6. NewMade
      BY <2>4, MakersAssumption DEF NewMade
    <2>. QED  BY <1>1, <1>2, <2>4, <2>5, <2>6, CatalogFits
  <1>. QED  BY <1>3, <1>4

LEMMA InitFits ==
    ASSUME Init
    PROVE  IInv
  <1>1. CallTypes
    BY DEF Init, CallTypes, Asked, Path, Results, Operations
  <1>2. SessionsFit /\ PhasesFit
    BY DEF Init, SessionsFit, PhasesFit
  <1>3. LevelsFit
    BY DEF Init, LevelsFit
  <1>4. CatalogTypes /\ MadeFit /\ LateFit
    BY DEF Init, CatalogTypes, MadeFit, LateFit
  <1>5. EntriesFit
    BY DEF Init, EntriesFit, Entries, Kinds
  <1>6. ParentsFit /\ AnswersFit /\ WalkRefusedByOthers
    BY DEF Init, ParentsFit, AnswersFit, AnswerFits, WalkRefusedByOthers
  <1>. QED  BY <1>1, <1>2, <1>3, <1>4, <1>5, <1>6 DEF IInv, CallsFit

LEMMA NextFits ==
    ASSUME IInv, Next
    PROVE  StepFits
  <1>1. ASSUME NEW s \in Sessions, NEW c \in Calls, NEW x \in Spellings,
               \/ BeginNamespace(s, c, x)
               \/ \E op \in {"create_table", "table_exists", "table"} : BeginTable(s, c, op, x)
               \/ \E file \in {"inside", "outside", "nowhere"}, confine \in BOOLEAN :
                    BeginRegister(s, c, x, file, confine) \/ RefuseFile(s, c, x, file, confine)
               \/ \E op \in Operations : RefuseName(s, c, op, x)
        PROVE  StepFits
    <2>1. CASE BeginNamespace(s, c, x)
      BY <2>1, BeginNamespaceFits
    <2>2. ASSUME NEW op \in {"create_table", "table_exists", "table"}, BeginTable(s, c, op, x)
          PROVE  StepFits
      BY <2>2, BeginTableFits
    <2>3. ASSUME NEW file, NEW confine, BeginRegister(s, c, x, file, confine)
          PROVE  StepFits
      BY <2>3, BeginTableFits DEF BeginRegister
    <2>4. ASSUME NEW file, NEW confine, RefuseFile(s, c, x, file, confine)
          PROVE  StepFits
      BY <2>4, RefusalFit DEF RefuseFile
    <2>5. ASSUME NEW op, RefuseName(s, c, op, x)
          PROVE  StepFits
      BY <2>5, RefusalFit DEF RefuseName
    <2>. QED  BY <1>1, <2>1, <2>2, <2>3, <2>4, <2>5
  <1>2. ASSUME NEW s \in Sessions,
               \/ ParentExists(s) \/ ParentMissing(s) \/ CreateParent(s) \/ CreateNamespace(s)
               \/ CreateTable(s) \/ Refused(s) \/ TableExists(s) \/ OpenTable(s) \/ Break(s)
        PROVE  StepFits
    <2>1. CASE ParentExists(s)  BY <2>1, ParentExistsFits
    <2>2. CASE ParentMissing(s)  BY <2>2, ParentMissingFits
    <2>3. CASE CreateParent(s)  BY <2>3, CreateParentFits
    <2>4. CASE CreateNamespace(s) \/ CreateTable(s)
      BY <2>4, MakeFits DEF CreateNamespace, CreateTable
    <2>5. CASE Refused(s)  BY <2>5, RefusedFits
    <2>6. CASE TableExists(s) \/ OpenTable(s)  BY <2>6, LookFits
    <2>7. CASE Break(s)  BY <2>7, BreakFits
    <2>. QED  BY <1>2, <2>1, <2>2, <2>3, <2>4, <2>5, <2>6, <2>7
  <1>3. ASSUME NEW r \in late, Arrive(r) \/ Vanish(r) PROVE StepFits
    BY <1>3, ArriveFits
  <1>4. ASSUME NEW kind \in {"namespace", "table"}, NEW p \in Paths,
               EngineDrops(kind, p) \/ \E e \in Engines : EngineMakes(kind, p, e)
        PROVE  StepFits
    BY <1>4, EngineFits DEF Kinds
  <1>. QED  BY <1>1, <1>2, <1>3, <1>4 DEF Next

\* The invariant holds at every moment, for every number of sessions and
\* calls, however the calls of sessions, other engines and requests that come
\* late are interleaved.
THEOREM RegistryInvariant == Spec => []IInv
  <1>1. Init => IInv
    BY InitFits
  <1>2. IInv /\ [Next]_vars => IInv'
    <2>1. IInv /\ Next => IInv'
      BY NextFits, StepStays
    <2>2. IInv /\ UNCHANGED vars => IInv'
      <3>. SUFFICES ASSUME IInv, UNCHANGED vars PROVE IInv'  OBVIOUS
      <3>1. UNCHANGED calls /\ UNCHANGED <<catalog, late>>
        BY DEF vars, calls, catalog
      <3>2. StepFits
        BY <3>1, SameCatalog, CatalogFits
      <3>. QED  BY <3>2, StepStays
    <2>. QED  BY <2>1, <2>2
  <1>. QED  BY <1>1, <1>2, PTL DEF Spec

\* Type correctness, for any sessions, calls and names.
THEOREM RegistryTypes == Spec => []TypeOK
  <1>1. IInv => TypeOK
    <2>. SUFFICES ASSUME IInv PROVE TypeOK  OBVIOUS
    <2>1. \A c \in Calls : asked[c].op \in Operations /\ level[c] \in 0..Len(asked[c].path)
      BY DEF IInv, CallsFit, CallTypes, LevelsFit, Asked, Path
    <2>2. \A s \in Sessions : at[s] # "R" <=> call[s] # Nobody
      BY MakersAssumption DEF IInv, CallsFit, SessionsFit
    <2>3. \A r \in created : r.by \in Calls \cup Engines
      BY DEF IInv, CatalogTypes, Entry
    <2>4. ASSUME NEW r \in late PROVE r.by \in Calls /\ r.path # <<>>
      <3>1. PICK n \in 1..Len(asked[r.by].path) : r.by \in Calls /\ r.path = Prefix(asked[r.by].path, n)
        BY DEF IInv, LateFit, Below, Part
      <3>2. asked[r.by].path \in Path
        BY <3>1 DEF IInv, CallsFit, CallTypes, Asked
      <3>3. Len(r.path) = n /\ n # 0
        BY <3>1, <3>2, PrefixOf
      <3>. QED  BY <3>1, <3>3
    <2>. QED  BY <2>1, <2>2, <2>3, <2>4 DEF TypeOK, IInv, CallsFit, CallTypes
  <1>. QED  BY <1>1, RegistryInvariant, PTL

\* icebergr_create_namespace() fails on the way only by what others did: it
\* never finds what it made itself taken, nor a parent missing that nobody
\* dropped after the walk was past it.
THEOREM WalksFailByOthers == Spec => []WalkRefusedByOthers
  <1>1. IInv => WalkRefusedByOthers
    BY DEF IInv
  <1>. QED  BY <1>1, RegistryInvariant, PTL

LEMMA CallsSpeakTrue ==
    ASSUME IInv
    PROVE  OutcomesAreTrue
  <1>. SUFFICES ASSUME NEW c \in Calls
       PROVE  /\ result[c] = "ok" /\ Makes(c) => MadeBy(c, Kind(c), asked[c].path)
              /\ result[c] \in {"invalid", "taken", "missing"} =>
                   /\ ~MadeBy(c, Kind(c), asked[c].path)
                   /\ \A r \in late : r.by # c
              /\ result[c] = "yes" => there[c]
              /\ result[c] = "no" => ~there[c]
              /\ \A r \in created :
                   r.by = c => Makes(c) /\ \E n \in 1..Len(asked[c].path) : r.path = Prefix(asked[c].path, n)
              /\ \A d \in Calls \ {c} :
                   /\ result[c] = "ok" /\ result[d] = "ok" /\ Makes(c) /\ Makes(d)
                   /\ Kind(c) = Kind(d) /\ asked[c].path = asked[d].path
                   => [kind |-> Kind(c), path |-> asked[c].path] \in dropped
    BY DEF OutcomesAreTrue
  <1>1. AnswerFits(c)
    BY DEF IInv, AnswersFit
  <1>2. ASSUME NEW r \in created, r.by = c
        PROVE  Makes(c) /\ \E n \in 1..Len(asked[c].path) : r.path = Prefix(asked[c].path, n)
    BY <1>2 DEF IInv, MadeFit, Below, Part
  <1>3. ASSUME result[c] \in {"invalid", "taken", "missing"}, MadeBy(c, Kind(c), asked[c].path)
        PROVE  FALSE
    <2>. DEFINE p == asked[c].path
                r == [kind |-> Kind(c), path |-> p, by |-> c]
    <2>1. r \in created /\ r.by = c /\ r.path = p
      BY <1>3 DEF MadeBy
    <2>2. Below(r, c)
      BY <2>1 DEF IInv, MadeFit
    <2>3. PICK n \in 1..Len(p) : r.path = Prefix(p, n) /\ n < level[c]
      BY <1>3, <2>2 DEF Below, Part, Unfinished
    <2>4. p \in Path /\ Len(p) \in Nat /\ level[c] \in Nat /\ level[c] <= Len(p)
      BY DEF IInv, CallsFit, CallTypes, LevelsFit, Asked, Path
    <2>5. Len(Prefix(p, n)) = n
      BY <2>4, PrefixOf
    <2>. QED  BY <2>1, <2>3, <2>4, <2>5
  <1>4. ASSUME NEW d \in Calls \ {c}, result[c] = "ok", result[d] = "ok", Makes(c), Makes(d),
               Kind(c) = Kind(d), asked[c].path = asked[d].path
        PROVE  [kind |-> Kind(c), path |-> asked[c].path] \in dropped
    <2>. DEFINE k == Kind(c)
                p == asked[c].path
                mine == [kind |-> k, path |-> p, by |-> c]
                its == [kind |-> k, path |-> p, by |-> d]
    <2>1. mine \in created /\ its \in created
      BY <1>4 DEF IInv, AnswersFit, AnswerFits, MadeBy
    <2>2. /\ \/ p \in DOMAIN Entries(k) /\ Entries(k)[p] = c
             \/ [kind |-> k, path |-> p] \in dropped
          /\ \/ p \in DOMAIN Entries(k) /\ Entries(k)[p] = d
             \/ [kind |-> k, path |-> p] \in dropped
      BY <2>1 DEF IInv, EntriesFit
    <2>. QED  BY <2>2
  <1>5. ASSUME NEW r \in late, r.by = c
        PROVE  result[c] = "broken"
    BY <1>5 DEF IInv, LateFit
  <1>. QED  BY <1>1, <1>2, <1>3, <1>4, <1>5 DEF AnswerFits

\* Whatever R is told of a call is so: success is the making of what was
\* asked for, a refusal leaves nothing of it in the catalog or on its way, and
\* of two that made the same name one was dropped.
THEOREM CallsTellTheTruth == Spec => []OutcomesAreTrue
  <1>1. IInv => OutcomesAreTrue
    BY CallsSpeakTrue
  <1>. QED  BY <1>1, RegistryInvariant, PTL
\* What the catalog holds was made under a name without blanks, and such a name
\* is read back level by level.
LEMMA EntriesAreNamed == IInv => NamespacesCanBeNamed
  <1>. SUFFICES ASSUME IInv, NEW p \in DOMAIN namespaces, NEW l \in Levels
                PROVE  parse_identifier(Append(p, l)).namespace = p
    BY DEF NamespacesCanBeNamed
  <1>1. p \in Path
    <2>1. [kind |-> "namespace", path |-> p, by |-> namespaces[p]] \in created
      BY DEF IInv, EntriesFit, Kinds, Entries
    <2>2. [kind |-> "namespace", path |-> p, by |-> namespaces[p]] \in Entry
      BY <2>1 DEF IInv, CatalogTypes
    <2>. QED  BY <2>2 DEF Entry
  <1>. DEFINE q == Append(p, l)
  <1>2. /\ q \in Seq(Levels) /\ Len(q) - 1 = Len(p)
        /\ SubSeq(q, 1, Len(p)) = p
    BY <1>1 DEF Path
  <1>3. q \in Seq(Levels \cup {Blank})  BY <1>2
  <1>. HIDE DEF q
  <1>4. without_blanks(q) = q  BY <1>2, <1>3, WithoutBlanks
  <1>5. parse_identifier(q).namespace = SubSeq(q, 1, Len(q) - 1)
    BY <1>4 DEF parse_identifier
  <1>. QED  BY <1>2, <1>5 DEF q

\* Whatever namespace is made, by R or by an engine, R can name a table in it.
THEOREM NamespacesStayNamed == Spec => []NamespacesCanBeNamed
  BY EntriesAreNamed, RegistryInvariant, PTL
=============================================================================
