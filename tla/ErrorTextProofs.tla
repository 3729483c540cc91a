---------------------------- MODULE ErrorTextProofs ----------------------------
(***************************************************************************)
(* What errors.rs shows of a text is what it shows of the text's parts:     *)
(* scrub of a text and another that comes after it is scrub of each, once   *)
(* the first has ended its authorities and its values.  So it is enough     *)
(* to know what is shown of each piece, and texts of any number of pieces   *)
(* are shown as they should be.                                             *)
(*                                                                          *)
(* Without is proved about by its least counterexample: a recursion over    *)
(* the places of a text that fails for one fails first for some place, and  *)
(* for all that come after it it holds.                                     *)
(***************************************************************************)
EXTENDS ErrorText, TLAPS, SequenceTheorems, WellFoundedInduction

-----------------------------------------------------------------------------
(* Places in a text.                                                        *)

Less == {ss \in Nat \X Nat : ss[1] < ss[2]}

\* Some member of a set of natural numbers is the least.
LEMMA LeastOf ==
    ASSUME NEW S \in SUBSET Nat, S # {}
    PROVE  \E m \in S : \A k \in S : m <= k
  <1>1. Less = OpToRel(<, Nat)  BY Zenon DEF Less, OpToRel
  <1>2. IsWellFoundedOn(Less, Nat)
    BY <1>1, NatLessThanWellFounded
  <1>3. PICK m \in S : \A y \in S : ~ (<<y, m>> \in Less)
    BY <1>2, WFMin
  <1>4. \A y \in S : y \in Nat /\ m \in Nat /\ ~(y < m)  BY <1>3 DEF Less
  <1>. QED  BY <1>4

\* From any place on there is a first one in a set, or the end is reached.
LEMMA FirstOf ==
    ASSUME NEW S, NEW n \in Nat, NEW i \in 1..(n + 1)
    PROVE  \E j \in i..(n + 1) : (\A h \in i..(j - 1) : h \notin S) /\ (j <= n => j \in S)
  <1>. DEFINE H == {h \in i..n : h \in S} \cup {n + 1}
  <1>1. H \in SUBSET Nat /\ H # {}  OBVIOUS
  <1>2. PICK j \in H : \A h \in H : j <= h  BY <1>1, LeastOf
  <1>3. j \in i..(n + 1) /\ (j <= n => j \in S)  BY <1>2
  <1>4. ASSUME NEW h \in i..(j - 1)
        PROVE  h \notin S
    <2>1. h \in i..n /\ ~(j <= h)  BY <1>3
    <2>. QED  BY <2>1, <1>2
  <1>. QED  BY <1>3, <1>4

Marks == Words \cup {"://", "/", "@", "=", ":", "&", "quote", "escaped", "space", Redacted}

\* First says the first place with one of the marks, or the end.
LEMMA FirstIs ==
    ASSUME NEW t \in Seq(Marks), NEW i \in 1..(Len(t) + 1), NEW marks
    PROVE  /\ First(t, i, marks) \in i..(Len(t) + 1)
           /\ \A h \in i..(First(t, i, marks) - 1) : t[h] \notin marks
           /\ First(t, i, marks) <= Len(t) => t[First(t, i, marks)] \in marks
  <1>. DEFINE S == {h \in 1..Len(t) : t[h] \in marks}
  <1>1. PICK n \in Nat : n = Len(t)  OBVIOUS
  <1>2. PICK j \in i..(n + 1) : (\A h \in i..(j - 1) : h \notin S) /\ (j <= n => j \in S)
    <2>. HIDE DEF S
    <2>1. i \in 1..(n + 1)  BY <1>1
    <2>. QED  BY <2>1, FirstOf
  <1>3. \A h \in i..(j - 1) : h \in 1..Len(t)  BY <1>1
  <1>4. (\A h \in i..(j - 1) : t[h] \notin marks) /\ (j <= Len(t) => t[j] \in marks)
    BY <1>1, <1>2, <1>3
  <1>5. \E k \in i..(Len(t) + 1) :
          (\A h \in i..(k - 1) : t[h] \notin marks) /\ (k <= Len(t) => t[k] \in marks)
    BY <1>4
  <1>. QED  BY Zenon, <1>5 DEF First

\* It is the only such place.
LEMMA FirstOnly ==
    ASSUME NEW t \in Seq(Marks), NEW i \in 1..(Len(t) + 1), NEW marks,
           NEW j \in i..(Len(t) + 1), \A h \in i..(j - 1) : t[h] \notin marks,
           j <= Len(t) => t[j] \in marks
    PROVE  First(t, i, marks) = j
  <1>. DEFINE k == First(t, i, marks)
  <1>1. /\ k \in i..(Len(t) + 1) /\ Len(t) \in Nat
        /\ \A h \in i..(k - 1) : t[h] \notin marks
        /\ k <= Len(t) => t[k] \in marks
    BY FirstIs
  <1>. HIDE DEF k
  <1>2. ~(k < j) /\ ~(j < k)
    <2>1. ASSUME k < j PROVE FALSE
      <3>1. k \in i..(j - 1) /\ k <= Len(t)  BY <2>1, <1>1
      <3>. QED  BY <3>1, <1>1
    <2>2. ASSUME j < k PROVE FALSE
      <3>1. j \in i..(k - 1) /\ j <= Len(t)  BY <2>2, <1>1
      <3>. QED  BY <3>1, <1>1
    <2>. QED  BY <2>1, <2>2
  <1>. QED  BY <1>1, <1>2 DEF k

\* So does AfterSpaces of the first place that is no space.
LEMMA AfterSpacesIs ==
    ASSUME NEW t \in Seq(Marks), NEW i \in 1..(Len(t) + 1)
    PROVE  /\ AfterSpaces(t, i) \in i..(Len(t) + 1)
           /\ \A h \in i..(AfterSpaces(t, i) - 1) : t[h] = "space"
           /\ AfterSpaces(t, i) <= Len(t) => t[AfterSpaces(t, i)] # "space"
  <1>. DEFINE S == {h \in 1..Len(t) : t[h] # "space"}
  <1>1. PICK n \in Nat : n = Len(t)  OBVIOUS
  <1>2. PICK j \in i..(n + 1) : (\A h \in i..(j - 1) : h \notin S) /\ (j <= n => j \in S)
    <2>. HIDE DEF S
    <2>1. i \in 1..(n + 1)  BY <1>1
    <2>. QED  BY <2>1, FirstOf
  <1>3. \A h \in i..(j - 1) : h \in 1..Len(t)  BY <1>1
  <1>4. (\A h \in i..(j - 1) : t[h] = "space") /\ (j <= Len(t) => t[j] # "space")
    BY <1>1, <1>2, <1>3
  <1>5. \E k \in i..(Len(t) + 1) :
          (\A h \in i..(k - 1) : t[h] = "space") /\ (k <= Len(t) => t[k] # "space")
    BY <1>4
  <1>. QED  BY Zenon, <1>5 DEF AfterSpaces

LEMMA AfterSpacesOnly ==
    ASSUME NEW t \in Seq(Marks), NEW i \in 1..(Len(t) + 1),
           NEW j \in i..(Len(t) + 1), \A h \in i..(j - 1) : t[h] = "space",
           j <= Len(t) => t[j] # "space"
    PROVE  AfterSpaces(t, i) = j
  <1>. DEFINE k == AfterSpaces(t, i)
  <1>1. /\ k \in i..(Len(t) + 1) /\ Len(t) \in Nat
        /\ \A h \in i..(k - 1) : t[h] = "space"
        /\ k <= Len(t) => t[k] # "space"
    BY AfterSpacesIs
  <1>. HIDE DEF k
  <1>2. ~(k < j) /\ ~(j < k)
    <2>1. ASSUME k < j PROVE FALSE
      <3>1. k \in i..(j - 1) /\ k <= Len(t)  BY <2>1, <1>1
      <3>. QED  BY <3>1, <1>1
    <2>2. ASSUME j < k PROVE FALSE
      <3>1. j \in i..(k - 1) /\ j <= Len(t)  BY <2>2, <1>1
      <3>. QED  BY <3>1, <1>1
    <2>. QED  BY <2>1, <2>2
  <1>. QED  BY <1>1, <1>2 DEF k

-----------------------------------------------------------------------------
(* The values of keys.                                                      *)

Ends == {"&", "quote", "space"}

\* A value is between quotes, or it runs from a separator to the first mark
\* that ends one.
LEMMA ValueIs ==
    ASSUME NEW t \in Seq(Marks), NEW k \in 1..Len(t), NEW c \in value_of_key(t, k)
    PROVE  /\ c = <<c[1], c[2]>>
           /\ c[1] \in (k + 2)..(Len(t) + 1) /\ c[2] \in Int
           /\ \/ t[c[1] - 1] = "quote" /\ c[2] + 1 = First(t, c[1], {"quote"})
              \/ /\ t[c[1] - 1] \in {"=", ":", "space"} /\ c[2] + 1 = First(t, c[1], Ends)
                 /\ c[1] <= Len(t) => t[c[1]] # "quote"
  <1>. DEFINE quoted_key == At(t, k + 1, {"quote"})
              after == IF quoted_key THEN k + 2 ELSE k + 1
              sep == AfterSpaces(t, after)
              start == IF quoted_key \/ At(t, sep, {"="}) THEN AfterSpaces(t, sep + 1) ELSE sep + 1
              quoted == At(t, start, {"quote"})
  <1>1. /\ At(t, sep, {"=", ":"})
        /\ c = IF quoted THEN <<start + 1, First(t, start + 1, {"quote"}) - 1>>
               ELSE <<start, First(t, start, {"&", "quote", "space"}) - 1>>
    BY DEF value_of_key
  <1>2. PICK n \in Nat : n = Len(t) /\ k \in 1..n  OBVIOUS
  <1>3. after \in (k + 1)..(n + 1)
    BY <1>2 DEF At
  <1>. HIDE DEF after
  <1>4. sep \in after..(n + 1)
    <2>1. after \in 1..(Len(t) + 1)  BY <1>2, <1>3
    <2>. QED  BY <1>2, <2>1, AfterSpacesIs
  <1>5. sep \in (k + 1)..n /\ t[sep] \in {"=", ":"}
    <2>1. sep \in 1..n /\ t[sep] \in {"=", ":"}  BY <1>1, <1>2 DEF At
    <2>. QED  BY <2>1, <1>2, <1>3, <1>4
  <1>. HIDE DEF sep
  <1>6. /\ start \in (sep + 1)..(n + 1)
        /\ t[start - 1] \in {"=", ":", "space"}
    <2>. DEFINE s == AfterSpaces(t, sep + 1)
    <2>1. /\ s \in (sep + 1)..(n + 1)
          /\ \A h \in (sep + 1)..(s - 1) : t[h] = "space"
      <3>1. sep + 1 \in 1..(Len(t) + 1)  BY <1>2, <1>5
      <3>. QED  BY <3>1, <1>2, AfterSpacesIs
    <2>. HIDE DEF s
    <2>2. t[s - 1] \in {"=", ":", "space"}
      <3>1. CASE s = sep + 1
        <4>1. s - 1 = sep  BY <3>1, <1>5
        <4>. QED  BY <4>1, <1>5
      <3>2. CASE s # sep + 1
        <4>1. s - 1 \in (sep + 1)..(s - 1)  BY <3>2, <2>1, <1>5
        <4>. QED  BY <4>1, <2>1
      <3>. QED  BY <3>1, <3>2
    <2>3. /\ sep + 1 \in (sep + 1)..(n + 1) /\ (sep + 1) - 1 = sep
      BY <1>5
    <2>4. start = s \/ start = sep + 1  BY DEF s
    <2>. HIDE DEF start
    <2>. QED  BY <2>1, <2>2, <2>3, <2>4, <1>5
  <1>. HIDE DEF start
  <1>7. CASE quoted
    <2>1. start \in 1..n /\ t[start] = "quote"  BY <1>2, <1>7 DEF At
    <2>2. c[1] = start + 1 /\ c[2] = First(t, start + 1, {"quote"}) - 1 /\ c = <<c[1], c[2]>>
      BY <1>1, <1>7
    <2>3. First(t, start + 1, {"quote"}) \in Nat
      <3>1. start + 1 \in 1..(Len(t) + 1)  BY <2>1, <1>2
      <3>. QED  BY <3>1, <1>2, FirstIs
    <2>4. /\ (start + 1) - 1 = start /\ start + 1 \in (k + 2)..(n + 1)
          /\ (First(t, start + 1, {"quote"}) - 1) + 1 = First(t, start + 1, {"quote"})
      BY <2>1, <2>3, <1>2, <1>5, <1>6
    <2>. QED  BY <2>1, <2>2, <2>3, <2>4, <1>2
  <1>8. CASE ~quoted
    <2>1. c[1] = start /\ c[2] = First(t, start, Ends) - 1 /\ c = <<c[1], c[2]>>
      BY <1>1, <1>8 DEF Ends
    <2>2. First(t, start, Ends) \in Nat
      <3>1. start \in 1..(Len(t) + 1)  BY <1>2, <1>5, <1>6
      <3>. QED  BY <3>1, <1>2, FirstIs
    <2>3. start <= n => t[start] # "quote"
      BY <1>2, <1>5, <1>6, <1>8 DEF At
    <2>4. start \in (k + 2)..(n + 1) /\ (First(t, start, Ends) - 1) + 1 = First(t, start, Ends)
      BY <2>2, <1>2, <1>5, <1>6
    <2>. QED  BY <2>1, <2>2, <2>3, <2>4, <1>2, <1>6
  <1>. QED  BY <1>7, <1>8

\* A value is some marks of the text, none of which ends it; what comes next does.
LEMMA CutIs ==
    ASSUME NEW t \in Seq(Marks), NEW c \in values_of_keys(t)
    PROVE  /\ c = <<c[1], c[2]>> /\ c[1] \in 3..Len(t) /\ c[2] \in c[1]..Len(t)
           /\ \/ /\ t[c[1] - 1] = "quote"
                 /\ \A h \in c[1]..c[2] : t[h] # "quote"
                 /\ c[2] < Len(t) => t[c[2] + 1] = "quote"
              \/ /\ t[c[1] - 1] \in {"=", ":", "space"}
                 /\ \A h \in c[1]..c[2] : t[h] \notin Ends
                 /\ c[2] < Len(t) => t[c[2] + 1] \in Ends
  <1>1. PICK k \in 1..Len(t) : c \in value_of_key(t, k) /\ c[1] <= c[2]
    BY DEF values_of_keys
  <1>2. PICK n \in Nat : n = Len(t)  OBVIOUS
  <1>3. /\ c = <<c[1], c[2]>>
        /\ c[1] \in (k + 2)..(n + 1) /\ c[2] \in Int
        /\ \/ t[c[1] - 1] = "quote" /\ c[2] + 1 = First(t, c[1], {"quote"})
           \/ t[c[1] - 1] \in {"=", ":", "space"} /\ c[2] + 1 = First(t, c[1], Ends)
    BY <1>1, <1>2, ValueIs
  <1>4. PICK a \in 3..(n + 1), b \in Int : a = c[1] /\ b = c[2] /\ a <= b  BY <1>1, <1>2, <1>3
  <1>5. ASSUME NEW marks, b + 1 = First(t, a, marks)
        PROVE  /\ a \in 3..n /\ b \in a..n
               /\ \A h \in a..b : t[h] \notin marks
               /\ b < n => t[b + 1] \in marks
    <2>1. a \in 1..(Len(t) + 1)  BY <1>2, <1>4
    <2>2. /\ b + 1 \in a..(n + 1)
          /\ \A h \in a..((b + 1) - 1) : t[h] \notin marks
          /\ b + 1 <= n => t[b + 1] \in marks
      BY SMTT(20), <2>1, <1>2, <1>5, FirstIs
    <2>3. (b + 1) - 1 = b /\ (b < n => b + 1 <= n) /\ a \in 3..n /\ b \in a..n  BY SMTT(20), <2>2, <1>4
    <2>. QED  BY <2>2, <2>3
  <1>. QED  BY <1>2, <1>3, <1>4, <1>5

\* What comes of errors.rs's "overlapping match already covered": of two values
\* that overlap, the one that begins later is inside the other.
THEOREM ValuesAreNested ==
    \A t \in Seq(Marks) : \A c, d \in values_of_keys(t) :
        c[1] <= d[1] /\ d[1] <= c[2] => d[2] <= c[2]
  <1>. SUFFICES ASSUME NEW t \in Seq(Marks), NEW c \in values_of_keys(t),
                       NEW d \in values_of_keys(t), c[1] <= d[1], d[1] <= c[2], c[2] < d[2]
                PROVE  FALSE
    BY CutIs
  <1>1. PICK n \in Nat : n = Len(t)  OBVIOUS
  <1>2. PICK a \in 3..n, b \in Int : a = c[1] /\ b = c[2] /\ b \in a..n  BY <1>1, CutIs
  <1>3. PICK e \in 3..n, f \in Int : e = d[1] /\ f = d[2] /\ f \in e..n  BY <1>1, CutIs
  <1>4. /\ e - 1 \in (a - 1)..b /\ b + 1 \in e..f /\ b < n /\ b + 1 # b
        /\ e # a => e - 1 \in a..b
    <2>1. a <= e /\ e <= b /\ b < f  BY <1>2, <1>3
    <2>2. n \in Nat /\ a \in Int /\ b \in a..n /\ e \in Int /\ f \in e..n  BY <1>2, <1>3
    <2>. HIDE <1>2, <1>3
    <2>. QED  BY <2>1, <2>2
  <1>5. \/ t[a - 1] = "quote" /\ (\A h \in a..b : t[h] # "quote") /\ t[b + 1] = "quote"
        \/ /\ t[a - 1] \in {"=", ":", "space"} /\ \A h \in a..b : t[h] \notin Ends
           /\ t[b + 1] \in Ends
    BY <1>1, <1>2, <1>4, CutIs
  <1>6. \/ t[e - 1] = "quote" /\ \A h \in e..f : t[h] # "quote"
        \/ t[e - 1] \in {"=", ":", "space"} /\ \A h \in e..f : t[h] \notin Ends
    BY <1>3, CutIs
  <1>7. \/ t[e - 1] = "quote" /\ t[b + 1] # "quote"
        \/ t[b + 1] \notin Ends
    BY <1>4, <1>6
  <1>. QED  BY <1>4, <1>5, <1>7 DEF Ends

-----------------------------------------------------------------------------
(* A text without its cuts.                                                 *)

FitIn(cuts, t) == \A c \in cuts : c[1] \in 1..Len(t) /\ c[2] \in c[1]..Len(t)

EndsAt(cuts, i) == {c[2] : c \in {d \in cuts : d[1] = i}}
EndAt(cuts, i) == CHOOSE e \in EndsAt(cuts, i) : \A f \in EndsAt(cuts, i) : e <= f

\* Of cuts that begin together the one that ends first is a cut.
LEMMA EndIs ==
    ASSUME NEW t \in Seq(Marks), NEW cuts, FitIn(cuts, t), NEW i \in 1..Len(t),
           EndsAt(cuts, i) # {}
    PROVE  /\ EndAt(cuts, i) \in EndsAt(cuts, i)
           /\ EndAt(cuts, i) \in i..Len(t)
           /\ \A e \in EndsAt(cuts, i) : EndAt(cuts, i) <= e
  <1>. DEFINE E == EndsAt(cuts, i)
  <1>1. E \subseteq i..Len(t)  BY DEF EndsAt, FitIn
  <1>2. E \in SUBSET Nat  BY <1>1
  <1>. HIDE DEF E
  <1>3. \E e \in E : \A f \in E : e <= f  BY <1>2, LeastOf DEF E
  <1>4. EndAt(cuts, i) \in E /\ \A f \in E : EndAt(cuts, i) <= f
    BY Zenon, <1>3 DEF EndAt, E
  <1>. QED  BY <1>1, <1>4 DEF E

\* From place i on, f says what is left of the text.
Left(f, t, cuts, instead, i) ==
    f[i] = IF i > Len(t) THEN <<>>
           ELSE IF EndsAt(cuts, i) = {} THEN <<t[i]>> \o f[i + 1]
           ELSE instead \o f[EndAt(cuts, i) + 1]

From(f, t, cuts, instead) == \A i \in 1..(Len(t) + 1) : Left(f, t, cuts, instead, i)

\* What is left can be said from the end of the text on.
LEMMA LeftExists ==
    ASSUME NEW t \in Seq(Marks), NEW cuts, FitIn(cuts, t), NEW instead
    PROVE  \E f : f = [i \in 1..(Len(t) + 1) |-> f[i]] /\ From(f, t, cuts, instead)
  <1>1. PICK n \in Nat : n = Len(t)  OBVIOUS
  <1>. DEFINE Built(f, m) == /\ f = [i \in (n + 1 - m)..(n + 1) |-> f[i]]
                             /\ \A i \in (n + 1 - m)..(n + 1) : Left(f, t, cuts, instead, i)
              Bad == {m \in 0..n : ~ \E f : Built(f, m)}
  <1>. SUFFICES ASSUME ~ \E f : Built(f, n) PROVE FALSE
    <2>1. n + 1 - n = 1  BY <1>1
    <2>. QED  BY <2>1, <1>1 DEF From
  <1>. HIDE DEF Built
  <1>2. n \in Bad  BY <1>1
  <1>3. Bad \in SUBSET Nat  OBVIOUS
  <1>. HIDE DEF Bad
  <1>4. PICK m \in Bad : \A k \in Bad : m <= k  BY <1>2, <1>3, LeastOf
  <1>5. m \in 0..n /\ ~ \E f : Built(f, m)  BY <1>4 DEF Bad
  <1>6. CASE m = 0
    <2>. DEFINE f == [i \in (n + 1)..(n + 1) |-> <<>>]
    <2>1. n + 1 \in (n + 1)..(n + 1) /\ (\A i \in (n + 1)..(n + 1) : i = n + 1) /\ n + 1 > n /\ n + 1 - 0 = n + 1
      BY <1>1
    <2>2. f = [i \in (n + 1)..(n + 1) |-> f[i]]  OBVIOUS
    <2>3. f[n + 1] = <<>>  BY <2>1
    <2>. HIDE DEF f
    <2>4. Left(f, t, cuts, instead, n + 1)  BY <2>1, <2>3, <1>1 DEF Left
    <2>5. Built(f, 0)  BY <2>1, <2>2, <2>4 DEF Built
    <2>. QED  BY <2>5, <1>5, <1>6
  <1>7. CASE m # 0
    <2>1. m - 1 \in 0..n /\ ~(m <= m - 1)  BY <1>5, <1>7
    <2>2. PICK f : Built(f, m - 1)  BY <2>1, <1>4 DEF Bad
    <2>3. PICK p \in 1..n : p = n + 1 - m  BY SMTT(20), <1>1, <1>5, <1>7
    <2>. DEFINE first == IF EndsAt(cuts, p) = {} THEN <<t[p]>> \o f[p + 1]
                         ELSE instead \o f[EndAt(cuts, p) + 1]
                g == [i \in p..(n + 1) |-> IF i = p THEN first ELSE f[i]]
    <2>4. /\ n + 1 - (m - 1) = p + 1 /\ n \in Nat /\ p \in p..(n + 1) /\ ~(p > n)
          /\ \A i \in p..(n + 1) : i # p => i \in (p + 1)..(n + 1)
          /\ p + 1 \in p..(n + 1) /\ p + 1 # p
          /\ \A e \in p..n : e + 1 \in p..(n + 1) /\ e + 1 # p
      BY <2>3, <1>1, <1>5
    <2>5. \A i \in (p + 1)..(n + 1) : Left(f, t, cuts, instead, i)
      BY <2>2, <2>4 DEF Built
    <2>. HIDE DEF first
    <2>6. g = [i \in p..(n + 1) |-> g[i]] /\ g[p] = first /\ \A i \in p..(n + 1) : i # p => g[i] = f[i]
      BY <2>4
    <2>. HIDE DEF g
    <2>7. ASSUME NEW i \in p..(n + 1)
          PROVE  /\ i <= n => g[i + 1] = f[i + 1]
                 /\ i <= n /\ EndsAt(cuts, i) # {} => g[EndAt(cuts, i) + 1] = f[EndAt(cuts, i) + 1]
      <3>1. ASSUME i <= n PROVE g[i + 1] = f[i + 1]
        <4>1. i + 1 \in p..(n + 1) /\ i + 1 # p  BY <2>3, <2>7, <3>1
        <4>. QED  BY <4>1, <2>6
      <3>2. ASSUME i <= n, EndsAt(cuts, i) # {} PROVE g[EndAt(cuts, i) + 1] = f[EndAt(cuts, i) + 1]
        <4>1. i \in 1..Len(t)  BY <2>3, <2>7, <3>2, <1>1
        <4>2. PICK e \in i..n : e = EndAt(cuts, i)  BY <4>1, <3>2, <1>1, EndIs
        <4>3. e + 1 \in p..(n + 1) /\ e + 1 # p  BY <4>2, <2>3, <2>7
        <4>. QED  BY <4>2, <4>3, <2>6
      <3>. QED  BY <3>1, <3>2
    <2>8. ASSUME NEW i \in p..(n + 1)
          PROVE  Left(g, t, cuts, instead, i)
      <3>1. i \in Int /\ (~(i > n) => i <= n)  BY <2>3
      <3>2. CASE i = p
        <4>1. g[i] = first /\ ~(i > Len(t)) /\ i <= n  BY <3>2, <2>4, <2>6, <2>3, <1>1
        <4>2. g[i] = IF EndsAt(cuts, i) = {} THEN <<t[i]>> \o g[i + 1] ELSE instead \o g[EndAt(cuts, i) + 1]
          BY <4>1, <3>2, <2>7 DEF first
        <4>. QED  BY <4>1, <4>2 DEF Left
      <3>3. CASE i # p
        <4>1. g[i] = f[i] /\ Left(f, t, cuts, instead, i)  BY <3>3, <2>4, <2>5, <2>6
        <4>. QED  BY <4>1, <3>1, <2>7, <1>1 DEF Left
      <3>. QED  BY <3>2, <3>3
    <2>9. Built(g, m)  BY <2>3, <2>6, <2>8 DEF Built
    <2>. QED  BY <2>9, <1>5
  <1>. QED  BY <1>6, <1>7

\* Without says what is left from the first place on.
LEMMA WithoutFrom ==
    ASSUME NEW t \in Seq(Marks), NEW cuts, FitIn(cuts, t), NEW instead
    PROVE  \E f : From(f, t, cuts, instead) /\ Without(t, cuts, instead) = f[1]
  <1>. DEFINE ends(i) == {c[2] : c \in {d \in cuts : d[1] = i}}
              end(i) == CHOOSE e \in ends(i) : \A f \in ends(i) : e <= f
              from[i \in 1..(Len(t) + 1)] ==
                IF i > Len(t) THEN <<>>
                ELSE IF ends(i) = {} THEN <<t[i]>> \o from[i + 1]
                ELSE instead \o from[end(i) + 1]
              Step(f) ==
                [i \in 1..(Len(t) + 1) |->
                   IF i > Len(t) THEN <<>>
                   ELSE IF ends(i) = {} THEN <<t[i]>> \o f[i + 1]
                   ELSE instead \o f[end(i) + 1]]
  <1>1. PICK g : g = [i \in 1..(Len(t) + 1) |-> g[i]] /\ From(g, t, cuts, instead)
    BY LeftExists
  <1>2. \A i : ends(i) = EndsAt(cuts, i) /\ end(i) = EndAt(cuts, i)
    BY Zenon DEF EndsAt, EndAt
  <1>3. from = CHOOSE f : f = Step(f)  BY Zenon
  <1>4. Without(t, cuts, instead) = from[1]  BY Zenon DEF Without
  <1>. HIDE DEF ends, end
  <1>5. g = Step(g)
    <2>1. \A i \in 1..(Len(t) + 1) : g[i] = Step(g)[i]
      BY <1>1, <1>2 DEF From, Left
    <2>2. Step(g) = [i \in 1..(Len(t) + 1) |-> Step(g)[i]]  OBVIOUS
    <2>. HIDE DEF Step
    <2>. QED  BY <1>1, <2>1, <2>2
  <1>6. from = Step(from)
    <2>. HIDE DEF Step, from
    <2>. QED  BY <1>3, <1>5
  <1>. HIDE DEF from
  <1>7. From(from, t, cuts, instead)
    <2>. SUFFICES ASSUME NEW i \in 1..(Len(t) + 1)
                  PROVE  Left(from, t, cuts, instead, i)
      BY DEF From
    <2>1. from[i] = Step(from)[i]  BY <1>6
    <2>. QED  BY <2>1, <1>2 DEF Left
  <1>. QED  BY <1>4, <1>7

\* What holds of a place whenever it holds of all later ones holds of each.
LEMMA FromTheEnd ==
    ASSUME NEW n \in Nat, NEW S,
           \A i \in 1..n : (\A j \in (i + 1)..n : j \in S) => i \in S
    PROVE  1..n \subseteq S
  <1>. DEFINE B == {d \in 0..n : n - d \in 1..n /\ n - d \notin S}
  <1>1. SUFFICES ASSUME NEW i \in 1..n, i \notin S PROVE FALSE
    OBVIOUS
  <1>2. n - i \in B
    <2>1. n - i \in 0..n /\ n - (n - i) = i  BY <1>1
    <2>. QED  BY <2>1, <1>1
  <1>3. B \in SUBSET Nat /\ B # {}  BY <1>2
  <1>4. PICK d \in B : \A e \in B : d <= e
    <2>. HIDE DEF B
    <2>. QED  BY <1>3, LeastOf
  <1>5. PICK k \in 1..n : k = n - d /\ k \notin S  BY <1>4
  <1>6. PICK j \in (k + 1)..n : j \notin S  BY <1>5
  <1>7. n - j \in 0..n /\ n - (n - j) = j /\ j \in 1..n /\ ~(d <= n - j)  BY <1>4, <1>5, <1>6
  <1>8. n - j \in B  BY <1>6, <1>7
  <1>. QED  BY <1>4, <1>7, <1>8

\* What is left from any place on is a text.
LEMMA LeftIsText ==
    ASSUME NEW t \in Seq(Marks), NEW cuts, FitIn(cuts, t), NEW instead \in Seq(Marks),
           NEW f, From(f, t, cuts, instead)
    PROVE  \A i \in 1..(Len(t) + 1) : f[i] \in Seq(Marks)
  <1>1. PICK n \in Nat, m \in Nat : n = Len(t) /\ m = n + 1  OBVIOUS
  <1>. DEFINE S == {i \in 1..m : f[i] \in Seq(Marks)}
  <1>2. ASSUME NEW i \in 1..m, \A j \in (i + 1)..m : j \in S
        PROVE  i \in S
    <2>1. Left(f, t, cuts, instead, i)  BY <1>1 DEF From
    <2>2. CASE i > n
      <3>1. f[i] = <<>>  BY <2>1, <2>2, <1>1 DEF Left
      <3>2. <<>> \in Seq(Marks)  BY EmptySeq
      <3>. QED  BY <3>1, <3>2
    <2>3. CASE i <= n /\ EndsAt(cuts, i) = {}
      <3>1. ~(i > Len(t)) /\ i + 1 \in (i + 1)..m /\ i \in 1..Len(t)  BY <1>1, <2>3
      <3>2. f[i] = <<t[i]>> \o f[i + 1] /\ t[i] \in Marks /\ f[i + 1] \in Seq(Marks)
        BY <2>1, <2>3, <3>1, <1>2 DEF Left
      <3>3. <<t[i]>> \in Seq(Marks)  BY <3>2
      <3>4. <<t[i]>> \o f[i + 1] \in Seq(Marks)  BY <3>2, <3>3, ConcatProperties
      <3>. QED  BY <3>2, <3>4
    <2>4. CASE i <= n /\ EndsAt(cuts, i) # {}
      <3>1. i \in 1..Len(t) /\ ~(i > Len(t))  BY <1>1, <2>4
      <3>2. PICK e \in i..n : e = EndAt(cuts, i)  BY <3>1, <2>4, <1>1, EndIs
      <3>3. e + 1 \in (i + 1)..m  BY <3>2, <1>1
      <3>4. f[i] = instead \o f[e + 1] /\ f[e + 1] \in Seq(Marks)
        BY <2>1, <2>4, <3>1, <3>2, <3>3, <1>2 DEF Left
      <3>5. instead \o f[e + 1] \in Seq(Marks)  BY <3>4, ConcatProperties
      <3>. QED  BY <3>4, <3>5
    <2>5. i > n \/ i <= n  OBVIOUS
    <2>. QED  BY <2>2, <2>3, <2>4, <2>5
  <1>. HIDE DEF S
  <1>3. 1..m \subseteq S  BY <1>2, FromTheEnd
  <1>. QED  BY <1>1, <1>3 DEF S

\* Cuts of one text and of another are those of the two together.
Fall(cuts, p, cp, r, cr) ==
    /\ \A i \in 1..Len(p) : EndsAt(cuts, i) = EndsAt(cp, i)
    /\ \A i \in 1..Len(r) : EndsAt(cuts, Len(p) + i) = {Len(p) + e : e \in EndsAt(cr, i)}

\* The end of a set of places that moves along moves with it.
LEMMA EndMoves ==
    ASSUME NEW p \in Seq(Marks), NEW r \in Seq(Marks), NEW cuts, NEW cr,
           FitIn(cuts, p \o r), FitIn(cr, r), NEW i \in 1..Len(r),
           EndsAt(cuts, Len(p) + i) = {Len(p) + e : e \in EndsAt(cr, i)},
           EndsAt(cr, i) # {}
    PROVE  EndAt(cuts, Len(p) + i) = Len(p) + EndAt(cr, i)
  <1>1. PICK n \in Nat, m \in Nat : n = Len(p) /\ m = Len(r) /\ i \in 1..m  OBVIOUS
  <1>2. p \o r \in Seq(Marks) /\ Len(p \o r) = n + m  BY <1>1, ConcatProperties
  <1>3. /\ EndAt(cr, i) \in EndsAt(cr, i) /\ EndAt(cr, i) \in i..m
        /\ \A e \in EndsAt(cr, i) : EndAt(cr, i) <= e
    BY <1>1, EndIs
  <1>. DEFINE a == EndAt(cuts, n + i)  b == EndAt(cr, i)
  <1>4. /\ a \in EndsAt(cuts, n + i) /\ a \in Int
        /\ \A e \in EndsAt(cuts, n + i) : a <= e
    <2>1. n + i \in 1..(n + m) /\ EndsAt(cuts, n + i) # {}
      <3>1. EndsAt(cuts, n + i) = {n + e : e \in EndsAt(cr, i)}  BY <1>1
      <3>2. n + i \in 1..(n + m)  BY <1>1
      <3>3. n + EndAt(cr, i) \in EndsAt(cuts, n + i)  BY <3>1, <1>3
      <3>. QED  BY <3>2, <3>3
    <2>2. /\ a \in EndsAt(cuts, n + i) /\ a \in (n + i)..(n + m)
          /\ \A e \in EndsAt(cuts, n + i) : a <= e
      BY <2>1, <1>2, EndIs
    <2>. QED  BY <2>2, <1>1
  <1>. HIDE DEF a, b
  <1>5. PICK e \in EndsAt(cr, i) : a = n + e
    <2>1. EndsAt(cuts, n + i) = {n + e : e \in EndsAt(cr, i)}  BY <1>1
    <2>. QED  BY <2>1, <1>4
  <1>6. n + b \in EndsAt(cuts, n + i)  BY <1>1, <1>3 DEF b
  <1>7. a <= n + b /\ b <= e  BY <1>3, <1>4, <1>5, <1>6 DEF b
  <1>8. PICK x \in Int : x = b  BY <1>3 DEF b
  <1>9. PICK y \in Int : y = e
    <2>1. e \in 1..Len(r) \/ e \in Int  BY <1>5 DEF EndsAt, FitIn
    <2>. QED  BY <2>1, <1>1
  <1>10. a = n + x  BY <1>1, <1>5, <1>7, <1>8, <1>9
  <1>. QED  BY <1>1, <1>8, <1>10 DEF a, b

\* What is left of a text that comes second is what is left of it alone.
LEMMA LeftMoves ==
    ASSUME NEW p \in Seq(Marks), NEW r \in Seq(Marks), NEW cuts, NEW cp, NEW cr,
           FitIn(cuts, p \o r), FitIn(cr, r), Fall(cuts, p, cp, r, cr), NEW instead,
           NEW f, From(f, p \o r, cuts, instead), NEW h, From(h, r, cr, instead)
    PROVE  \A i \in 1..(Len(r) + 1) : f[Len(p) + i] = h[i]
  <1>1. PICK n \in Nat, m \in Nat, k \in Nat : n = Len(p) /\ m = Len(r) /\ k = m + 1  OBVIOUS
  <1>2. /\ p \o r \in Seq(Marks) /\ Len(p \o r) = n + m
        /\ \A i \in 1..(n + m) : (p \o r)[i] = IF i <= n THEN p[i] ELSE r[i - n]
    BY <1>1, ConcatProperties
  <1>. DEFINE S == {i \in 1..k : f[n + i] = h[i]}
  <1>3. ASSUME NEW i \in 1..k, \A j \in (i + 1)..k : j \in S
        PROVE  i \in S
    <2>1. Left(h, r, cr, instead, i)  BY <1>1 DEF From
    <2>2. Left(f, p \o r, cuts, instead, n + i)
      <3>1. n + i \in 1..(Len(p \o r) + 1)  BY <1>1, <1>2
      <3>. QED  BY <3>1 DEF From
    <2>3. CASE i > m
      <3>1. n + i > Len(p \o r)  BY <2>3, <1>1, <1>2
      <3>2. f[n + i] = <<>> /\ h[i] = <<>>  BY <3>1, <2>1, <2>2, <2>3, <1>1 DEF Left
      <3>. QED  BY <3>2
    <2>4. CASE i <= m
      <3>1. /\ ~(n + i > Len(p \o r)) /\ ~(i > Len(r)) /\ i \in 1..Len(r)
            /\ (p \o r)[n + i] = r[i] /\ i + 1 \in (i + 1)..k /\ n + i + 1 = n + (i + 1)
        <4>1. n + i \in 1..(n + m) /\ ~(n + i <= n) /\ (n + i) - n = i  BY <2>4, <1>1
        <4>2. (p \o r)[n + i] = r[i]  BY <4>1, <1>2
        <4>3. ~(n + i > n + m) /\ ~(i > m) /\ i \in 1..m /\ i + 1 \in (i + 1)..k /\ n + i + 1 = n + (i + 1)
          BY <2>4, <1>1
        <4>. QED  BY <4>2, <4>3, <1>1, <1>2
      <3>2. EndsAt(cuts, n + i) = {n + e : e \in EndsAt(cr, i)}  BY <3>1, <1>1 DEF Fall
      <3>3. CASE EndsAt(cr, i) = {}
        <4>1. EndsAt(cuts, n + i) = {}  BY <3>2, <3>3
        <4>2. f[n + i] = <<r[i]>> \o f[n + (i + 1)]  BY <4>1, <3>1, <2>2 DEF Left
        <4>3. h[i] = <<r[i]>> \o h[i + 1]  BY <3>1, <3>3, <2>1 DEF Left
        <4>4. f[n + (i + 1)] = h[i + 1]  BY <3>1, <1>3
        <4>. QED  BY <4>2, <4>3, <4>4
      <3>4. CASE EndsAt(cr, i) # {}
        <4>1. EndsAt(cuts, n + i) # {}  BY <3>2, <3>4
        <4>2. PICK e \in i..m : e = EndAt(cr, i)  BY <3>1, <3>4, <1>1, EndIs
        <4>3. EndAt(cuts, n + i) = n + e
          <5>1. EndAt(cuts, Len(p) + i) = Len(p) + EndAt(cr, i)
            BY SMTT(20), <3>1, <3>2, <3>4, <1>1, EndMoves
          <5>. QED  BY <5>1, <4>2, <1>1
        <4>4. n + e + 1 = n + (e + 1) /\ e + 1 \in (i + 1)..k  BY <4>2, <1>1
        <4>5. f[n + i] = instead \o f[n + (e + 1)]  BY <4>1, <4>3, <4>4, <3>1, <2>2 DEF Left
        <4>6. h[i] = instead \o h[e + 1]  BY <4>2, <3>1, <3>4, <2>1 DEF Left
        <4>7. f[n + (e + 1)] = h[e + 1]  BY <4>4, <1>3
        <4>. QED  BY <4>5, <4>6, <4>7
      <3>. QED  BY <3>3, <3>4
    <2>. QED  BY <2>3, <2>4, <1>1
  <1>. HIDE DEF S
  <1>4. 1..k \subseteq S  BY <1>3, FromTheEnd
  <1>. QED  BY <1>1, <1>4 DEF S

Regroups(u, v, w) == (u \o v) \o w = u \o (v \o w)

LEMMA Together ==
    \A u, v, w \in Seq(Marks) : Regroups(u, v, w)
  <1>1. ASSUME NEW u \in Seq(Marks), NEW v \in Seq(Marks), NEW w \in Seq(Marks)
        PROVE  (u \o v) \o w = u \o (v \o w)
    BY ConcatAssociative
  <1>. QED  BY <1>1 DEF Regroups

\* What is left of two texts together is what is left of each.
LEMMA WithoutBoth ==
    ASSUME NEW p \in Seq(Marks), NEW r \in Seq(Marks), NEW cuts, NEW cp, NEW cr,
           FitIn(cuts, p \o r), FitIn(cp, p), FitIn(cr, r), Fall(cuts, p, cp, r, cr),
           NEW instead \in Seq(Marks)
    PROVE  Without(p \o r, cuts, instead) = Without(p, cp, instead) \o Without(r, cr, instead)
  <1>1. PICK f : From(f, p \o r, cuts, instead) /\ Without(p \o r, cuts, instead) = f[1]
    <2>1. PICK t \in Seq(Marks) : t = p \o r  BY ConcatProperties
    <2>2. FitIn(cuts, t)  BY <2>1
    <2>3. \E f : From(f, t, cuts, instead) /\ Without(t, cuts, instead) = f[1]
      BY <2>2, WithoutFrom
    <2>. QED  BY <2>1, <2>3
  <1>2. PICK g : From(g, p, cp, instead) /\ Without(p, cp, instead) = g[1]
    BY WithoutFrom
  <1>3. PICK h : From(h, r, cr, instead) /\ Without(r, cr, instead) = h[1]
    BY WithoutFrom
  <1>4. PICK n \in Nat, m \in Nat, k \in Nat : n = Len(p) /\ m = Len(r) /\ k = n + 1  OBVIOUS
  <1>5. /\ p \o r \in Seq(Marks) /\ Len(p \o r) = n + m
        /\ \A i \in 1..(n + m) : (p \o r)[i] = IF i <= n THEN p[i] ELSE r[i - n]
    BY <1>4, ConcatProperties
  <1>6. /\ \A i \in 1..k : g[i] \in Seq(Marks)
        /\ h[1] \in Seq(Marks) /\ f[n + 1] = h[1]
    <2>1. \A i \in 1..k : g[i] \in Seq(Marks)  BY <1>4, <1>2, LeftIsText
    <2>2. 1 \in 1..(m + 1)  BY <1>4
    <2>3. h[1] \in Seq(Marks)  BY <2>2, <1>4, <1>3, LeftIsText
    <2>4. f[n + 1] = h[1]  BY <2>2, <1>4, <1>1, <1>3, LeftMoves
    <2>. QED  BY <2>1, <2>3, <2>4
  <1>. DEFINE S == {i \in 1..k : f[i] = g[i] \o h[1]}
  <1>7. ASSUME NEW i \in 1..k, \A j \in (i + 1)..k : j \in S
        PROVE  i \in S
    <2>1. Left(g, p, cp, instead, i)  BY <1>4, <1>2 DEF From
    <2>2. Left(f, p \o r, cuts, instead, i)
      <3>1. i \in 1..(Len(p \o r) + 1)  BY <1>4, <1>5
      <3>. QED  BY <3>1, <1>1 DEF From
    <2>3. CASE i > n
      <3>1. i = n + 1 /\ i > Len(p)  BY <2>3, <1>4
      <3>2. g[i] = <<>>  BY <3>1, <2>1 DEF Left
      <3>3. <<>> \o h[1] = h[1]  BY <1>6, ConcatEmptySeq
      <3>4. f[i] = g[i] \o h[1]  BY <3>1, <3>2, <3>3, <1>6
      <3>. QED  BY <3>4
    <2>4. CASE i <= n
      <3>1. /\ ~(i > Len(p \o r)) /\ ~(i > Len(p)) /\ i \in 1..Len(p)
            /\ (p \o r)[i] = p[i] /\ i + 1 \in (i + 1)..k /\ i + 1 \in 1..k
        <4>1. i \in 1..(n + m) /\ i \in 1..n /\ ~(i > n + m) /\ ~(i > n)  BY <2>4, <1>4
        <4>2. (p \o r)[i] = p[i]  BY <4>1, <2>4, <1>5
        <4>3. i + 1 \in (i + 1)..k /\ i + 1 \in 1..k  BY <2>4, <1>4
        <4>. QED  BY <4>1, <4>2, <4>3, <1>4, <1>5
      <3>2. EndsAt(cuts, i) = EndsAt(cp, i)  BY <3>1 DEF Fall
      <3>3. CASE EndsAt(cp, i) = {}
        <4>1. f[i] = <<p[i]>> \o f[i + 1]  BY <3>1, <3>2, <3>3, <2>2 DEF Left
        <4>2. g[i] = <<p[i]>> \o g[i + 1]  BY <3>1, <3>3, <2>1 DEF Left
        <4>3. f[i + 1] = g[i + 1] \o h[1]  BY <3>1, <1>7
        <4>4. p[i] \in Marks /\ g[i + 1] \in Seq(Marks)  BY <3>1, <1>6
        <4>5. <<p[i]>> \in Seq(Marks)  BY <4>4
        <4>6. (<<p[i]>> \o g[i + 1]) \o h[1] = <<p[i]>> \o (g[i + 1] \o h[1])
          BY ZenonT(30), <4>4, <4>5, <1>6, Together DEF Regroups
        <4>7. f[i] = g[i] \o h[1]  BY <4>1, <4>2, <4>3, <4>6
        <4>. QED  BY <4>7
      <3>4. CASE EndsAt(cp, i) # {}
        <4>1. PICK e \in i..n : e = EndAt(cp, i)  BY <3>1, <3>4, <1>4, EndIs
        <4>2. EndAt(cuts, i) = e  BY <3>2, <4>1 DEF EndAt
        <4>3. e + 1 \in (i + 1)..k /\ e + 1 \in 1..k  BY <4>1, <1>4
        <4>4. f[i] = instead \o f[e + 1]  BY <4>2, <3>1, <3>2, <3>4, <2>2 DEF Left
        <4>5. g[i] = instead \o g[e + 1]  BY <4>1, <3>1, <3>4, <2>1 DEF Left
        <4>6. f[e + 1] = g[e + 1] \o h[1]  BY <4>3, <1>7
        <4>7. g[e + 1] \in Seq(Marks)  BY <4>3, <1>6
        <4>8. (instead \o g[e + 1]) \o h[1] = instead \o (g[e + 1] \o h[1])
          BY ZenonT(30), <4>7, <1>6, Together DEF Regroups
        <4>9. f[i] = g[i] \o h[1]  BY <4>4, <4>5, <4>6, <4>8
        <4>. QED  BY <4>9
      <3>. QED  BY <3>3, <3>4
    <2>5. i > n \/ i <= n  BY <1>4
    <2>. QED  BY <2>3, <2>4, <2>5
  <1>. HIDE DEF S
  <1>8. 1..k \subseteq S  BY <1>7, FromTheEnd
  <1>9. f[1] = g[1] \o h[1]
    <2>1. 1 \in 1..k  BY <1>4
    <2>. QED  BY <2>1, <1>8 DEF S
  <1>. QED  BY <1>9, <1>1, <1>2, <1>3

-----------------------------------------------------------------------------
(* A text after a text.                                                     *)

\* Places of two texts in one.
LEMMA Both ==
    ASSUME NEW p \in Seq(Marks), NEW r \in Seq(Marks)
    PROVE  /\ p \o r \in Seq(Marks) /\ Len(p \o r) = Len(p) + Len(r)
           /\ \A i \in 1..Len(p) : (p \o r)[i] = p[i]
           /\ \A i \in 1..Len(r) : (p \o r)[Len(p) + i] = r[i]
  <1>1. PICK n \in Nat, m \in Nat : n = Len(p) /\ m = Len(r)  OBVIOUS
  <1>2. /\ p \o r \in Seq(Marks) /\ Len(p \o r) = n + m
        /\ \A i \in 1..(n + m) : (p \o r)[i] = IF i <= n THEN p[i] ELSE r[i - n]
    BY <1>1, ConcatProperties
  <1>3. \A i \in 1..n : i \in 1..(n + m) /\ i <= n  OBVIOUS
  <1>4. \A i \in 1..m : n + i \in 1..(n + m) /\ ~(n + i <= n) /\ (n + i) - n = i  OBVIOUS
  <1>. QED  BY <1>1, <1>2, <1>3, <1>4

\* A first place in the second text is where it was, further on.
LEMMA FirstMoves ==
    ASSUME NEW p \in Seq(Marks), NEW r \in Seq(Marks), NEW i \in 1..(Len(r) + 1), NEW marks
    PROVE  First(p \o r, Len(p) + i, marks) = Len(p) + First(r, i, marks)
  <1>1. PICK n \in Nat, m \in Nat : n = Len(p) /\ m = Len(r) /\ i \in 1..(m + 1)  OBVIOUS
  <1>2. PICK j \in i..(m + 1) :
           /\ j = First(r, i, marks)
           /\ \A h \in i..(j - 1) : r[h] \notin marks
           /\ j <= m => r[j] \in marks
    BY <1>1, FirstIs
  <1>3. PICK t \in Seq(Marks) :
           /\ t = p \o r /\ Len(t) = n + m
           /\ \A h \in 1..m : t[n + h] = r[h]
    <2>1. /\ p \o r \in Seq(Marks) /\ Len(p \o r) = Len(p) + Len(r)
          /\ \A h \in 1..Len(r) : (p \o r)[Len(p) + h] = r[h]
      BY Both
    <2>. QED  BY <2>1, <1>1
  <1>4. ASSUME NEW h \in (n + i)..((n + j) - 1) PROVE t[h] \notin marks
    <2>1. h - n \in i..(j - 1) /\ h - n \in 1..m /\ n + (h - n) = h
      <3>1. h \in Int /\ i \in Nat /\ 1 <= i /\ j \in Nat /\ j <= m + 1 /\ n + i <= h /\ h <= (n + j) - 1
        BY <1>1
      <3>. QED  BY <3>1, <1>1
    <2>. QED  BY <2>1, <1>2, <1>3
  <1>5. n + j <= Len(t) => t[n + j] \in marks
    <2>1. n + j <= Len(t) => j <= m /\ j \in 1..m  BY <1>1, <1>2, <1>3
    <2>. QED  BY <2>1, <1>2, <1>3
  <1>6. n + i \in 1..(Len(t) + 1) /\ n + j \in (n + i)..(Len(t) + 1)  BY <1>1, <1>2, <1>3
  <1>7. First(t, n + i, marks) = n + j  BY <1>4, <1>5, <1>6, FirstOnly
  <1>. QED  BY <1>1, <1>2, <1>3, <1>7

\* A first place in the first text stays, when the end was not it.
LEMMA FirstStays ==
    ASSUME NEW p \in Seq(Marks), NEW r \in Seq(Marks), NEW i \in 1..(Len(p) + 1), NEW marks,
           First(p, i, marks) <= Len(p) \/ r = <<>> \/ r[1] \in marks
    PROVE  First(p \o r, i, marks) = First(p, i, marks)
  <1>1. PICK n \in Nat, m \in Nat : n = Len(p) /\ m = Len(r) /\ i \in 1..(n + 1)  OBVIOUS
  <1>2. PICK j \in i..(n + 1) :
           /\ j = First(p, i, marks)
           /\ \A h \in i..(j - 1) : p[h] \notin marks
           /\ j <= n => p[j] \in marks
    BY <1>1, FirstIs
  <1>3. PICK t \in Seq(Marks) :
           /\ t = p \o r /\ Len(t) = n + m
           /\ \A h \in 1..n : t[h] = p[h]
           /\ \A h \in 1..m : t[n + h] = r[h]
    <2>1. /\ p \o r \in Seq(Marks) /\ Len(p \o r) = Len(p) + Len(r)
          /\ \A h \in 1..Len(p) : (p \o r)[h] = p[h]
          /\ \A h \in 1..Len(r) : (p \o r)[Len(p) + h] = r[h]
      BY Both
    <2>. QED  BY <2>1, <1>1
  <1>4. ASSUME NEW h \in i..(j - 1) PROVE t[h] \notin marks
    <2>1. h \in 1..n  BY <1>1, <1>2
    <2>. QED  BY <2>1, <1>2, <1>3
  <1>5. ASSUME j <= Len(t) PROVE t[j] \in marks
    <2>1. CASE j <= n
      <3>1. j \in 1..n  BY <2>1, <1>1, <1>2
      <3>. QED  BY <3>1, <2>1, <1>2, <1>3
    <2>2. CASE ~(j <= n)
      <3>1. j = n + 1 /\ 1 \in 1..m /\ m # 0  BY <2>2, <1>1, <1>2, <1>3, <1>5
      <3>2. r # <<>>  BY <3>1, <1>1, EmptySeq
      <3>3. r[1] \in marks  BY <3>2, <2>2, <1>1, <1>2
      <3>. QED  BY <3>1, <3>3, <1>3
    <2>. QED  BY <2>1, <2>2
  <1>6. i \in 1..(Len(t) + 1) /\ j \in i..(Len(t) + 1)  BY <1>1, <1>2, <1>3
  <1>7. First(t, i, marks) = j  BY <1>4, <1>5, <1>6, FirstOnly
  <1>. QED  BY <1>2, <1>3, <1>7

LEMMA AfterSpacesMoves ==
    ASSUME NEW p \in Seq(Marks), NEW r \in Seq(Marks), NEW i \in 1..(Len(r) + 1)
    PROVE  AfterSpaces(p \o r, Len(p) + i) = Len(p) + AfterSpaces(r, i)
  <1>1. PICK n \in Nat, m \in Nat : n = Len(p) /\ m = Len(r) /\ i \in 1..(m + 1)  OBVIOUS
  <1>2. PICK j \in i..(m + 1) :
           /\ j = AfterSpaces(r, i)
           /\ \A h \in i..(j - 1) : r[h] = "space"
           /\ j <= m => r[j] # "space"
    BY <1>1, AfterSpacesIs
  <1>3. PICK t \in Seq(Marks) :
           /\ t = p \o r /\ Len(t) = n + m
           /\ \A h \in 1..m : t[n + h] = r[h]
    <2>1. /\ p \o r \in Seq(Marks) /\ Len(p \o r) = Len(p) + Len(r)
          /\ \A h \in 1..Len(r) : (p \o r)[Len(p) + h] = r[h]
      BY Both
    <2>. QED  BY <2>1, <1>1
  <1>4. ASSUME NEW h \in (n + i)..((n + j) - 1) PROVE t[h] = "space"
    <2>1. h - n \in i..(j - 1) /\ h - n \in 1..m /\ n + (h - n) = h  BY SMTT(20), <1>1, <1>2
    <2>. QED  BY <2>1, <1>2, <1>3
  <1>5. n + j <= Len(t) => t[n + j] # "space"
    <2>1. n + j <= Len(t) => j <= m /\ j \in 1..m  BY <1>1, <1>2, <1>3
    <2>. QED  BY <2>1, <1>2, <1>3
  <1>6. n + i \in 1..(Len(t) + 1) /\ n + j \in (n + i)..(Len(t) + 1)  BY <1>1, <1>2, <1>3
  <1>7. AfterSpaces(t, n + i) = n + j  BY <1>4, <1>5, <1>6, AfterSpacesOnly
  <1>. QED  BY <1>1, <1>2, <1>3, <1>7

LEMMA AfterSpacesStays ==
    ASSUME NEW p \in Seq(Marks), NEW r \in Seq(Marks), NEW i \in 1..(Len(p) + 1),
           AfterSpaces(p, i) <= Len(p)
    PROVE  AfterSpaces(p \o r, i) = AfterSpaces(p, i)
  <1>1. PICK n \in Nat, m \in Nat : n = Len(p) /\ m = Len(r) /\ i \in 1..(n + 1)  OBVIOUS
  <1>2. PICK j \in i..n :
           /\ j = AfterSpaces(p, i)
           /\ \A h \in i..(j - 1) : p[h] = "space"
           /\ p[j] # "space"
    <2>1. PICK j \in i..(n + 1) :
             /\ j = AfterSpaces(p, i)
             /\ \A h \in i..(j - 1) : p[h] = "space"
             /\ j <= n => p[j] # "space"
      BY <1>1, AfterSpacesIs
    <2>2. j \in i..n /\ j <= n  BY <2>1, <1>1
    <2>. QED  BY <2>1, <2>2
  <1>3. PICK t \in Seq(Marks) :
           /\ t = p \o r /\ Len(t) = n + m
           /\ \A h \in 1..n : t[h] = p[h]
    BY <1>1, Both
  <1>4. ASSUME NEW h \in i..(j - 1) PROVE t[h] = "space"
    <2>1. h \in 1..n  BY <1>1, <1>2
    <2>. QED  BY <2>1, <1>2, <1>3
  <1>5. t[j] # "space"
    <2>1. j \in 1..n  BY <1>1, <1>2
    <2>. QED  BY <2>1, <1>2, <1>3
  <1>6. i \in 1..(Len(t) + 1) /\ j \in i..(Len(t) + 1)  BY <1>1, <1>2, <1>3
  <1>7. AfterSpaces(t, i) = j  BY <1>4, <1>5, <1>6, AfterSpacesOnly
  <1>. QED  BY <1>2, <1>3, <1>7

Moved(cuts, n) == {<<n + c[1], n + c[2]>> : c \in cuts}

\* The cuts of each text are cuts of both together.
LEMMA CutsFall ==
    ASSUME NEW p \in Seq(Marks), NEW r \in Seq(Marks), NEW cp, NEW cr,
           FitIn(cp, p), FitIn(cr, r), NEW cuts, cuts = cp \cup Moved(cr, Len(p))
    PROVE  FitIn(cuts, p \o r) /\ Fall(cuts, p, cp, r, cr)
  <1>1. PICK n \in Nat, m \in Nat : n = Len(p) /\ m = Len(r) /\ Len(p \o r) = n + m  BY Both
  <1>2. \A c \in cp : c[1] \in 1..n /\ c[2] \in c[1]..n  BY <1>1 DEF FitIn
  <1>3. \A c \in cr : c[1] \in 1..m /\ c[2] \in c[1]..m  BY <1>1 DEF FitIn
  <1>4. ASSUME NEW d \in Moved(cr, n)
        PROVE  \E c \in cr : /\ d[1] = n + c[1] /\ d[2] = n + c[2]
                             /\ d[1] \in (n + 1)..(n + m) /\ d[2] \in d[1]..(n + m)
    <2>1. PICK c \in cr : d = <<n + c[1], n + c[2]>>  BY DEF Moved
    <2>2. PICK a \in 1..m, b \in Int : a = c[1] /\ b = c[2] /\ b \in a..m  BY <1>3
    <2>3. n + a \in (n + 1)..(n + m) /\ n + b \in (n + a)..(n + m)  BY SMTT(20), <2>2
    <2>. QED  BY <2>1, <2>2, <2>3
  <1>5. FitIn(cuts, p \o r)
    <2>. SUFFICES ASSUME NEW c \in cuts
                  PROVE  c[1] \in 1..(n + m) /\ c[2] \in c[1]..(n + m)
      BY <1>1 DEF FitIn
    <2>1. CASE c \in cp
      <3>1. PICK a \in 1..n, b \in Int : a = c[1] /\ b = c[2] /\ b \in a..n  BY <2>1, <1>2
      <3>2. a \in 1..(n + m) /\ b \in a..(n + m)  BY <3>1, <1>1
      <3>. QED  BY <3>1, <3>2
    <2>2. CASE c \in Moved(cr, n)
      <3>1. c[1] \in (n + 1)..(n + m) /\ c[2] \in c[1]..(n + m)  BY <2>2, <1>4
      <3>2. c[1] \in 1..(n + m)  BY <3>1
      <3>. QED  BY <3>1, <3>2
    <2>. QED  BY <2>1, <2>2, <1>1
  <1>6. ASSUME NEW i \in 1..n PROVE EndsAt(cuts, i) = EndsAt(cp, i)
    <2>1. \A d \in Moved(cr, n) : d[1] # i
      <3>. SUFFICES ASSUME NEW d \in Moved(cr, n) PROVE d[1] # i  OBVIOUS
      <3>1. d[1] \in (n + 1)..(n + m)  BY <1>4
      <3>. QED  BY <3>1
    <2>2. {d \in cuts : d[1] = i} = {d \in cp : d[1] = i}  BY <2>1, <1>1
    <2>. QED  BY <2>2 DEF EndsAt
  <1>7. ASSUME NEW i \in 1..m PROVE EndsAt(cuts, Len(p) + i) = {Len(p) + e : e \in EndsAt(cr, i)}
    <2>1. \A c \in cp : c[1] # n + i
      <3>. SUFFICES ASSUME NEW c \in cp PROVE c[1] # n + i  OBVIOUS
      <3>1. c[1] \in 1..n  BY <1>2
      <3>. QED  BY <3>1
    <2>2. EndsAt(cuts, Len(p) + i) \subseteq {Len(p) + e : e \in EndsAt(cr, i)}
      <3>. SUFFICES ASSUME NEW d \in cuts, d[1] = Len(p) + i PROVE d[2] \in {Len(p) + e : e \in EndsAt(cr, i)}
        BY DEF EndsAt
      <3>1. d \in Moved(cr, n) /\ d[1] = n + i  BY <2>1, <1>1
      <3>2. PICK c \in cr : d[1] = n + c[1] /\ d[2] = n + c[2]  BY <3>1, <1>4
      <3>3. c[1] \in 1..m  BY <1>3
      <3>4. c[1] = i  BY <3>1, <3>2, <3>3
      <3>5. c[2] \in EndsAt(cr, i)  BY <3>4 DEF EndsAt
      <3>6. d[2] = Len(p) + c[2]  BY <3>2, <1>1
      <3>. QED  BY <3>5, <3>6
    <2>3. ASSUME NEW e \in EndsAt(cr, i) PROVE Len(p) + e \in EndsAt(cuts, Len(p) + i)
      <3>1. PICK c \in cr : c[1] = i /\ c[2] = e  BY DEF EndsAt
      <3>. DEFINE d == <<n + i, n + e>>
      <3>2. d \in Moved(cr, n)  BY <3>1 DEF Moved
      <3>3. d \in cuts /\ d[1] = n + i /\ d[2] = n + e  BY <3>2, <1>1
      <3>4. d[1] = Len(p) + i /\ d[2] = Len(p) + e  BY <3>3, <1>1
      <3>. QED  BY <3>3, <3>4 DEF EndsAt
    <2>4. {Len(p) + e : e \in EndsAt(cr, i)} \subseteq EndsAt(cuts, Len(p) + i)  BY <2>3
    <2>. QED  BY <2>2, <2>4
  <1>8. \A i \in 1..Len(p) : EndsAt(cuts, i) = EndsAt(cp, i)  BY <1>1, <1>6
  <1>9. \A i \in 1..Len(r) : EndsAt(cuts, Len(p) + i) = {Len(p) + e : e \in EndsAt(cr, i)}
    BY <1>1, <1>7
  <1>. QED  BY <1>5, <1>8, <1>9 DEF Fall

-----------------------------------------------------------------------------
(* What is cut from URLs.                                                   *)

AuthorityEnds == {"/", "space"}
Ats(t, i) == {j \in (i + 1)..(First(t, i + 1, AuthorityEnds) - 1) : t[j] = "@"}
LastAt(t, i) == CHOOSE j \in Ats(t, i) : \A h \in Ats(t, i) : h <= j

\* Some member of a set of places is the last.
LEMMA GreatestOf ==
    ASSUME NEW n \in Nat, NEW S \in SUBSET (1..n), S # {}
    PROVE  \E m \in S : \A k \in S : k <= m
  <1>. DEFINE D == {d \in 0..n : n - d \in S}
  <1>1. PICK s \in S : s \in 1..n  OBVIOUS
  <1>2. n - s \in 0..n /\ n - (n - s) = s  BY <1>1
  <1>3. n - s \in D  BY <1>1, <1>2
  <1>4. D \in SUBSET Nat /\ D # {}
    <2>1. D \in SUBSET Nat  OBVIOUS
    <2>. HIDE DEF D
    <2>. QED  BY <1>3, <2>1
  <1>5. PICK d \in D : \A e \in D : d <= e
    <2>. HIDE DEF D
    <2>. QED  BY <1>4, LeastOf
  <1>6. d \in 0..n /\ n - d \in S  BY <1>5
  <1>7. ASSUME NEW k \in S PROVE k <= n - d
    <2>1. k \in 1..n /\ n - k \in 0..n /\ n - (n - k) = k  OBVIOUS
    <2>2. n - k \in D  BY <2>1
    <2>3. d <= n - k  BY <2>2, <1>5
    <2>. QED  BY <2>1, <2>3, <1>6
  <1>. QED  BY <1>6, <1>7

LEMMA LastAtIs ==
    ASSUME NEW t \in Seq(Marks), NEW i \in 1..Len(t), Ats(t, i) # {}
    PROVE  /\ LastAt(t, i) \in Ats(t, i)
           /\ LastAt(t, i) \in (i + 1)..Len(t)
           /\ \A h \in Ats(t, i) : h <= LastAt(t, i)
  <1>1. PICK n \in Nat : n = Len(t) /\ i \in 1..n  OBVIOUS
  <1>2. i + 1 \in 1..(n + 1)  BY <1>1
  <1>3. PICK j \in (i + 1)..(n + 1) : j = First(t, i + 1, AuthorityEnds)
    BY <1>1, <1>2, FirstIs
  <1>4. \A h \in Ats(t, i) : h \in (i + 1)..(j - 1)  BY <1>3 DEF Ats
  <1>5. \A h \in (i + 1)..(j - 1) : h \in (i + 1)..n /\ h \in 1..n  BY <1>1, <1>3
  <1>6. Ats(t, i) \in SUBSET (1..n)  BY <1>4, <1>5
  <1>7. \E m \in Ats(t, i) : \A h \in Ats(t, i) : h <= m  BY <1>6, GreatestOf
  <1>8. LastAt(t, i) \in Ats(t, i) /\ \A h \in Ats(t, i) : h <= LastAt(t, i)
    BY Zenon, <1>7 DEF LastAt
  <1>. QED  BY <1>1, <1>4, <1>5, <1>8

\* The cuts are what comes before the last @ of each authority that has one.
LEMMA UserinfosAre ==
    ASSUME NEW t \in Seq(Marks)
    PROVE  /\ userinfos(t) = {<<i + 1, LastAt(t, i)>> :
                                i \in {h \in 1..Len(t) : t[h] = "://" /\ Ats(t, h) # {}}}
           /\ FitIn(userinfos(t), t)
  <1>1. userinfos(t) = {<<i + 1, LastAt(t, i)>> :
                          i \in {h \in 1..Len(t) : t[h] = "://" /\ Ats(t, h) # {}}}
    BY Zenon DEF userinfos, LastAt, Ats, AuthorityEnds
  <1>2. ASSUME NEW c \in userinfos(t)
        PROVE  c[1] \in 1..Len(t) /\ c[2] \in c[1]..Len(t)
    <2>1. PICK i \in 1..Len(t) : Ats(t, i) # {} /\ c = <<i + 1, LastAt(t, i)>>  BY <1>1
    <2>2. PICK n \in Nat : n = Len(t) /\ i \in 1..n  OBVIOUS
    <2>3. PICK j \in (i + 1)..n : j = LastAt(t, i)  BY <2>1, <2>2, LastAtIs
    <2>4. i + 1 \in 1..n  BY <2>2, <2>3
    <2>. QED  BY <2>1, <2>2, <2>3, <2>4
  <1>. QED  BY <1>1, <1>2 DEF FitIn

\* Each authority of a text ends in the text.
ClosesAuthorities(p) ==
    \A i \in 1..Len(p) : p[i] = "://" => First(p, i + 1, AuthorityEnds) <= Len(p)

LEMMA LastAtOnly ==
    ASSUME NEW t \in Seq(Marks), NEW i \in 1..Len(t), NEW j \in Int,
           j \in Ats(t, i), \A h \in Ats(t, i) : h <= j
    PROVE  LastAt(t, i) = j
  <1>1. PICK k \in Int : k = LastAt(t, i) /\ k \in Ats(t, i) /\ \A h \in Ats(t, i) : h <= k
    <2>1. Ats(t, i) # {}  OBVIOUS
    <2>. QED  BY <2>1, LastAtIs
  <1>2. k <= j /\ j <= k  BY <1>1
  <1>. QED  BY <1>1, <1>2

\* What comes after an authority has no part in it, and neither has what came before.
LEMMA AtsStay ==
    ASSUME NEW p \in Seq(Marks), NEW r \in Seq(Marks), ClosesAuthorities(p),
           NEW i \in 1..Len(p), p[i] = "://"
    PROVE  Ats(p \o r, i) = Ats(p, i) /\ LastAt(p \o r, i) = LastAt(p, i)
  <1>1. PICK n \in Nat : n = Len(p) /\ i \in 1..n  OBVIOUS
  <1>2. i + 1 \in 1..(n + 1)  BY <1>1
  <1>3. PICK j \in (i + 1)..n : j = First(p, i + 1, AuthorityEnds)
    <2>1. PICK j \in (i + 1)..(n + 1) : j = First(p, i + 1, AuthorityEnds)
      BY <1>1, <1>2, FirstIs
    <2>2. j <= n  BY <2>1, <1>1 DEF ClosesAuthorities
    <2>. QED  BY <2>1, <2>2, <1>1
  <1>4. First(p \o r, i + 1, AuthorityEnds) = j
    <2>1. First(p, i + 1, AuthorityEnds) <= Len(p)  BY <1>1, <1>3
    <2>2. i + 1 \in 1..(Len(p) + 1)  BY <1>1, <1>2
    <2>. QED  BY <2>1, <2>2, <1>3, FirstStays
  <1>5. \A h \in (i + 1)..(j - 1) : (p \o r)[h] = p[h]
    <2>1. \A h \in (i + 1)..(j - 1) : h \in 1..n  BY <1>1, <1>3
    <2>. QED  BY <2>1, <1>1, Both
  <1>6. Ats(p \o r, i) = Ats(p, i)  BY <1>3, <1>4, <1>5 DEF Ats
  <1>. QED  BY <1>6 DEF LastAt

LEMMA AtsMove ==
    ASSUME NEW p \in Seq(Marks), NEW r \in Seq(Marks), NEW i \in 1..Len(r)
    PROVE  /\ \A h \in Ats(r, i) : Len(p) + h \in Ats(p \o r, Len(p) + i)
           /\ \A h \in Ats(p \o r, Len(p) + i) : \E k \in Ats(r, i) : h = Len(p) + k
           /\ Ats(r, i) # {} => LastAt(p \o r, Len(p) + i) = Len(p) + LastAt(r, i)
  <1>1. PICK n \in Nat, m \in Nat : n = Len(p) /\ m = Len(r) /\ i \in 1..m  OBVIOUS
  <1>2. i + 1 \in 1..(m + 1)  BY <1>1
  <1>3. PICK j \in (i + 1)..(m + 1) : j = First(r, i + 1, AuthorityEnds)
    BY <1>1, <1>2, FirstIs
  <1>4. First(p \o r, n + i + 1, AuthorityEnds) = n + j
    <2>1. i + 1 \in 1..(Len(r) + 1) /\ n + i + 1 = n + (i + 1)  BY <1>1, <1>2
    <2>. QED  BY <2>1, <1>1, <1>3, FirstMoves
  <1>5. PICK t \in Seq(Marks) : t = p \o r /\ Len(t) = n + m /\ \A h \in 1..m : t[n + h] = r[h]
    <2>1. /\ p \o r \in Seq(Marks) /\ Len(p \o r) = Len(p) + Len(r)
          /\ \A h \in 1..Len(r) : (p \o r)[Len(p) + h] = r[h]
      BY Both
    <2>. QED  BY <2>1, <1>1
  <1>6. ASSUME NEW h \in Ats(r, i) PROVE n + h \in Ats(t, n + i) /\ h \in Int
    <2>1. h \in (i + 1)..(j - 1) /\ r[h] = "@"  BY <1>3 DEF Ats
    <2>2. h \in 1..m /\ n + h \in (n + i + 1)..(n + j - 1)  BY <2>1, <1>1, <1>3
    <2>3. t[n + h] = "@"  BY <2>1, <2>2, <1>5
    <2>. QED  BY <2>2, <2>3, <1>4, <1>5 DEF Ats
  <1>7. ASSUME NEW h \in Ats(t, n + i) PROVE h \in Int /\ h - n \in Ats(r, i) /\ h = n + (h - n)
    <2>1. h \in (n + i + 1)..(n + j - 1) /\ t[h] = "@"  BY <1>4, <1>5 DEF Ats
    <2>2. h - n \in (i + 1)..(j - 1) /\ h - n \in 1..m /\ h = n + (h - n) BY SMTT(20), <2>1, <1>1, <1>3
    <2>3. r[h - n] = "@"  BY <2>1, <2>2, <1>5
    <2>. QED  BY <2>1, <2>2, <2>3, <1>3 DEF Ats
  <1>8. ASSUME Ats(r, i) # {} PROVE LastAt(t, n + i) = n + LastAt(r, i)
    <2>1. PICK k \in Int : k = LastAt(r, i) /\ k \in Ats(r, i) /\ \A h \in Ats(r, i) : h <= k
      BY <1>8, LastAtIs
    <2>2. n + k \in Ats(t, n + i)  BY <2>1, <1>6
    <2>3. ASSUME NEW h \in Ats(t, n + i) PROVE h <= n + k
      <3>1. h \in Int /\ h - n \in Ats(r, i)  BY <1>7
      <3>2. h - n <= k  BY <3>1, <2>1
      <3>. QED  BY <3>1, <3>2
    <2>4. n + i \in 1..Len(t) /\ n + k \in Int  BY <1>1, <1>5
    <2>5. LastAt(t, n + i) = n + k  BY <2>2, <2>3, <2>4, LastAtOnly
    <2>. QED  BY <2>1, <2>5
  <1>9. \A h \in Ats(t, n + i) : \E k \in Ats(r, i) : h = n + k  BY <1>7
  <1>. QED  BY <1>1, <1>5, <1>6, <1>8, <1>9

LEMMA UserinfosOfBoth ==
    ASSUME NEW p \in Seq(Marks), NEW r \in Seq(Marks), ClosesAuthorities(p)
    PROVE  userinfos(p \o r) = userinfos(p) \cup Moved(userinfos(r), Len(p))
  <1>1. PICK n \in Nat, m \in Nat : n = Len(p) /\ m = Len(r)  OBVIOUS
  <1>2. PICK t \in Seq(Marks) :
           /\ t = p \o r /\ Len(t) = n + m
           /\ \A h \in 1..n : t[h] = p[h]
           /\ \A h \in 1..m : t[n + h] = r[h]
    <2>1. /\ p \o r \in Seq(Marks) /\ Len(p \o r) = Len(p) + Len(r)
          /\ \A h \in 1..Len(p) : (p \o r)[h] = p[h]
          /\ \A h \in 1..Len(r) : (p \o r)[Len(p) + h] = r[h]
      BY Both
    <2>. QED  BY <2>1, <1>1
  <1>3. \A i \in 1..n : p[i] = "://" => Ats(t, i) = Ats(p, i) /\ LastAt(t, i) = LastAt(p, i)
    BY <1>1, <1>2, AtsStay
  <1>4. ASSUME NEW i \in 1..m
        PROVE  /\ Ats(t, n + i) = {} <=> Ats(r, i) = {}
               /\ Ats(r, i) # {} => LastAt(t, n + i) = n + LastAt(r, i)
    <2>1. /\ \A h \in Ats(r, i) : n + h \in Ats(t, n + i)
          /\ \A h \in Ats(t, n + i) : \E k \in Ats(r, i) : h = n + k
          /\ Ats(r, i) # {} => LastAt(t, n + i) = n + LastAt(r, i)
      BY <1>1, <1>2, AtsMove
    <2>. QED  BY <2>1
  <1>5. ASSUME NEW c \in userinfos(t) PROVE c \in userinfos(p) \cup Moved(userinfos(r), n)
    <2>1. PICK i \in 1..(n + m) : t[i] = "://" /\ Ats(t, i) # {} /\ c = <<i + 1, LastAt(t, i)>>
      <3>1. PICK i \in 1..Len(t) : t[i] = "://" /\ Ats(t, i) # {} /\ c = <<i + 1, LastAt(t, i)>>
        BY UserinfosAre
      <3>. QED  BY <3>1, <1>2
    <2>2. CASE i <= n
      <3>1. i \in 1..n /\ p[i] = "://" /\ Ats(p, i) # {} /\ c = <<i + 1, LastAt(p, i)>>
        BY <2>1, <2>2, <1>2, <1>3
      <3>2. c \in userinfos(p)  BY <3>1, <1>1, UserinfosAre
      <3>. QED  BY <3>2
    <2>3. CASE ~(i <= n)
      <3>1. i - n \in 1..m /\ n + (i - n) = i /\ i + 1 = n + ((i - n) + 1)  BY <2>1, <2>3, <1>1
      <3>2. PICK h \in 1..m : h = i - n /\ i = n + h /\ i + 1 = n + (h + 1)  BY <3>1
      <3>3. r[h] = "://" /\ Ats(r, h) # {} /\ LastAt(t, i) = n + LastAt(r, h)
        BY <3>2, <2>1, <1>2, <1>4
      <3>. DEFINE d == <<h + 1, LastAt(r, h)>>
      <3>4. d \in userinfos(r)  BY <3>3, <1>1, UserinfosAre
      <3>5. c = <<n + d[1], n + d[2]>>  BY <3>2, <3>3, <2>1
      <3>6. c \in Moved(userinfos(r), n)  BY <3>4, <3>5 DEF Moved
      <3>. QED  BY <3>6
    <2>. QED  BY <2>2, <2>3
  <1>6. ASSUME NEW c \in userinfos(p) PROVE c \in userinfos(t)
    <2>1. PICK i \in 1..n : p[i] = "://" /\ Ats(p, i) # {} /\ c = <<i + 1, LastAt(p, i)>>
      BY <1>1, UserinfosAre
    <2>2. i \in 1..(n + m) /\ t[i] = "://" /\ Ats(t, i) # {} /\ c = <<i + 1, LastAt(t, i)>>
      BY <2>1, <1>1, <1>2, <1>3
    <2>. QED  BY <2>2, <1>2, UserinfosAre
  <1>7. ASSUME NEW c \in Moved(userinfos(r), n) PROVE c \in userinfos(t)
    <2>1. PICK d \in userinfos(r) : c = <<n + d[1], n + d[2]>>  BY DEF Moved
    <2>2. PICK i \in 1..m : r[i] = "://" /\ Ats(r, i) # {} /\ d = <<i + 1, LastAt(r, i)>>
      BY <1>1, UserinfosAre
    <2>3. n + i \in 1..(n + m) /\ n + (i + 1) = (n + i) + 1  BY <1>1
    <2>4. t[n + i] = "://" /\ Ats(t, n + i) # {} /\ c = <<(n + i) + 1, LastAt(t, n + i)>>
      BY <2>1, <2>2, <2>3, <1>2, <1>4
    <2>. QED  BY <2>3, <2>4, <1>2, UserinfosAre
  <1>. QED  BY <1>1, <1>2, <1>5, <1>6, <1>7

\* What scrub_userinfo shows of a text whose authorities have ended does not
\* depend on what comes after it, nor the other way round.
THEOREM UserinfoOfBoth ==
    ASSUME NEW p \in Seq(Marks), NEW r \in Seq(Marks), ClosesAuthorities(p)
    PROVE  scrub_userinfo(p \o r) = scrub_userinfo(p) \o scrub_userinfo(r)
  <1>. DEFINE R == <<Redacted, "@">>
  <1>1. R \in Seq(Marks)
    <2>1. Redacted \in Marks /\ "@" \in Marks  BY DEF Marks
    <2>. QED  BY <2>1
  <1>2. FitIn(userinfos(p), p) /\ FitIn(userinfos(r), r)  BY UserinfosAre
  <1>3. FitIn(userinfos(p \o r), p \o r) /\ Fall(userinfos(p \o r), p, userinfos(p), r, userinfos(r))
    BY <1>2, UserinfosOfBoth, CutsFall
  <1>4. Without(p \o r, userinfos(p \o r), R) = Without(p, userinfos(p), R) \o Without(r, userinfos(r), R)
    <2>. HIDE DEF R
    <2>. QED  BY <1>1, <1>2, <1>3, WithoutBoth
  <1>. QED  BY <1>4 DEF scrub_userinfo

-----------------------------------------------------------------------------
(* Where the value of a key is.                                             *)

After(t, k) == IF At(t, k + 1, {"quote"}) THEN k + 2 ELSE k + 1
Sep(t, k) == AfterSpaces(t, After(t, k))
Start(t, k) ==
    IF At(t, k + 1, {"quote"}) \/ At(t, Sep(t, k), {"="}) THEN AfterSpaces(t, Sep(t, k) + 1)
    ELSE Sep(t, k) + 1

\* value_of_key in the words of this module.
LEMMA ValueOfKey ==
    ASSUME NEW t, NEW k
    PROVE  value_of_key(t, k) =
             IF At(t, k - 1, Words) \/ ~At(t, Sep(t, k), {"=", ":"}) THEN {}
             ELSE IF At(t, Start(t, k), {"quote"})
                  THEN {<<Start(t, k) + 1, First(t, Start(t, k) + 1, {"quote"}) - 1>>}
                  ELSE {<<Start(t, k), First(t, Start(t, k), Ends) - 1>>}
  BY Zenon DEF value_of_key, After, Sep, Start, Ends

LEMMA SepIs ==
    ASSUME NEW t \in Seq(Marks), NEW k \in 1..Len(t)
    PROVE  /\ After(t, k) \in (k + 1)..(Len(t) + 1)
           /\ Sep(t, k) \in (k + 1)..(Len(t) + 1)
  <1>1. PICK n \in Nat : n = Len(t) /\ k \in 1..n  OBVIOUS
  <1>2. After(t, k) \in (k + 1)..(n + 1)  BY <1>1 DEF After, At
  <1>3. PICK a \in 1..(n + 1) : a = After(t, k) /\ a \in (k + 1)..(n + 1)  BY <1>1, <1>2
  <1>4. Sep(t, k) \in a..(n + 1)  BY <1>1, <1>3, AfterSpacesIs DEF Sep
  <1>. QED  BY <1>1, <1>3, <1>4

LEMMA StartIs ==
    ASSUME NEW t \in Seq(Marks), NEW k \in 1..Len(t), At(t, Sep(t, k), {"=", ":"})
    PROVE  /\ Sep(t, k) \in (k + 1)..Len(t) /\ t[Sep(t, k)] \in {"=", ":"}
           /\ Start(t, k) \in (Sep(t, k) + 1)..(Len(t) + 1)
  <1>1. PICK n \in Nat : n = Len(t) /\ k \in 1..n  OBVIOUS
  <1>2. PICK s \in (k + 1)..n : s = Sep(t, k) /\ t[s] \in {"=", ":"}
    BY <1>1, SepIs DEF At
  <1>3. AfterSpaces(t, s + 1) \in (s + 1)..(n + 1)
    <2>1. s + 1 \in 1..(n + 1)  BY <1>1, <1>2
    <2>. QED  BY <2>1, <1>1, AfterSpacesIs
  <1>4. Start(t, k) \in (s + 1)..(n + 1)
    <2>1. Start(t, k) = AfterSpaces(t, s + 1) \/ Start(t, k) = s + 1  BY <1>2 DEF Start
    <2>2. s + 1 \in (s + 1)..(n + 1)  BY <1>1, <1>2
    <2>. QED  BY <2>1, <2>2, <1>3
  <1>. QED  BY <1>1, <1>2, <1>4

LEMMA AtMoves ==
    ASSUME NEW p \in Seq(Marks), NEW r \in Seq(Marks), NEW i \in Nat \ {0}, NEW marks
    PROVE  At(p \o r, Len(p) + i, marks) <=> At(r, i, marks)
  <1>1. PICK n \in Nat, m \in Nat : n = Len(p) /\ m = Len(r)  OBVIOUS
  <1>2. /\ Len(p \o r) = n + m
        /\ \A h \in 1..m : (p \o r)[n + h] = r[h]
    BY <1>1, Both
  <1>3. n + i \in 1..(n + m) <=> i \in 1..m  BY <1>1
  <1>. QED  BY <1>1, <1>2, <1>3 DEF At

LEMMA MovedOne ==
    ASSUME NEW a, NEW b, NEW n
    PROVE  Moved({<<a, b>>}, n) = {<<n + a, n + b>>}
  BY DEF Moved

\* The value of a key is where it was, further on, unless a word now comes before.
LEMMA ValueMoves ==
    ASSUME NEW p \in Seq(Marks), NEW r \in Seq(Marks), NEW k \in 1..Len(r),
           k > 1 \/ p = <<>> \/ p[Len(p)] \notin Words
    PROVE  value_of_key(p \o r, Len(p) + k) = Moved(value_of_key(r, k), Len(p))
  <1>1. PICK n \in Nat, m \in Nat : n = Len(p) /\ m = Len(r) /\ k \in 1..m  OBVIOUS
  <1>2. PICK t \in Seq(Marks) : t = p \o r /\ Len(t) = n + m  BY <1>1, Both
  <1>3. ASSUME NEW i \in Nat \ {0}, NEW marks
        PROVE  At(t, n + i, marks) <=> At(r, i, marks)
    BY <1>1, <1>2, AtMoves
  <1>4. At(t, n + k - 1, Words) <=> At(r, k - 1, Words)
    <2>1. CASE k > 1
      <3>1. k - 1 \in Nat \ {0} /\ n + (k - 1) = n + k - 1  BY <2>1, <1>1
      <3>. QED  BY <3>1, <1>3
    <2>2. CASE ~(k > 1)
      <3>1. k = 1 /\ n + k - 1 = n /\ k - 1 = 0  BY <2>2, <1>1
      <3>2. ~At(r, 0, Words)  BY <1>1 DEF At
      <3>3. ~At(t, n, Words)
        <4>1. CASE n = 0
          BY <4>1 DEF At
        <4>2. CASE n # 0
          <5>1. p # <<>>  BY <4>2, <1>1, EmptySeq
          <5>2. n \in 1..n /\ p[n] \notin Words  BY <5>1, <4>2, <2>2, <1>1
          <5>3. t[n] = p[n]  BY <5>2, <1>1, <1>2, Both
          <5>. QED  BY <5>2, <5>3 DEF At
        <4>. QED  BY <4>1, <4>2
      <3>. QED  BY <3>1, <3>2, <3>3
    <2>. QED  BY <2>1, <2>2
  <1>5. PICK a \in (k + 1)..(m + 1) : a = After(r, k) /\ After(t, n + k) = n + a
    <2>1. After(r, k) \in (k + 1)..(m + 1)  BY <1>1, SepIs
    <2>2. k + 1 \in Nat \ {0} /\ n + (k + 1) = (n + k) + 1  BY <1>1
    <2>3. At(t, (n + k) + 1, {"quote"}) <=> At(r, k + 1, {"quote"})  BY <2>2, <1>3
    <2>4. After(t, n + k) = n + After(r, k)  BY <2>3, <1>1 DEF After
    <2>. QED  BY <2>1, <2>4
  <1>6. PICK s \in (k + 1)..(m + 1) : s = Sep(r, k) /\ Sep(t, n + k) = n + s
    <2>1. Sep(r, k) \in (k + 1)..(m + 1)  BY <1>1, SepIs
    <2>2. a \in 1..(Len(r) + 1)  BY <1>1, <1>5
    <2>3. AfterSpaces(t, n + a) = n + AfterSpaces(r, a)  BY <2>2, <1>1, <1>2, AfterSpacesMoves
    <2>4. Sep(t, n + k) = n + Sep(r, k)  BY <2>3, <1>5 DEF Sep
    <2>. QED  BY <2>1, <2>4
  <1>7. /\ s \in Nat \ {0} /\ s + 1 \in Nat \ {0}
        /\ \A marks : At(t, n + s, marks) <=> At(r, s, marks)
    <2>1. s \in Nat \ {0} /\ s + 1 \in Nat \ {0}  BY <1>1
    <2>. QED  BY <2>1, <1>3
  <1>8. CASE At(r, k - 1, Words) \/ ~At(r, s, {"=", ":"})
    <2>1. value_of_key(r, k) = {}  BY <1>8, <1>6, ValueOfKey
    <2>2. value_of_key(t, n + k) = {}  BY SMTT(20), <1>8, <1>4, <1>6, <1>7, ValueOfKey
    <2>. QED  BY <2>1, <2>2, <1>1, <1>2 DEF Moved
  <1>9. CASE ~At(r, k - 1, Words) /\ At(r, s, {"=", ":"})
    <2>1. PICK e \in 1..(m + 1) : e = Start(r, k) /\ Start(t, n + k) = n + e
      <3>1. s \in 1..m /\ Start(r, k) \in 1..(m + 1)
        <4>1. s \in (k + 1)..m /\ Start(r, k) \in (s + 1)..(m + 1)
          BY <1>1, <1>6, <1>9, StartIs
        <4>. QED  BY <4>1, <1>1
      <3>2. s + 1 \in 1..(Len(r) + 1) /\ n + (s + 1) = (n + s) + 1  BY <3>1, <1>1
      <3>3. AfterSpaces(t, (n + s) + 1) = n + AfterSpaces(r, s + 1)
        BY <3>2, <1>1, <1>2, AfterSpacesMoves
      <3>4. At(t, (n + k) + 1, {"quote"}) <=> At(r, k + 1, {"quote"})
        <4>1. k + 1 \in Nat \ {0} /\ n + (k + 1) = (n + k) + 1  BY <1>1
        <4>. QED  BY <4>1, <1>3
      <3>5. Start(t, n + k) = n + Start(r, k)
        BY <3>2, <3>3, <3>4, <1>6, <1>7 DEF Start
      <3>. QED  BY <3>1, <3>5
    <2>2. At(t, n + e, {"quote"}) <=> At(r, e, {"quote"})  BY <2>1, <1>3
    <2>3. ~At(t, n + k - 1, Words) /\ At(t, n + s, {"=", ":"})  BY <1>4, <1>7, <1>9
    <2>4. CASE At(r, e, {"quote"})
      <3>1. e + 1 \in 1..(m + 1) /\ n + (e + 1) = (n + e) + 1
        BY SMTT(20), <2>1, <2>4, <1>1 DEF At
      <3>2. PICK f \in 1..(m + 1) : f = First(r, e + 1, {"quote"}) /\ First(t, (n + e) + 1, {"quote"}) = n + f
        <4>1. First(r, e + 1, {"quote"}) \in (e + 1)..(m + 1)  BY <3>1, <1>1, FirstIs
        <4>2. First(r, e + 1, {"quote"}) \in 1..(m + 1)  BY <4>1, <3>1, <1>1
        <4>3. First(t, n + (e + 1), {"quote"}) = n + First(r, e + 1, {"quote"})
          <5>1. e + 1 \in 1..(Len(r) + 1)  BY <3>1, <1>1
          <5>. QED  BY <5>1, <1>1, <1>2, FirstMoves
        <4>. QED  BY <4>2, <4>3, <3>1
      <3>3. value_of_key(r, k) = {<<e + 1, f - 1>>}
        <4>1. value_of_key(r, k) = {<<e + 1, First(r, e + 1, {"quote"}) - 1>>}
          BY Zenon, <2>1, <2>4, <1>6, <1>9, ValueOfKey
        <4>. QED  BY Zenon, <4>1, <3>2
      <3>4. value_of_key(t, n + k) = {<<(n + e) + 1, (n + f) - 1>>}
        <4>1. /\ ~At(t, (n + k) - 1, Words) /\ At(t, Sep(t, n + k), {"=", ":"})
              /\ At(t, Start(t, n + k), {"quote"})
          BY <2>1, <2>2, <2>3, <2>4, <1>6
        <4>2. value_of_key(t, n + k) =
                {<<Start(t, n + k) + 1, First(t, Start(t, n + k) + 1, {"quote"}) - 1>>}
          BY Zenon, <4>1, ValueOfKey
        <4>. QED  BY Zenon, <4>2, <3>2, <2>1
      <3>5. (n + e) + 1 = n + (e + 1) /\ (n + f) - 1 = n + (f - 1)  OBVIOUS
      <3>6. Moved({<<e + 1, f - 1>>}, n) = {<<n + (e + 1), n + (f - 1)>>}  BY MovedOne
      <3>. QED  BY <3>3, <3>4, <3>5, <3>6, <1>1, <1>2
    <2>5. CASE ~At(r, e, {"quote"})
      <3>2. PICK f \in 1..(m + 1) : f = First(r, e, Ends) /\ First(t, n + e, Ends) = n + f
        <4>1. First(r, e, Ends) \in e..(m + 1)  BY <2>1, <1>1, FirstIs
        <4>2. First(r, e, Ends) \in 1..(m + 1)  BY <4>1, <2>1, <1>1
        <4>3. First(t, n + e, Ends) = n + First(r, e, Ends)
          <5>1. e \in 1..(Len(r) + 1)  BY <2>1, <1>1
          <5>. QED  BY <5>1, <1>1, <1>2, FirstMoves
        <4>. QED  BY <4>2, <4>3
      <3>3. value_of_key(r, k) = {<<e, f - 1>>}
        <4>1. value_of_key(r, k) = {<<e, First(r, e, Ends) - 1>>}
          BY Zenon, <2>1, <2>5, <1>6, <1>9, ValueOfKey
        <4>. QED  BY Zenon, <4>1, <3>2
      <3>4. value_of_key(t, n + k) = {<<n + e, (n + f) - 1>>}
        <4>1. /\ ~At(t, (n + k) - 1, Words) /\ At(t, Sep(t, n + k), {"=", ":"})
              /\ ~At(t, Start(t, n + k), {"quote"})
          BY <2>1, <2>2, <2>3, <2>5, <1>6
        <4>2. value_of_key(t, n + k) =
                {<<Start(t, n + k), First(t, Start(t, n + k), Ends) - 1>>}
          BY Zenon, <4>1, ValueOfKey
        <4>. QED  BY Zenon, <4>2, <3>2, <2>1
      <3>5. (n + f) - 1 = n + (f - 1)  BY <3>2, <1>1
      <3>6. Moved({<<e, f - 1>>}, n) = {<<n + e, n + (f - 1)>>}  BY MovedOne
      <3>. QED  BY <3>3, <3>4, <3>5, <3>6, <1>1, <1>2
    <2>. QED  BY <2>4, <2>5
  <1>. QED  BY <1>8, <1>9

\* What may come after a text that has said something whole.
Opens(r) ==
    \/ r = <<>>
    \/ /\ r[1] \in {"space", "&"}
       /\ Len(r) >= 2 /\ r[2] \notin {"=", ":", "space"}

\* No value is still to come at the end of a text, or waits for its quote.
ClosesValues(p) ==
    \A k \in 1..Len(p) : p[k] = "key" =>
        /\ p[Len(p)] \notin {"=", ":", "space"}
        /\ \A c \in value_of_key(p, k) : p[c[1] - 1] = "quote" => c[2] < Len(p)

LEMMA AtStays ==
    ASSUME NEW p \in Seq(Marks), NEW r \in Seq(Marks), NEW i \in Int, i <= Len(p), NEW marks
    PROVE  At(p \o r, i, marks) <=> At(p, i, marks)
  <1>1. PICK n \in Nat, m \in Nat : n = Len(p) /\ m = Len(r)  OBVIOUS
  <1>2. /\ Len(p \o r) = n + m
        /\ \A h \in 1..n : (p \o r)[h] = p[h]
    BY <1>1, Both
  <1>3. i \in 1..(n + m) <=> i \in 1..n  BY <1>1
  <1>. QED  BY <1>1, <1>2, <1>3 DEF At

\* No separator of a key opens a text, and no quote.
LEMMA NoSeparatorOpens ==
    ASSUME NEW r \in Seq(Marks), Opens(r)
    PROVE  ~At(r, AfterSpaces(r, 1), {"=", ":"}) /\ ~At(r, 1, {"quote"})
  <1>1. PICK m \in Nat : m = Len(r)  OBVIOUS
  <1>2. PICK j \in 1..(m + 1) :
           /\ j = AfterSpaces(r, 1)
           /\ \A h \in 1..(j - 1) : r[h] = "space"
           /\ j <= m => r[j] # "space"
    <2>1. 1 \in 1..(m + 1)  BY <1>1
    <2>. QED  BY <2>1, <1>1, AfterSpacesIs
  <1>3. CASE r = <<>>
    <2>1. m = 0  BY <1>3, <1>1, EmptySeq
    <2>. QED  BY <2>1, <1>1 DEF At
  <1>4. CASE r # <<>>
    <2>1. r[1] \in {"space", "&"} /\ m >= 2 /\ r[2] \notin {"=", ":", "space"}
      BY <1>1, <1>4 DEF Opens
    <2>2. j = 1 \/ j = 2
      <3>1. ASSUME j > 2 PROVE FALSE
        <4>1. 2 \in 1..(j - 1)  BY <3>1, <1>2
        <4>. QED  BY <4>1, <2>1, <1>2
      <3>. QED  BY <3>1, <1>2
    <2>3. r[j] \notin {"=", ":"}  BY <2>1, <2>2
    <2>. QED  BY <2>1, <2>3, <1>2 DEF At
  <1>. QED  BY <1>3, <1>4

\* The value of a key that has got it stays, and a key without one gets none.
LEMMA ValueStays ==
    ASSUME NEW p \in Seq(Marks), NEW r \in Seq(Marks), ClosesValues(p), Opens(r),
           NEW k \in 1..Len(p), p[k] = "key"
    PROVE  value_of_key(p \o r, k) = value_of_key(p, k)
  <1>1. PICK n \in Nat, m \in Nat : n = Len(p) /\ m = Len(r) /\ k \in 1..n  OBVIOUS
  <1>2. PICK t \in Seq(Marks) : t = p \o r /\ Len(t) = n + m  BY <1>1, Both
  <1>3. ASSUME NEW i \in Int, i <= n, NEW marks
        PROVE  At(t, i, marks) <=> At(p, i, marks)
    BY <1>1, <1>2, <1>3, AtStays
  <1>4. ASSUME NEW i \in Nat \ {0}, NEW marks
        PROVE  At(t, n + i, marks) <=> At(r, i, marks)
    BY <1>1, <1>2, AtMoves
  <1>5. p[n] \notin {"=", ":", "space"} /\ n > 0  BY <1>1 DEF ClosesValues
  <1>6. At(t, k - 1, Words) <=> At(p, k - 1, Words)
    <2>1. k - 1 \in Int /\ k - 1 <= n  BY <1>1
    <2>. QED  BY <2>1, <1>3
  <1>7. At(t, k + 1, {"quote"}) <=> At(p, k + 1, {"quote"})
    <2>1. CASE k + 1 <= n
      <3>1. k + 1 \in Int  BY <1>1
      <3>. QED  BY <2>1, <3>1, <1>3
    <2>2. CASE k = n
      <3>1. ~At(r, 1, {"quote"})  BY NoSeparatorOpens
      <3>2. ~At(t, n + 1, {"quote"})  BY <3>1, <1>4
      <3>3. ~At(p, n + 1, {"quote"})  BY <1>1 DEF At
      <3>. QED  BY <2>2, <3>2, <3>3
    <2>. QED  BY <2>1, <2>2, <1>1
  <1>8. PICK a \in 1..(n + 1) : a = After(p, k) /\ After(t, k) = a
    <2>1. After(p, k) \in (k + 1)..(n + 1)  BY <1>1, SepIs
    <2>2. After(t, k) = After(p, k)  BY <1>7 DEF After
    <2>. QED  BY <2>1, <2>2, <1>1
  <1>9. PICK s \in 1..(n + 1) : s = Sep(p, k) /\ s \in (k + 1)..(n + 1)
    <2>1. Sep(p, k) \in (k + 1)..(n + 1)  BY <1>1, SepIs
    <2>. QED  BY <2>1, <1>1
  <1>10. CASE s > n
    <2>1. s = n + 1 /\ a = n + 1
      <3>1. a \in 1..(Len(p) + 1)  BY <1>1, <1>8
      <3>2. \A h \in a..(s - 1) : p[h] = "space"  BY <3>1, <1>8, <1>9, AfterSpacesIs DEF Sep
      <3>3. ASSUME a <= n PROVE FALSE
        <4>1. n \in a..(s - 1)  BY <3>3, <1>8, <1>10
        <4>. QED  BY <4>1, <3>2, <1>5
      <3>. QED  BY SMTT(20), <3>3, <1>8, <1>9, <1>10
    <2>2. value_of_key(p, k) = {}
      <3>1. ~At(p, Sep(p, k), {"=", ":"})  BY <1>1, <1>9, <1>10 DEF At
      <3>. QED  BY <3>1, ValueOfKey
    <2>3. Sep(t, k) = n + AfterSpaces(r, 1)
      <3>1. 1 \in 1..(Len(r) + 1)  BY <1>1
      <3>2. AfterSpaces(t, n + 1) = n + AfterSpaces(r, 1)  BY <3>1, <1>1, <1>2, AfterSpacesMoves
      <3>. QED  BY <3>2, <2>1, <1>8 DEF Sep
    <2>4. AfterSpaces(r, 1) \in Nat \ {0}
      <3>1. 1 \in 1..(m + 1)  BY <1>1
      <3>2. AfterSpaces(r, 1) \in 1..(m + 1)  BY <3>1, <1>1, AfterSpacesIs
      <3>. QED  BY <3>2
    <2>5. ~At(t, Sep(t, k), {"=", ":"})
      <3>1. ~At(r, AfterSpaces(r, 1), {"=", ":"})  BY NoSeparatorOpens
      <3>. QED  BY <3>1, <2>3, <2>4, <1>4
    <2>6. value_of_key(t, k) = {}  BY <2>5, ValueOfKey
    <2>. QED  BY <2>2, <2>6, <1>2
  <1>11. CASE s <= n
    <2>1. Sep(t, k) = s
      <3>1. a \in 1..(Len(p) + 1) /\ AfterSpaces(p, a) <= Len(p)  BY <1>1, <1>8, <1>9, <1>11 DEF Sep
      <3>2. AfterSpaces(t, a) = AfterSpaces(p, a)  BY <3>1, <1>2, AfterSpacesStays
      <3>. QED  BY <3>2, <1>8, <1>9 DEF Sep
    <2>2. \A marks : At(t, s, marks) <=> At(p, s, marks)
      <3>1. s \in Int  OBVIOUS
      <3>. QED  BY <3>1, <1>3, <1>11
    <2>3. CASE At(p, k - 1, Words) \/ ~At(p, s, {"=", ":"})
      <3>1. value_of_key(p, k) = {}  BY <2>3, <1>9, ValueOfKey
      <3>2. value_of_key(t, k) = {}  BY <2>1, <2>2, <2>3, <1>6, ValueOfKey
      <3>. QED  BY <3>1, <3>2, <1>2
    <2>4. CASE ~At(p, k - 1, Words) /\ At(p, s, {"=", ":"})
      <3>1. s + 1 \in 1..n /\ s + 1 \in 1..(Len(p) + 1)
        <4>1. p[s] \in {"=", ":"}  BY <2>4 DEF At
        <4>2. s # n  BY <4>1, <1>5
        <4>. QED  BY <4>2, <1>1, <1>11
      <3>2. PICK f \in (s + 1)..n : f = AfterSpaces(p, s + 1)
        <4>1. /\ AfterSpaces(p, s + 1) \in (s + 1)..(n + 1)
              /\ \A h \in (s + 1)..(AfterSpaces(p, s + 1) - 1) : p[h] = "space"
          BY <3>1, <1>1, AfterSpacesIs
        <4>2. ASSUME AfterSpaces(p, s + 1) = n + 1 PROVE FALSE
          <5>1. n \in (s + 1)..((n + 1) - 1)  BY <3>1
          <5>. QED  BY <5>1, <4>1, <4>2, <1>5
        <4>3. PICK x \in (s + 1)..(n + 1) : x = AfterSpaces(p, s + 1) /\ x # n + 1  BY <4>1, <4>2
        <4>4. x \in (s + 1)..n  BY SMTT(20), <4>3, <3>1
        <4>. QED  BY <4>3, <4>4
      <3>3. AfterSpaces(t, s + 1) = f
        <4>1. AfterSpaces(p, s + 1) <= Len(p)  BY <3>2, <1>1
        <4>. QED  BY <4>1, <3>1, <3>2, <1>2, AfterSpacesStays
      <3>4. PICK e \in 1..n : e = Start(p, k) /\ Start(t, k) = e
        <4>1. Start(t, k) = Start(p, k)  BY <3>2, <3>3, <2>1, <2>2, <1>7, <1>9 DEF Start
        <4>2. Start(p, k) = f \/ Start(p, k) = s + 1  BY <3>2, <1>9 DEF Start
        <4>. QED  BY <4>1, <4>2, <3>1, <3>2
      <3>5. At(t, e, {"quote"}) <=> At(p, e, {"quote"})
        <4>1. e \in Int /\ e <= n  BY <1>1
        <4>. QED  BY <4>1, <1>3
      <3>6. ~At(t, k - 1, Words) /\ At(t, Sep(t, k), {"=", ":"})
        BY <2>1, <2>2, <2>4, <1>6
      <3>7. ~At(p, k - 1, Words) /\ At(p, Sep(p, k), {"=", ":"})  BY <2>4, <1>9
      <3>8. CASE At(p, e, {"quote"})
        <4>1. value_of_key(p, k) = {<<e + 1, First(p, e + 1, {"quote"}) - 1>>}
          BY Zenon, <3>4, <3>7, <3>8, ValueOfKey
        <4>2. value_of_key(t, k) = {<<e + 1, First(t, e + 1, {"quote"}) - 1>>}
          BY Zenon, <3>4, <3>5, <3>6, <3>8, ValueOfKey
        <4>3. PICK j \in 1..(n + 1) : j = First(p, e + 1, {"quote"})
          <5>1. e + 1 \in 1..(n + 1)  BY <1>1
          <5>2. First(p, e + 1, {"quote"}) \in (e + 1)..(n + 1)  BY <5>1, <1>1, FirstIs
          <5>. QED  BY <5>2
        <4>4. j <= n
          <5>. DEFINE c == <<e + 1, j - 1>>
          <5>1. c \in value_of_key(p, k) /\ c[1] - 1 = e /\ c[2] = j - 1  BY <4>1, <4>3
          <5>2. p[e] = "quote"  BY <3>8 DEF At
          <5>3. p[c[1] - 1] = "quote" => c[2] < Len(p)
            <6>. HIDE DEF c
            <6>. QED  BY <5>1 DEF ClosesValues
          <5>4. j - 1 < n  BY <5>1, <5>2, <5>3, <1>1
          <5>. QED  BY <5>4
        <4>5. First(t, e + 1, {"quote"}) = First(p, e + 1, {"quote"})
          <5>1. e + 1 \in 1..(Len(p) + 1) /\ First(p, e + 1, {"quote"}) <= Len(p)  BY <4>3, <4>4, <1>1
          <5>. QED  BY <5>1, <1>2, FirstStays
        <4>. QED  BY <4>1, <4>2, <4>5, <1>2
      <3>9. CASE ~At(p, e, {"quote"})
        <4>1. value_of_key(p, k) = {<<e, First(p, e, Ends) - 1>>}
          BY Zenon, <3>4, <3>7, <3>9, ValueOfKey
        <4>2. value_of_key(t, k) = {<<e, First(t, e, Ends) - 1>>}
          BY Zenon, <3>4, <3>5, <3>6, <3>9, ValueOfKey
        <4>3. First(t, e, Ends) = First(p, e, Ends)
          <5>1. e \in 1..(Len(p) + 1) /\ (r = <<>> \/ r[1] \in Ends)  BY <1>1 DEF Opens, Ends
          <5>. QED  BY <5>1, <1>2, FirstStays
        <4>. QED  BY <4>1, <4>2, <4>3, <1>2
      <3>. QED  BY <3>8, <3>9
    <2>. QED  BY <2>3, <2>4
  <1>. QED  BY <1>1, <1>10, <1>11

LEMMA ValuesOfBoth ==
    ASSUME NEW p \in Seq(Marks), NEW r \in Seq(Marks), ClosesValues(p),
           Opens(r) \/ \A k \in 1..Len(p) : p[k] # "key",
           p = <<>> \/ p[Len(p)] \notin Words \/ r = <<>> \/ r[1] # "key"
    PROVE  values_of_keys(p \o r) = values_of_keys(p) \cup Moved(values_of_keys(r), Len(p))
  <1>1. PICK n \in Nat, m \in Nat : n = Len(p) /\ m = Len(r)  OBVIOUS
  <1>2. PICK t \in Seq(Marks) :
           /\ t = p \o r /\ Len(t) = n + m
           /\ \A h \in 1..n : t[h] = p[h]
           /\ \A h \in 1..m : t[n + h] = r[h]
    <2>1. /\ p \o r \in Seq(Marks) /\ Len(p \o r) = Len(p) + Len(r)
          /\ \A h \in 1..Len(p) : (p \o r)[h] = p[h]
          /\ \A h \in 1..Len(r) : (p \o r)[Len(p) + h] = r[h]
      BY Both
    <2>. QED  BY <2>1, <1>1
  <1>3. ASSUME NEW k \in 1..n, p[k] = "key"
        PROVE  value_of_key(t, k) = value_of_key(p, k)
    BY <1>1, <1>2, <1>3, ValueStays
  <1>4. ASSUME NEW k \in 1..m, r[k] = "key"
        PROVE  value_of_key(t, n + k) = Moved(value_of_key(r, k), n)
    <2>1. k > 1 \/ p = <<>> \/ p[Len(p)] \notin Words
      <3>1. k = 1 => r # <<>> /\ r[1] = "key"  BY <1>1, <1>4, EmptySeq
      <3>. QED  BY <3>1, <1>1
    <2>. QED  BY <2>1, <1>1, <1>2, ValueMoves
  <1>5. \A u \in Seq(Marks) : \A c :
          c \in values_of_keys(u) <=>
            \E k \in 1..Len(u) : u[k] = "key" /\ c \in value_of_key(u, k) /\ c[1] <= c[2]
    BY DEF values_of_keys
  <1>6. ASSUME NEW c, NEW u \in Seq(Marks), NEW k \in 1..Len(u), c \in value_of_key(u, k)
        PROVE  c = <<c[1], c[2]>> /\ c[1] \in Int /\ c[2] \in Int
    <2>1. PICK l \in Nat : l = Len(u) /\ k \in 1..l  OBVIOUS
    <2>2. c = <<c[1], c[2]>> /\ c[1] \in (k + 2)..(l + 1) /\ c[2] \in Int
      BY <2>1, <1>6, ValueIs
    <2>. QED  BY <2>1, <2>2
  <1>7. ASSUME NEW c \in values_of_keys(t)
        PROVE  c \in values_of_keys(p) \cup Moved(values_of_keys(r), n)
    <2>1. PICK k \in 1..(n + m) : t[k] = "key" /\ c \in value_of_key(t, k) /\ c[1] <= c[2]
      <3>1. PICK k \in 1..Len(t) : t[k] = "key" /\ c \in value_of_key(t, k) /\ c[1] <= c[2]
        BY <1>5
      <3>. QED  BY <3>1, <1>2
    <2>2. CASE k <= n
      <3>1. k \in 1..n /\ p[k] = "key"  BY <2>1, <2>2, <1>1, <1>2
      <3>2. c \in value_of_key(p, k)  BY <3>1, <2>1, <1>3
      <3>3. c \in values_of_keys(p)  BY <3>1, <3>2, <2>1, <1>1, <1>5
      <3>. QED  BY <3>3
    <2>3. CASE ~(k <= n)
      <3>1. k - n \in 1..m /\ n + (k - n) = k  BY <2>3, <1>1
      <3>2. PICK h \in 1..m : k = n + h  BY <3>1
      <3>3. r[h] = "key"  BY <3>2, <2>1, <1>2
      <3>4. c \in Moved(value_of_key(r, h), n)  BY <3>2, <3>3, <2>1, <1>4
      <3>5. PICK d \in value_of_key(r, h) : c = <<n + d[1], n + d[2]>>  BY <3>4 DEF Moved
      <3>6. PICK a \in Int, b \in Int : a = d[1] /\ b = d[2]  BY <1>1, <1>6
      <3>7. a <= b
        <4>1. n + a <= n + b  BY <3>5, <3>6, <2>1
        <4>. QED  BY <4>1
      <3>8. d \in values_of_keys(r)  BY <3>3, <3>6, <3>7, <1>1, <1>5
      <3>9. c \in Moved(values_of_keys(r), n)  BY <3>5, <3>8 DEF Moved
      <3>. QED  BY <3>9
    <2>. QED  BY <2>2, <2>3
  <1>8. ASSUME NEW c \in values_of_keys(p) PROVE c \in values_of_keys(t)
    <2>1. PICK k \in 1..n : p[k] = "key" /\ c \in value_of_key(p, k) /\ c[1] <= c[2]
      BY <1>1, <1>5
    <2>2. k \in 1..Len(t) /\ t[k] = "key"  BY <2>1, <1>2
    <2>3. c \in value_of_key(t, k)  BY <2>1, <1>3
    <2>. QED  BY <2>1, <2>2, <2>3, <1>5
  <1>9. ASSUME NEW c \in Moved(values_of_keys(r), n) PROVE c \in values_of_keys(t)
    <2>1. PICK d \in values_of_keys(r) : c = <<n + d[1], n + d[2]>>  BY DEF Moved
    <2>2. PICK h \in 1..m : r[h] = "key" /\ d \in value_of_key(r, h) /\ d[1] <= d[2]
      BY <1>1, <1>5
    <2>3. PICK a \in Int, b \in Int : a = d[1] /\ b = d[2]  BY <2>2, <1>1, <1>6
    <2>4. c[1] <= c[2]
      <3>1. a <= b  BY <2>2, <2>3
      <3>2. n + a <= n + b  BY <3>1
      <3>. QED  BY <3>2, <2>1, <2>3
    <2>5. c \in value_of_key(t, n + h)
      <3>1. c \in Moved(value_of_key(r, h), n)  BY <2>1, <2>2 DEF Moved
      <3>. QED  BY <3>1, <2>2, <1>4
    <2>6. n + h \in 1..Len(t) /\ t[n + h] = "key"  BY SMTT(20), <2>2, <1>2
    <2>. QED  BY <2>4, <2>5, <2>6, <1>5
  <1>. QED  BY <1>1, <1>2, <1>7, <1>8, <1>9

LEMMA ValuesFit ==
    ASSUME NEW t \in Seq(Marks)
    PROVE  FitIn(values_of_keys(t), t)
  <1>. SUFFICES ASSUME NEW c \in values_of_keys(t)
                PROVE  c[1] \in 1..Len(t) /\ c[2] \in c[1]..Len(t)
    BY DEF FitIn
  <1>1. PICK n \in Nat : n = Len(t)  OBVIOUS
  <1>2. c[1] \in 3..n /\ c[2] \in c[1]..n  BY <1>1, CutIs
  <1>. QED  BY <1>1, <1>2

\* What scrub_params shows of a text does not depend on what comes after it: no
\* value of one text takes in marks of the next, and no key of the next gets lost.
THEOREM ParamsOfBoth ==
    ASSUME NEW p \in Seq(Marks), NEW r \in Seq(Marks), ClosesValues(p),
           Opens(r) \/ \A k \in 1..Len(p) : p[k] # "key",
           p = <<>> \/ p[Len(p)] \notin Words \/ r = <<>> \/ r[1] # "key"
    PROVE  scrub_params(p \o r) = scrub_params(p) \o scrub_params(r)
  <1>. DEFINE R == <<Redacted>>
  <1>1. R \in Seq(Marks)
    <2>1. Redacted \in Marks  BY DEF Marks
    <2>. QED  BY <2>1
  <1>2. FitIn(values_of_keys(p), p) /\ FitIn(values_of_keys(r), r)  BY ValuesFit
  <1>3. values_of_keys(p \o r) = values_of_keys(p) \cup Moved(values_of_keys(r), Len(p))
    BY ValuesOfBoth
  <1>4. /\ FitIn(values_of_keys(p \o r), p \o r)
        /\ Fall(values_of_keys(p \o r), p, values_of_keys(p), r, values_of_keys(r))
    BY <1>2, <1>3, CutsFall
  <1>5. Without(p \o r, values_of_keys(p \o r), R) =
          Without(p, values_of_keys(p), R) \o Without(r, values_of_keys(r), R)
    <2>. HIDE DEF R
    <2>. QED  BY <1>1, <1>2, <1>4, WithoutBoth
  <1>. QED  BY <1>5 DEF scrub_params

\* Where nothing is cut, the marks stand.
Standing(f, t, cuts) ==
    \A a, b \in Nat :
        /\ 1 <= a /\ a <= b + 1 /\ b <= Len(t)
        /\ \A i \in a..b : EndsAt(cuts, i) = {}
        => f[a] = SubSeq(t, a, b) \o f[b + 1]

\* Where nothing is cut the text is left as it is.
LEMMA Stands ==
    ASSUME NEW t \in Seq(Marks), NEW cuts, FitIn(cuts, t), NEW instead \in Seq(Marks),
           NEW f, From(f, t, cuts, instead)
    PROVE  Standing(f, t, cuts)
  <1>. SUFFICES ASSUME NEW a \in Nat, NEW b \in Nat, 1 <= a, a <= b + 1, b <= Len(t),
                       \A i \in a..b : EndsAt(cuts, i) = {}
                PROVE  f[a] = SubSeq(t, a, b) \o f[b + 1]
    BY DEF Standing
  <1>1. PICK n \in Nat, m \in Nat : n = Len(t) /\ m = b + 1 /\ b \in (a - 1)..n /\ a \in 1..(n + 1)
    OBVIOUS
  <1>2. \A i \in 1..(n + 1) : f[i] \in Seq(Marks)  BY <1>1, LeftIsText
  <1>3. f[m] \in Seq(Marks)
    <2>1. m \in 1..(n + 1)  BY <1>1
    <2>. QED  BY <2>1, <1>2
  <1>. DEFINE S == {i \in 1..m : i >= a => f[i] = SubSeq(t, i, b) \o f[m]}
  <1>4. ASSUME NEW i \in 1..m, \A j \in (i + 1)..m : j \in S
        PROVE  i \in S
    <2>. SUFFICES ASSUME i >= a PROVE f[i] = SubSeq(t, i, b) \o f[m]  OBVIOUS
    <2>1. CASE i = m
      <3>1. SubSeq(t, i, b) = <<>>
        <4>1. b < i /\ i \in Int /\ b \in Int  BY <2>1, <1>1
        <4>. QED  BY <4>1, SubSeqEmpty
      <3>2. <<>> \o f[m] = f[m]  BY <1>3, ConcatEmptySeq
      <3>. QED  BY <2>1, <3>1, <3>2
    <2>2. CASE i # m
      <3>1. /\ i \in a..b /\ i \in 1..n /\ i + 1 \in (i + 1)..m /\ i + 1 >= a /\ ~(i > n)
            /\ i + 1 \in 1..(n + 1) /\ b \in i..n
        BY <2>2, <1>1
      <3>2. EndsAt(cuts, i) = {}  BY <3>1
      <3>3. f[i] = <<t[i]>> \o f[i + 1]
        <4>1. i \in 1..(Len(t) + 1)  BY <3>1, <1>1
        <4>2. Left(f, t, cuts, instead, i)  BY <4>1 DEF From
        <4>. QED  BY <4>2, <3>1, <3>2, <1>1 DEF Left
      <3>4. f[i + 1] = SubSeq(t, i + 1, b) \o f[m]  BY <3>1, <1>4
      <3>5. <<t[i]>> \in Seq(Marks)
        <4>1. t[i] \in Marks  BY <3>1, <1>1, ElementOfSeq
        <4>. QED  BY <4>1
      <3>6. SubSeq(t, i + 1, b) \in Seq(Marks)
        <4>1. \A j \in (i + 1)..b : t[j] \in Marks
          <5>1. \A j \in (i + 1)..b : j \in 1..n  BY <3>1, <1>1
          <5>. QED  BY <5>1, <1>1, ElementOfSeq
        <4>2. i + 1 \in Int /\ b \in Int  BY <1>1, <3>1
        <4>. QED  BY <4>1, <4>2, SubSeqProperties
      <3>7. SubSeq(t, i, b) = <<t[i]>> \o SubSeq(t, i + 1, b)
        <4>1. i \in 1..Len(t) /\ b \in i..Len(t)  BY <3>1, <1>1
        <4>. QED  BY <4>1, SubSeqRecursiveFirst
      <3>8. (<<t[i]>> \o SubSeq(t, i + 1, b)) \o f[m] = <<t[i]>> \o (SubSeq(t, i + 1, b) \o f[m])
        BY ZenonT(30), <3>5, <3>6, <1>3, Together DEF Regroups
      <3>. QED  BY <3>3, <3>4, <3>7, <3>8
    <2>. QED  BY <2>1, <2>2
  <1>. HIDE DEF S
  <1>5. 1..m \subseteq S  BY <1>4, FromTheEnd
  <1>6. a \in 1..m /\ a >= a  BY <1>1
  <1>. QED  BY <1>1, <1>5, <1>6 DEF S

LEMMA WithoutNone ==
    ASSUME NEW t \in Seq(Marks), NEW instead \in Seq(Marks)
    PROVE  Without(t, {}, instead) = t
  <1>1. PICK n \in Nat : n = Len(t)  OBVIOUS
  <1>2. FitIn({}, t)  BY DEF FitIn
  <1>3. PICK f : From(f, t, {}, instead) /\ Without(t, {}, instead) = f[1]
    BY <1>2, WithoutFrom
  <1>4. f[1] = SubSeq(t, 1, n) \o f[n + 1]
    <2>1. 1 \in Nat /\ 1 <= 1 /\ 1 <= n + 1 /\ n <= Len(t)  BY <1>1
    <2>2. \A i \in 1..n : EndsAt({}, i) = {}  BY DEF EndsAt
    <2>3. Standing(f, t, {})  BY <1>2, <1>3, Stands
    <2>. QED  BY <2>1, <2>2, <2>3 DEF Standing
  <1>5. f[n + 1] = <<>>
    <2>1. n + 1 \in 1..(Len(t) + 1) /\ n + 1 > Len(t)  BY <1>1
    <2>2. Left(f, t, {}, instead, n + 1)  BY <2>1, <1>3 DEF From
    <2>. QED  BY <2>1, <2>2 DEF Left
  <1>6. SubSeq(t, 1, n) = t  BY <1>1, SubSeqFull
  <1>7. t \o <<>> = t  BY ConcatEmptySeq
  <1>. QED  BY <1>3, <1>4, <1>5, <1>6, <1>7

\* q is t with the marks from a to b replaced.
Spliced(t, a, b, instead, q) ==
    /\ Len(q) = (a - 1) + Len(instead) + (Len(t) - b)
    /\ \A i \in 1..(a - 1) : q[i] = t[i]
    /\ \A i \in 1..Len(instead) : q[(a - 1) + i] = instead[i]
    /\ \A i \in 1..(Len(t) - b) : q[(a - 1) + Len(instead) + i] = t[b + i]

\* w is the l marks of t after the first d.
Part(w, t, d, l) == w \in Seq(Marks) /\ Len(w) = l /\ \A i \in 1..l : w[i] = t[d + i]

LEMMA PartOf ==
    ASSUME NEW t \in Seq(Marks), NEW d \in Nat, NEW l \in Nat, d + l <= Len(t),
           NEW x \in Int, NEW y \in Int, x = d + 1, y = d + l
    PROVE  Part(SubSeq(t, x, y), t, d, l)
  <1>1. \A i \in x..y : t[i] \in Marks
    <2>1. \A i \in x..y : i \in 1..Len(t)  BY LenProperties
    <2>. QED  BY <2>1, ElementOfSeq
  <1>2. PICK w : w = SubSeq(t, x, y)  OBVIOUS
  <1>3. /\ w \in Seq(Marks)
        /\ Len(w) = IF x <= y THEN y - x + 1 ELSE 0
        /\ \A i \in 1..(y - x + 1) : w[i] = t[x + i - 1]
    BY <1>1, <1>2, SubSeqProperties
  <1>4. y - x + 1 = l /\ (~(x <= y) => l = 0) /\ \A i \in 1..l : x + i - 1 = d + i
    OBVIOUS
  <1>5. Len(w) = l /\ \A i \in 1..l : w[i] = t[d + i]
    BY <1>3, <1>4
  <1>. QED  BY <1>2, <1>3, <1>5 DEF Part

\* q is three texts in a row.
InARow(u, v, w, q) ==
    /\ Len(q) = Len(u) + Len(v) + Len(w)
    /\ \A i \in 1..Len(u) : q[i] = u[i]
    /\ \A i \in 1..Len(v) : q[Len(u) + i] = v[i]
    /\ \A i \in 1..Len(w) : q[Len(u) + Len(v) + i] = w[i]

LEMMA Three ==
    ASSUME NEW u \in Seq(Marks), NEW v \in Seq(Marks), NEW w \in Seq(Marks), NEW q \in Seq(Marks),
           InARow(u, v, w, q)
    PROVE  u \o (v \o w) = q
  <1>1. PICK k \in Nat, l \in Nat, m \in Nat : k = Len(u) /\ l = Len(v) /\ m = Len(w)  OBVIOUS
  <1>2. /\ Len(q) = k + l + m
        /\ \A i \in 1..k : q[i] = u[i]
        /\ \A i \in 1..l : q[k + i] = v[i]
        /\ \A i \in 1..m : q[k + l + i] = w[i]
    BY <1>1 DEF InARow
  <1>3. PICK x \in Seq(Marks) :
           /\ x = v \o w /\ Len(x) = l + m
           /\ \A i \in 1..l : x[i] = v[i]
           /\ \A i \in 1..m : x[l + i] = w[i]
    <2>1. /\ v \o w \in Seq(Marks) /\ Len(v \o w) = Len(v) + Len(w)
          /\ \A i \in 1..Len(v) : (v \o w)[i] = v[i]
          /\ \A i \in 1..Len(w) : (v \o w)[Len(v) + i] = w[i]
      BY Both
    <2>. QED  BY <2>1, <1>1
  <1>4. PICK h \in Nat : h = Len(x) /\ h = l + m  BY <1>3
  <1>5. PICK y \in Seq(Marks) :
           /\ y = u \o x /\ Len(y) = k + h
           /\ \A i \in 1..k : y[i] = u[i]
           /\ \A i \in 1..h : y[k + i] = x[i]
    <2>1. /\ u \o x \in Seq(Marks) /\ Len(u \o x) = Len(u) + Len(x)
          /\ \A i \in 1..Len(u) : (u \o x)[i] = u[i]
          /\ \A i \in 1..Len(x) : (u \o x)[Len(u) + i] = x[i]
      BY Both
    <2>. QED  BY <2>1, <1>1, <1>4
  <1>6. ASSUME NEW i \in 1..(k + h) PROVE y[i] = q[i]
    <2>1. CASE i <= k
      <3>1. i \in 1..k  BY <2>1
      <3>. QED  BY <3>1, <1>2, <1>5
    <2>2. CASE k < i /\ i <= k + l
      <3>1. i - k \in 1..l /\ i - k \in 1..h /\ k + (i - k) = i  BY <2>2, <1>4
      <3>2. y[i] = x[i - k]  BY <3>1, <1>5
      <3>3. x[i - k] = v[i - k]  BY <3>1, <1>3
      <3>4. q[i] = v[i - k]  BY <3>1, <1>2
      <3>. QED  BY <3>2, <3>3, <3>4
    <2>3. CASE k + l < i
      <3>1. PICK j \in 1..m : l + j \in 1..h /\ i = k + (l + j) /\ i = k + l + j
        <4>1. i - (k + l) \in 1..m  BY <2>3, <1>4
        <4>2. l + (i - (k + l)) \in 1..h /\ i = k + (l + (i - (k + l))) /\ i = k + l + (i - (k + l))
          BY <2>3, <1>4
        <4>. QED  BY <4>1, <4>2
      <3>2. y[i] = x[l + j]  BY <3>1, <1>5
      <3>3. x[l + j] = w[j]  BY <3>1, <1>3
      <3>4. q[i] = w[j]  BY <3>1, <1>2
      <3>. QED  BY <3>2, <3>3, <3>4
    <2>. QED  BY <2>1, <2>2, <2>3
  <1>7. Len(y) = Len(q) /\ Len(y) = k + h  BY <1>2, <1>4, <1>5
  <1>8. y = q  BY <1>6, <1>7, SeqEqual
  <1>. QED  BY <1>3, <1>5, <1>8

\* With one cut, the text is left but for it.
LEMMA WithoutOne ==
    ASSUME NEW t \in Seq(Marks), NEW a \in 1..Len(t), NEW b \in a..Len(t),
           NEW instead \in Seq(Marks), NEW q \in Seq(Marks), Spliced(t, a, b, instead, q)
    PROVE  Without(t, {<<a, b>>}, instead) = q
  <1>. DEFINE cuts == {<<a, b>>}
  <1>1. PICK n \in Nat, m \in Nat, l \in Nat, z \in Nat :
           n = Len(t) /\ m = Len(instead) /\ l = a - 1 /\ z = n - b
    OBVIOUS
  <1>2. a = l + 1 /\ n = b + z /\ a \in Nat /\ b \in Nat /\ l < b  BY <1>1
  <1>3. FitIn(cuts, t)  BY DEF FitIn
  <1>4. EndsAt(cuts, a) = {b} /\ \A i : i # a => EndsAt(cuts, i) = {}
    <2>1. {d \in cuts : d[1] = a} = {<<a, b>>} /\ <<a, b>>[2] = b  OBVIOUS
    <2>2. {c[2] : c \in {<<a, b>>}} = {b}  OBVIOUS
    <2>3. \A i : i # a => {d \in cuts : d[1] = i} = {}  OBVIOUS
    <2>4. \A i : i # a => EndsAt(cuts, i) = {}  BY <2>3 DEF EndsAt
    <2>. HIDE DEF cuts
    <2>. QED  BY Zenon, <2>1, <2>2, <2>4 DEF EndsAt
  <1>. HIDE DEF cuts
  <1>5. PICK f : From(f, t, cuts, instead) /\ Without(t, cuts, instead) = f[1]
    BY <1>3, WithoutFrom
  <1>6. Standing(f, t, cuts)  BY <1>3, <1>5, Stands
  <1>7. f[1] = SubSeq(t, 1, l) \o f[a]
    <2>1. 1 \in Nat /\ 1 <= 1 /\ 1 <= l + 1 /\ l <= Len(t)  BY <1>1, <1>2
    <2>2. \A i \in 1..l : EndsAt(cuts, i) = {}
      <3>1. \A i \in 1..l : i # a  BY <1>2
      <3>. QED  BY <3>1, <1>4
    <2>. QED  BY <2>1, <2>2, <1>2, <1>6 DEF Standing
  <1>8. f[a] = instead \o f[b + 1]
    <2>1. a \in 1..(Len(t) + 1) /\ ~(a > Len(t))  BY <1>1
    <2>2. Left(f, t, cuts, instead, a)  BY <2>1, <1>5 DEF From
    <2>3. EndAt(cuts, a) = b /\ EndsAt(cuts, a) # {}
      <3>1. EndAt(cuts, a) \in EndsAt(cuts, a)  BY <1>3, <1>4, EndIs
      <3>. QED  BY <3>1, <1>4
    <2>. QED  BY <2>1, <2>2, <2>3 DEF Left
  <1>9. f[b + 1] = SubSeq(t, b + 1, n) \o f[n + 1]
    <2>1. b + 1 \in Nat /\ n \in Nat /\ 1 <= b + 1 /\ b + 1 <= n + 1 /\ n <= Len(t)  BY <1>1, <1>2
    <2>2. \A i \in (b + 1)..n : EndsAt(cuts, i) = {}
      <3>1. \A i \in (b + 1)..n : i # a  BY <1>2
      <3>. QED  BY <3>1, <1>4
    <2>. QED  BY <2>1, <2>2, <1>6 DEF Standing
  <1>10. f[n + 1] = <<>>
    <2>1. n + 1 \in 1..(Len(t) + 1) /\ n + 1 > Len(t)  BY <1>1
    <2>2. Left(f, t, cuts, instead, n + 1)  BY <2>1, <1>5 DEF From
    <2>. QED  BY <2>1, <2>2 DEF Left
  <1>11. PICK u \in Seq(Marks) : u = SubSeq(t, 1, l) /\ Len(u) = l /\ \A i \in 1..l : u[i] = t[i]
    <2>1. 0 \in Nat /\ 0 + l <= Len(t) /\ 0 + 1 = 1 /\ 0 + l = l /\ \A i \in 1..l : 0 + i = i
      BY <1>1, <1>2
    <2>2. Part(SubSeq(t, 1, l), t, 0, l)  BY <2>1, PartOf
    <2>. QED  BY <2>1, <2>2 DEF Part
  <1>12. PICK w \in Seq(Marks) :
            w = SubSeq(t, b + 1, n) /\ Len(w) = z /\ \A i \in 1..z : w[i] = t[b + i]
    <2>1. b + z <= Len(t) /\ n = b + z /\ b + 1 \in Int /\ n \in Int /\ b \in Nat  BY <1>1, <1>2
    <2>2. Part(SubSeq(t, b + 1, n), t, b, z)  BY <2>1, PartOf
    <2>. QED  BY <2>2 DEF Part
  <1>13. f[1] = u \o (instead \o w)
    <2>1. w \o <<>> = w  BY ConcatEmptySeq
    <2>. QED  BY <2>1, <1>7, <1>8, <1>9, <1>10, <1>11, <1>12
  <1>14. /\ Len(q) = l + m + z
         /\ \A i \in 1..l : q[i] = u[i]
         /\ \A i \in 1..m : q[l + i] = instead[i]
         /\ \A i \in 1..z : q[l + m + i] = w[i]
    BY <1>1, <1>11, <1>12 DEF Spliced
  <1>15. InARow(u, instead, w, q)  BY ZenonT(30), <1>1, <1>11, <1>12, <1>14 DEF InARow
  <1>16. u \o (instead \o w) = q  BY SMTT(20), <1>15, Three
  <1>. QED  BY <1>5, <1>13, <1>16 DEF cuts

-----------------------------------------------------------------------------
(* Texts in pieces.                                                         *)

\* What comes after a piece: another, after a space or an &.
Opening(r) ==
    \/ r = <<>>
    \/ \E s \in {"space", "&"}, x \in Seq(Marks) :
         r = <<s>> \o x /\ x # <<>> /\ x[1] \notin {"=", ":", "space"}

LEMMA MarksOf ==
    /\ Redacted \in Marks /\ "@" \in Marks /\ "space" \in Marks /\ "&" \in Marks
    /\ <<Redacted>> \in Seq(Marks) /\ <<Redacted, "@">> \in Seq(Marks)
    /\ \A s \in Marks : <<s>> \in Seq(Marks) /\ Len(<<s>>) = 1 /\ <<s>>[1] = s
  <1>1. Redacted \in Marks /\ "@" \in Marks /\ "space" \in Marks /\ "&" \in Marks  BY DEF Marks
  <1>. QED  BY <1>1

\* What is left of a text is a text, which begins as the text does if that is not cut.
LEMMA WithoutIsText ==
    ASSUME NEW t \in Seq(Marks), NEW cuts, FitIn(cuts, t), NEW instead \in Seq(Marks)
    PROVE  /\ Without(t, cuts, instead) \in Seq(Marks)
           /\ t # <<>> /\ EndsAt(cuts, 1) = {} =>
                Without(t, cuts, instead) # <<>> /\ Without(t, cuts, instead)[1] = t[1]
  <1>1. PICK f : From(f, t, cuts, instead) /\ Without(t, cuts, instead) = f[1]
    BY WithoutFrom
  <1>2. \A i \in 1..(Len(t) + 1) : f[i] \in Seq(Marks)  BY <1>1, LeftIsText
  <1>3. 1 \in 1..(Len(t) + 1)  BY LenProperties
  <1>4. ASSUME t # <<>>, EndsAt(cuts, 1) = {}
        PROVE  f[1] # <<>> /\ f[1][1] = t[1]
    <2>1. PICK n \in Nat : n = Len(t) /\ n # 0  BY <1>4, EmptySeq
    <2>2. Left(f, t, cuts, instead, 1)  BY <1>1, <1>3 DEF From
    <2>3. ~(1 > Len(t)) /\ 1 \in 1..Len(t) /\ 2 \in 1..(Len(t) + 1) /\ 1 + 1 = 2  BY <2>1
    <2>4. f[1] = <<t[1]>> \o f[2]  BY <2>2, <2>3, <1>4 DEF Left
    <2>5. t[1] \in Marks  BY <2>3, ElementOfSeq
    <2>6. PICK u \in Seq(Marks), v \in Seq(Marks) : u = <<t[1]>> /\ v = f[2] /\ Len(u) = 1 /\ u[1] = t[1]
      BY <2>3, <2>5, <1>2, MarksOf
    <2>7. /\ Len(u \o v) = Len(u) + Len(v) /\ u \o v \in Seq(Marks)
          /\ \A i \in 1..Len(u) : (u \o v)[i] = u[i]
      BY Both
    <2>8. Len(u \o v) > 0 /\ (u \o v)[1] = t[1]  BY <2>6, <2>7, LenProperties
    <2>9. u \o v # <<>>  BY <2>8, EmptySeq
    <2>. QED  BY <2>4, <2>6, <2>8, <2>9
  <1>. QED  BY <1>1, <1>2, <1>3, <1>4

\* A text without a URL or without a key.
LEMMA NoURL ==
    ASSUME NEW t \in Seq(Marks), \A i \in 1..Len(t) : t[i] # "://"
    PROVE  ClosesAuthorities(t) /\ scrub_userinfo(t) = t
  <1>1. userinfos(t) = {}  BY UserinfosAre
  <1>2. Without(t, {}, <<Redacted, "@">>) = t  BY MarksOf, WithoutNone
  <1>. QED  BY <1>1, <1>2 DEF ClosesAuthorities, scrub_userinfo

LEMMA NoKey ==
    ASSUME NEW t \in Seq(Marks), \A i \in 1..Len(t) : t[i] # "key"
    PROVE  ClosesValues(t) /\ scrub_params(t) = t
  <1>1. values_of_keys(t) = {}  BY DEF values_of_keys
  <1>2. Without(t, {}, <<Redacted>>) = t  BY MarksOf, WithoutNone
  <1>. QED  BY <1>1, <1>2 DEF ClosesValues, scrub_params

LEMMA UserinfoIsText ==
    ASSUME NEW t \in Seq(Marks)
    PROVE  /\ scrub_userinfo(t) \in Seq(Marks)
           /\ t # <<>> => scrub_userinfo(t) # <<>> /\ scrub_userinfo(t)[1] = t[1]
  <1>1. EndsAt(userinfos(t), 1) = {}
    <2>1. ASSUME NEW c \in userinfos(t) PROVE c[1] # 1
      <3>1. PICK i \in 1..Len(t) : c = <<i + 1, LastAt(t, i)>>  BY UserinfosAre
      <3>2. i + 1 # 1  OBVIOUS
      <3>. QED  BY <3>1, <3>2
    <2>. QED  BY <2>1 DEF EndsAt
  <1>2. PICK R \in Seq(Marks) : R = <<Redacted, "@">>  BY MarksOf
  <1>3. FitIn(userinfos(t), t)  BY UserinfosAre
  <1>4. /\ Without(t, userinfos(t), R) \in Seq(Marks)
        /\ t # <<>> => Without(t, userinfos(t), R) # <<>> /\ Without(t, userinfos(t), R)[1] = t[1]
    BY <1>1, <1>3, WithoutIsText
  <1>. QED  BY <1>2, <1>4 DEF scrub_userinfo

LEMMA ParamsIsText ==
    ASSUME NEW t \in Seq(Marks)
    PROVE  scrub_params(t) \in Seq(Marks)
  <1>1. PICK R \in Seq(Marks) : R = <<Redacted>>  BY MarksOf
  <1>2. Without(t, values_of_keys(t), R) \in Seq(Marks)  BY ValuesFit, WithoutIsText
  <1>. QED  BY <1>1, <1>2 DEF scrub_params

\* A separator is shown, and nothing after it otherwise than without it.
LEMMA SeparatorShown ==
    ASSUME NEW s \in {"space", "&"}, NEW x \in Seq(Marks)
    PROVE  /\ scrub_userinfo(<<s>> \o x) = <<s>> \o scrub_userinfo(x)
           /\ scrub(<<s>> \o x) = <<s>> \o scrub(x)
  <1>1. PICK p \in Seq(Marks) : p = <<s>> /\ Len(p) = 1 /\ p[1] = s  BY MarksOf
  <1>2. s # "://" /\ s # "key" /\ s \notin Words  BY DEF Words
  <1>3. \A i \in 1..Len(p) : p[i] # "://" /\ p[i] # "key"  BY <1>1, <1>2
  <1>4. ClosesAuthorities(p) /\ scrub_userinfo(p) = p  BY <1>3, NoURL
  <1>5. ClosesValues(p) /\ scrub_params(p) = p  BY <1>3, NoKey
  <1>6. scrub_userinfo(p \o x) = p \o scrub_userinfo(x)  BY <1>4, UserinfoOfBoth
  <1>7. PICK y \in Seq(Marks) : y = scrub_userinfo(x)  BY UserinfoIsText
  <1>8. p[Len(p)] \notin Words  BY <1>1, <1>2
  <1>9. scrub_params(p \o y) = p \o scrub_params(y)  BY <1>3, <1>5, <1>8, ParamsOfBoth
  <1>. QED  BY <1>1, <1>6, <1>7, <1>9 DEF scrub

\* A text that comes after a piece still does without its user infos.
LEMMA OpeningStays ==
    ASSUME NEW r \in Seq(Marks), Opening(r)
    PROVE  Opens(scrub_userinfo(r)) /\ (scrub_userinfo(r) = <<>> \/ scrub_userinfo(r)[1] # "key")
  <1>1. CASE r = <<>>
    <2>1. \A i \in 1..Len(r) : r[i] # "://"  BY <1>1, EmptySeq
    <2>2. scrub_userinfo(r) = r  BY <2>1, NoURL
    <2>3. scrub_userinfo(r) = <<>>  BY <2>2, <1>1
    <2>4. Opens(<<>>)  BY Zenon DEF Opens
    <2>. QED  BY Zenon, <2>3, <2>4
  <1>2. CASE r # <<>>
    <2>1. PICK s \in {"space", "&"}, x \in Seq(Marks) :
             r = <<s>> \o x /\ x # <<>> /\ x[1] \notin {"=", ":", "space"}
      BY <1>2 DEF Opening
    <2>2. PICK y \in Seq(Marks) : y = scrub_userinfo(x) /\ y # <<>> /\ y[1] = x[1]
      BY <2>1, UserinfoIsText
    <2>3. PICK p \in Seq(Marks) : p = <<s>> /\ Len(p) = 1 /\ p[1] = s  BY MarksOf
    <2>4. scrub_userinfo(r) = p \o y  BY <2>1, <2>2, <2>3, SeparatorShown
    <2>5. Len(y) \in Nat \ {0}  BY <2>2, EmptySeq
    <2>6. /\ Len(p \o y) = Len(p) + Len(y)
          /\ \A i \in 1..Len(p) : (p \o y)[i] = p[i]
          /\ \A i \in 1..Len(y) : (p \o y)[Len(p) + i] = y[i]
      BY Both
    <2>7. (p \o y)[1] = s /\ Len(p \o y) >= 2 /\ (p \o y)[2] = x[1]
      <3>1. 1 \in 1..Len(p) /\ 1 \in 1..Len(y) /\ Len(p) + 1 = 2  BY <2>3, <2>5
      <3>. QED  BY <3>1, <2>2, <2>3, <2>5, <2>6
    <2>. QED  BY <2>1, <2>4, <2>7 DEF Opens
  <1>. QED  BY <1>1, <1>2

\* A piece is shown as it should be, whatever comes after it.
Shows(e) ==
    /\ e.text \in Seq(Marks) /\ e.shown \in Seq(Marks)
    /\ \A r \in Seq(Marks) : Opening(r) => scrub(e.text \o r) = e.shown \o scrub(r)

\* So is a piece whose authorities and values have ended.
LEMMA PieceShown ==
    ASSUME NEW e, NEW m \in Seq(Marks), e.text \in Seq(Marks), e.shown \in Seq(Marks),
           ClosesAuthorities(e.text), scrub_userinfo(e.text) = m,
           ClosesValues(m), scrub_params(m) = e.shown
    PROVE  Shows(e)
  <1>. SUFFICES ASSUME NEW r \in Seq(Marks), Opening(r)
                PROVE  scrub(e.text \o r) = e.shown \o scrub(r)
    BY DEF Shows
  <1>1. scrub_userinfo(e.text \o r) = m \o scrub_userinfo(r)  BY UserinfoOfBoth
  <1>2. PICK y \in Seq(Marks) :
           y = scrub_userinfo(r) /\ Opens(y) /\ (y = <<>> \/ y[1] # "key")
    BY UserinfoIsText, OpeningStays
  <1>3. scrub_params(m \o y) = scrub_params(m) \o scrub_params(y)  BY <1>2, ParamsOfBoth
  <1>. QED  BY <1>1, <1>2, <1>3 DEF scrub

Begins(e) == e.text # <<>> /\ e.text[1] \notin {"=", ":", "space"}

\* Two such texts and a separator are such a text.
LEMMA JoinShown ==
    ASSUME NEW a, NEW b, NEW s \in {"space", "&"}, Shows(a), Shows(b), Begins(b)
    PROVE  Shows(Join(a, s, b))
  <1>. DEFINE e == Join(a, s, b)
  <1>1. PICK u \in Seq(Marks), v \in Seq(Marks), w \in Seq(Marks), x \in Seq(Marks), p \in Seq(Marks) :
           u = a.text /\ v = b.text /\ w = a.shown /\ x = b.shown /\ p = <<s>>
    BY MarksOf DEF Shows
  <1>2. e.text = (u \o p) \o v /\ e.shown = (w \o p) \o x
    BY <1>1 DEF Join, Piece
  <1>3. /\ u \o p \in Seq(Marks) /\ w \o p \in Seq(Marks)
    BY ConcatProperties
  <1>4. (u \o p) \o v \in Seq(Marks) /\ (w \o p) \o x \in Seq(Marks)
    BY <1>3, ConcatProperties
  <1>5. ASSUME NEW r \in Seq(Marks), Opening(r)
        PROVE  scrub(((u \o p) \o v) \o r) = ((w \o p) \o x) \o scrub(r)
    <2>1. PICK z \in Seq(Marks), q \in Seq(Marks) : z = v \o r /\ q = p \o z
      <3>1. v \o r \in Seq(Marks)  BY ConcatProperties
      <3>2. p \o (v \o r) \in Seq(Marks)  BY <3>1, ConcatProperties
      <3>. QED  BY <3>1, <3>2
    <2>2. ((u \o p) \o v) \o r = u \o q
      <3>1. PICK g \in Seq(Marks) : g = u \o p  BY <1>3
      <3>2. Regroups(g, v, r)  BY Together
      <3>3. Regroups(u, p, z)  BY Together
      <3>. QED  BY <3>1, <3>2, <3>3, <2>1 DEF Regroups
    <2>3. Opening(q)
      <3>1. v # <<>> /\ v[1] \notin {"=", ":", "space"}  BY <1>1 DEF Begins
      <3>2. 1 \in 1..Len(v)  BY <3>1, EmptySeq
      <3>3. Len(z) = Len(v) + Len(r) /\ z[1] = v[1]  BY <3>2, <2>1, Both
      <3>4. z # <<>>  BY <3>2, <3>3, EmptySeq, LenProperties
      <3>. QED  BY <3>1, <3>3, <3>4, <2>1, <1>1 DEF Opening
    <2>4. scrub(u \o q) = w \o scrub(q)  BY <2>3, <1>1 DEF Shows
    <2>5. scrub(q) = p \o scrub(z)  BY <2>1, <1>1, SeparatorShown
    <2>6. scrub(z) = x \o scrub(r)  BY <2>1, <1>1, <1>5 DEF Shows
    <2>7. PICK y \in Seq(Marks) : y = scrub(r)  BY UserinfoIsText, ParamsIsText DEF scrub
    <2>8. w \o (p \o (x \o y)) = ((w \o p) \o x) \o y
      <3>1. PICK g \in Seq(Marks), h \in Seq(Marks) : g = w \o p /\ h = x \o y
        <4>1. x \o y \in Seq(Marks)  BY ConcatProperties
        <4>. QED  BY <4>1, <1>3
      <3>2. Regroups(w, p, h)  BY Together
      <3>3. Regroups(g, x, y)  BY Together
      <3>. QED  BY <3>1, <3>2, <3>3 DEF Regroups
    <2>. QED  BY <2>2, <2>4, <2>5, <2>6, <2>7, <2>8
  <1>. QED  BY <1>2, <1>4, <1>5 DEF Shows

\* From the key to its separator at s and to the start of its value at e.
Leads(t, k, s, e) ==
    /\ ~At(t, k - 1, Words)
    /\ s \in After(t, k)..Len(t) /\ t[s] \in {"=", ":"}
    /\ \A h \in After(t, k)..(s - 1) : t[h] = "space"
    /\ e \in (s + 1)..Len(t)
    /\ \/ /\ At(t, k + 1, {"quote"}) \/ t[s] = "="
          /\ t[e] # "space" /\ \A h \in (s + 1)..(e - 1) : t[h] = "space"
       \/ ~At(t, k + 1, {"quote"}) /\ t[s] = ":" /\ e = s + 1

LEMMA LedTo ==
    ASSUME NEW t \in Seq(Marks), NEW k \in 1..Len(t), NEW s \in 1..Len(t), NEW e \in 1..Len(t),
           Leads(t, k, s, e)
    PROVE  Sep(t, k) = s /\ Start(t, k) = e /\ At(t, s, {"=", ":"}) /\ ~At(t, k - 1, Words)
  <1>1. PICK n \in Nat : n = Len(t) /\ k \in 1..n /\ s \in 1..n /\ e \in 1..n  OBVIOUS
  <1>2. PICK a \in 1..(n + 1) : a = After(t, k)
    <2>1. After(t, k) \in (k + 1)..(n + 1)  BY <1>1, SepIs
    <2>. QED  BY <2>1, <1>1
  <1>3. Sep(t, k) = s
    <2>1. a \in 1..(Len(t) + 1) /\ s \in a..(Len(t) + 1)  BY <1>1, <1>2 DEF Leads
    <2>2. (\A h \in a..(s - 1) : t[h] = "space") /\ t[s] # "space"  BY <1>2 DEF Leads
    <2>. QED  BY <2>1, <2>2, <1>2, AfterSpacesOnly DEF Sep
  <1>4. t[s] \in {"=", ":"} /\ ~At(t, k - 1, Words)  BY DEF Leads
  <1>5. At(t, s, {"=", ":"}) /\ (At(t, s, {"="}) <=> t[s] = "=")  BY <1>4 DEF At
  <1>6. Start(t, k) = e
    <2>1. CASE /\ At(t, k + 1, {"quote"}) \/ t[s] = "="
               /\ t[e] # "space" /\ \A h \in (s + 1)..(e - 1) : t[h] = "space"
      <3>1. s + 1 \in 1..(Len(t) + 1) /\ e \in (s + 1)..(Len(t) + 1)  BY <1>1 DEF Leads
      <3>2. AfterSpaces(t, s + 1) = e  BY <2>1, <3>1, AfterSpacesOnly
      <3>. QED  BY <2>1, <3>2, <1>3, <1>5 DEF Start
    <2>2. CASE ~At(t, k + 1, {"quote"}) /\ t[s] = ":" /\ e = s + 1
      BY <2>2, <1>3, <1>5 DEF Start
    <2>. QED  BY <2>1, <2>2 DEF Leads
  <1>. QED  BY <1>3, <1>4, <1>5, <1>6

\* The key at k has a value, from a to b: without quotes, or in quotes.
Bare(t, k, s, a, b) ==
    /\ Leads(t, k, s, a) /\ t[a] # "quote"
    /\ b \in (a - 1)..Len(t) /\ (b < Len(t) => t[b + 1] \in Ends)
    /\ \A h \in a..b : t[h] \notin Ends

Quoted(t, k, s, a, b) ==
    /\ a \in 2..Len(t) /\ Leads(t, k, s, a - 1) /\ t[a - 1] = "quote"
    /\ b \in (a - 1)..(Len(t) - 1) /\ t[b + 1] = "quote"
    /\ \A h \in a..b : t[h] # "quote"

\* Those are the values that value_of_key finds.
LEMMA BareIs ==
    ASSUME NEW t \in Seq(Marks), NEW k \in 1..Len(t), NEW s \in 1..Len(t), NEW a \in 1..Len(t),
           NEW b, Bare(t, k, s, a, b)
    PROVE  value_of_key(t, k) = {<<a, b>>}
  <1>1. Sep(t, k) = s /\ Start(t, k) = a /\ At(t, s, {"=", ":"}) /\ ~At(t, k - 1, Words)
    BY LedTo DEF Bare
  <1>2. ~At(t, a, {"quote"})  BY DEF At, Bare
  <1>3. PICK n \in Nat : n = Len(t) /\ a \in 1..n  OBVIOUS
  <1>4. PICK f \in Int : f = b + 1 /\ b = f - 1 /\ f \in a..(n + 1)  BY <1>3 DEF Bare
  <1>5. First(t, a, Ends) = f
    <2>1. a \in 1..(Len(t) + 1) /\ f \in a..(Len(t) + 1)  BY <1>3, <1>4
    <2>2. (\A h \in a..(f - 1) : t[h] \notin Ends) /\ (f <= Len(t) => t[f] \in Ends)
      BY <1>3, <1>4 DEF Bare
    <2>. QED  BY <2>1, <2>2, FirstOnly
  <1>6. value_of_key(t, k) = {<<a, First(t, a, Ends) - 1>>}
    BY Zenon, <1>1, <1>2, ValueOfKey
  <1>. QED  BY <1>4, <1>5, <1>6

LEMMA QuotedIs ==
    ASSUME NEW t \in Seq(Marks), NEW k \in 1..Len(t), NEW s \in 1..Len(t), NEW a \in 2..Len(t),
           NEW b, Quoted(t, k, s, a, b)
    PROVE  value_of_key(t, k) = {<<a, b>>}
  <1>1. PICK n \in Nat, e \in 1..Len(t) :
           n = Len(t) /\ a \in 2..n /\ e = a - 1 /\ a = e + 1 /\ e \in 1..n
    <2>1. a - 1 \in 1..Len(t) /\ a = (a - 1) + 1  OBVIOUS
    <2>. QED  BY <2>1
  <1>2. Sep(t, k) = s /\ Start(t, k) = e /\ At(t, s, {"=", ":"}) /\ ~At(t, k - 1, Words)
    BY <1>1, LedTo DEF Quoted
  <1>3. At(t, e, {"quote"})  BY <1>1 DEF At, Quoted
  <1>4. PICK f \in Int : f = b + 1 /\ b = f - 1 /\ f \in a..n  BY <1>1 DEF Quoted
  <1>5. First(t, a, {"quote"}) = f
    <2>1. a \in 1..(Len(t) + 1) /\ f \in a..(Len(t) + 1)  BY <1>1, <1>4
    <2>2. (\A h \in a..(f - 1) : t[h] \notin {"quote"}) /\ t[f] \in {"quote"}
      BY <1>4 DEF Quoted
    <2>. QED  BY <2>1, <2>2, FirstOnly
  <1>6. value_of_key(t, k) = {<<e + 1, First(t, e + 1, {"quote"}) - 1>>}
    BY Zenon, <1>2, <1>3, ValueOfKey
  <1>. QED  BY <1>1, <1>4, <1>5, <1>6

\* A text with one key, and a value for it or none.
LEMMA OneValue ==
    ASSUME NEW t \in Seq(Marks), NEW k \in 1..Len(t), \A i \in 1..Len(t) : t[i] = "key" <=> i = k,
           t[Len(t)] \notin {"=", ":", "space"},
           NEW a \in 1..Len(t), NEW b \in a..Len(t), value_of_key(t, k) = {<<a, b>>},
           t[a - 1] = "quote" => b < Len(t),
           NEW q \in Seq(Marks), Spliced(t, a, b, <<Redacted>>, q)
    PROVE  ClosesValues(t) /\ scrub_params(t) = q
  <1>1. values_of_keys(t) = {<<a, b>>}
    <2>1. {i \in 1..Len(t) : t[i] = "key"} = {k}  OBVIOUS
    <2>2. UNION {value_of_key(t, i) : i \in {k}} = value_of_key(t, k)  OBVIOUS
    <2>3. values_of_keys(t) = {c \in {<<a, b>>} : c[1] <= c[2]}
      BY Zenon, <2>1, <2>2 DEF values_of_keys
    <2>4. a <= b  BY LenProperties
    <2>. QED  BY <2>3, <2>4
  <1>2. PICK R \in Seq(Marks) : R = <<Redacted>>  BY MarksOf
  <1>3. Spliced(t, a, b, R, q)  BY <1>2
  <1>4. Without(t, {<<a, b>>}, R) = q  BY <1>3, WithoutOne
  <1>. QED  BY <1>1, <1>2, <1>4 DEF ClosesValues, scrub_params

LEMMA NoValue ==
    ASSUME NEW t \in Seq(Marks), NEW k \in 1..Len(t), \A i \in 1..Len(t) : t[i] = "key" <=> i = k,
           t[Len(t)] \notin {"=", ":", "space"},
           \A c \in value_of_key(t, k) : ~(c[1] <= c[2]) /\ t[c[1] - 1] # "quote"
    PROVE  ClosesValues(t) /\ scrub_params(t) = t
  <1>1. values_of_keys(t) = {}
    <2>1. {i \in 1..Len(t) : t[i] = "key"} = {k}  OBVIOUS
    <2>2. UNION {value_of_key(t, i) : i \in {k}} = value_of_key(t, k)  OBVIOUS
    <2>3. values_of_keys(t) = {c \in value_of_key(t, k) : c[1] <= c[2]}
      BY Zenon, <2>1, <2>2 DEF values_of_keys
    <2>. QED  BY <2>3
  <1>2. Without(t, {}, <<Redacted>>) = t  BY MarksOf, WithoutNone
  <1>. QED  BY <1>1, <1>2 DEF ClosesValues, scrub_params

\* A text with one URL, whose authority ends at f.
OneAuthority(t, i, f) ==
    /\ \A h \in 1..Len(t) : t[h] = "://" <=> h = i
    /\ f \in (i + 1)..Len(t) /\ t[f] \in AuthorityEnds
    /\ \A h \in (i + 1)..(f - 1) : t[h] \notin AuthorityEnds

LEMMA AuthorityIs ==
    ASSUME NEW t \in Seq(Marks), NEW i \in 1..Len(t), NEW f, OneAuthority(t, i, f)
    PROVE  /\ ClosesAuthorities(t)
           /\ Ats(t, i) = {j \in (i + 1)..(f - 1) : t[j] = "@"}
           /\ {h \in 1..Len(t) : t[h] = "://" /\ Ats(t, h) # {}} =
                IF Ats(t, i) = {} THEN {} ELSE {i}
  <1>1. i + 1 \in 1..(Len(t) + 1) /\ f \in (i + 1)..(Len(t) + 1) /\ f <= Len(t)
    BY LenProperties DEF OneAuthority
  <1>2. First(t, i + 1, AuthorityEnds) = f  BY <1>1, FirstOnly DEF OneAuthority
  <1>3. ClosesAuthorities(t)  BY <1>1, <1>2 DEF ClosesAuthorities, OneAuthority
  <1>4. Ats(t, i) = {j \in (i + 1)..(f - 1) : t[j] = "@"}  BY <1>2 DEF Ats
  <1>5. \A h \in 1..Len(t) : t[h] = "://" <=> h = i  BY DEF OneAuthority
  <1>. QED  BY <1>3, <1>4, <1>5

\* Of a text with one URL, what is left is all but the user info.
LEMMA OneURL ==
    ASSUME NEW t \in Seq(Marks), NEW i \in 1..Len(t), NEW f, OneAuthority(t, i, f),
           NEW j \in (i + 1)..(f - 1), t[j] = "@",
           \A h \in (j + 1)..(f - 1) : t[h] # "@",
           NEW q \in Seq(Marks), Spliced(t, i + 1, j, <<Redacted, "@">>, q)
    PROVE  ClosesAuthorities(t) /\ scrub_userinfo(t) = q
  <1>1. PICK n \in Nat, a \in Nat : n = Len(t) /\ a = i + 1 /\ i \in 1..n  OBVIOUS
  <1>2. f \in a..n  BY <1>1 DEF OneAuthority
  <1>3. a \in 1..n /\ j \in a..n /\ j \in Int  BY <1>1, <1>2
  <1>4. Ats(t, i) = {h \in a..(f - 1) : t[h] = "@"}  BY <1>1, AuthorityIs
  <1>5. j \in Ats(t, i)  BY <1>1, <1>4
  <1>6. \A h \in Ats(t, i) : h <= j
    <2>1. ASSUME NEW h \in Ats(t, i), ~(h <= j) PROVE FALSE
      <3>1. h \in a..(f - 1) /\ t[h] = "@"  BY <1>4
      <3>2. h \in (j + 1)..(f - 1)  BY <3>1, <2>1, <1>2, <1>3
      <3>. QED  BY <3>1, <3>2
    <2>. QED  BY <2>1
  <1>7. LastAt(t, i) = j  BY <1>3, <1>5, <1>6, LastAtOnly
  <1>8. {h \in 1..Len(t) : t[h] = "://" /\ Ats(t, h) # {}} = {i}  BY <1>5, AuthorityIs
  <1>9. userinfos(t) = {<<h + 1, LastAt(t, h)>> : h \in {i}}  BY <1>8, UserinfosAre
  <1>10. userinfos(t) = {<<a, j>>}  BY <1>9, <1>7, <1>1
  <1>11. PICK R \in Seq(Marks) : R = <<Redacted, "@">>  BY MarksOf
  <1>12. Spliced(t, a, j, R, q)  BY <1>11, <1>1
  <1>13. Without(t, {<<a, j>>}, R) = q  BY <1>12, <1>1, <1>3, WithoutOne
  <1>. QED  BY <1>10, <1>11, <1>13, AuthorityIs DEF scrub_userinfo

LEMMA PlainURL ==
    ASSUME NEW t \in Seq(Marks), NEW i \in 1..Len(t), NEW f, OneAuthority(t, i, f),
           \A h \in (i + 1)..(f - 1) : t[h] # "@"
    PROVE  ClosesAuthorities(t) /\ scrub_userinfo(t) = t
  <1>1. Ats(t, i) = {}  BY AuthorityIs
  <1>2. {h \in 1..Len(t) : t[h] = "://" /\ Ats(t, h) # {}} = {}  BY <1>1, AuthorityIs
  <1>3. userinfos(t) = {<<h + 1, LastAt(t, h)>> : h \in {}}  BY <1>2, UserinfosAre
  <1>4. userinfos(t) = {}  BY <1>3
  <1>5. Without(t, {}, <<Redacted, "@">>) = t  BY MarksOf, WithoutNone
  <1>. QED  BY <1>4, <1>5, AuthorityIs DEF scrub_userinfo

\* What R may see of a text that has neither a URL nor a key.
LEMMA PlainPiece ==
    ASSUME NEW t \in Seq(Marks), \A i \in 1..Len(t) : t[i] # "://" /\ t[i] # "key"
    PROVE  Shows(Same(t))
  <1>1. ClosesAuthorities(t) /\ scrub_userinfo(t) = t  BY NoURL
  <1>2. ClosesValues(t) /\ scrub_params(t) = t  BY NoKey
  <1>3. Same(t).text = t /\ Same(t).shown = t  BY DEF Same, Piece
  <1>. QED  BY <1>1, <1>2, <1>3, PieceShown

\* Text with one key, at k, that is no URL and does not end before a value.
LoneKey(t, k) ==
    /\ k \in 1..Len(t) /\ t[Len(t)] \notin {"=", ":", "space"}
    /\ \A i \in 1..Len(t) : t[i] # "://" /\ (t[i] = "key" <=> i = k)

\* What R may see of such a text: all but the value, if the key has one.
LEMMA ValuePiece ==
    ASSUME NEW t \in Seq(Marks), NEW q \in Seq(Marks), NEW k, NEW a, NEW b, LoneKey(t, k),
           value_of_key(t, k) = {<<a, b>>}, a \in 1..Len(t), b \in a..Len(t),
           t[a - 1] = "quote" => b < Len(t),
           Spliced(t, a, b, <<Redacted>>, q)
    PROVE  Shows(Piece(t, q))
  <1>1. /\ k \in 1..Len(t) /\ t[Len(t)] \notin {"=", ":", "space"}
        /\ \A i \in 1..Len(t) : t[i] # "://" /\ (t[i] = "key" <=> i = k)
    BY DEF LoneKey
  <1>2. ClosesAuthorities(t) /\ scrub_userinfo(t) = t  BY <1>1, NoURL
  <1>3. ClosesValues(t) /\ scrub_params(t) = q  BY <1>1, OneValue
  <1>4. Piece(t, q).text = t /\ Piece(t, q).shown = q  BY DEF Piece
  <1>. QED  BY <1>2, <1>3, <1>4, PieceShown

LEMMA BarePiece ==
    ASSUME NEW t \in Seq(Marks), NEW q \in Seq(Marks), NEW k, NEW s, NEW a, NEW b, LoneKey(t, k),
           Bare(t, k, s, a, b), b \in a..Len(t), Spliced(t, a, b, <<Redacted>>, q)
    PROVE  Shows(Piece(t, q))
  <1>1. k \in 1..Len(t) /\ s \in 1..Len(t) /\ a \in 1..Len(t)
    <2>1. PICK n \in Nat : n = Len(t) /\ k \in 1..n  BY DEF LoneKey
    <2>2. After(t, k) = k + 1 \/ After(t, k) = k + 2  BY DEF After
    <2>3. s \in After(t, k)..n /\ a \in (s + 1)..n  BY <2>1 DEF Bare, Leads
    <2>4. s \in 1..n  BY <2>1, <2>2, <2>3
    <2>. QED  BY <2>1, <2>3, <2>4
  <1>2. value_of_key(t, k) = {<<a, b>>}  BY <1>1, BareIs
  <1>3. t[a - 1] # "quote"
    <2>1. PICK n \in Nat : n = Len(t) /\ s \in 1..n  BY <1>1
    <2>2. a \in (s + 1)..n /\ t[s] # "quote"  BY <2>1 DEF Bare, Leads
    <2>3. CASE a = s + 1
      <3>1. a - 1 = s  BY <2>1, <2>3
      <3>. QED  BY <3>1, <2>2
    <2>4. CASE a # s + 1
      <3>1. a - 1 \in (s + 1)..(a - 1)  BY <2>1, <2>2, <2>4
      <3>2. t[a - 1] = "space"  BY <3>1, <2>4 DEF Bare, Leads
      <3>. QED  BY <3>2
    <2>. QED  BY <2>3, <2>4
  <1>. QED  BY <1>1, <1>2, <1>3, ValuePiece

LEMMA QuotedPiece ==
    ASSUME NEW t \in Seq(Marks), NEW q \in Seq(Marks), NEW k, NEW s, NEW a, NEW b, LoneKey(t, k),
           Quoted(t, k, s, a, b), b \in a..Len(t), Spliced(t, a, b, <<Redacted>>, q)
    PROVE  Shows(Piece(t, q))
  <1>1. k \in 1..Len(t) /\ s \in 1..Len(t) /\ a \in 2..Len(t) /\ b < Len(t)
    <2>1. PICK n \in Nat : n = Len(t) /\ k \in 1..n  BY DEF LoneKey
    <2>2. After(t, k) = k + 1 \/ After(t, k) = k + 2  BY DEF After
    <2>3. s \in After(t, k)..n /\ a - 1 \in (s + 1)..n /\ a \in 2..n /\ b \in a..(n - 1)
      BY <2>1 DEF Quoted, Leads
    <2>4. s \in 1..n  BY <2>1, <2>2, <2>3
    <2>. QED  BY <2>1, <2>3, <2>4
  <1>2. value_of_key(t, k) = {<<a, b>>}  BY <1>1, QuotedIs
  <1>3. a \in 1..Len(t) /\ (t[a - 1] = "quote" => b < Len(t))  BY <1>1
  <1>. QED  BY <1>2, <1>3, ValuePiece

LEMMA NoValuePiece ==
    ASSUME NEW t \in Seq(Marks), NEW k, LoneKey(t, k),
           \A c \in value_of_key(t, k) : ~(c[1] <= c[2]) /\ t[c[1] - 1] # "quote"
    PROVE  Shows(Same(t))
  <1>1. /\ k \in 1..Len(t) /\ t[Len(t)] \notin {"=", ":", "space"}
        /\ \A i \in 1..Len(t) : t[i] # "://" /\ (t[i] = "key" <=> i = k)
    BY DEF LoneKey
  <1>2. ClosesAuthorities(t) /\ scrub_userinfo(t) = t  BY <1>1, NoURL
  <1>3. ClosesValues(t) /\ scrub_params(t) = t  BY <1>1, NoValue
  <1>4. Same(t).text = t /\ Same(t).shown = t  BY DEF Same, Piece
  <1>. QED  BY <1>2, <1>3, <1>4, PieceShown

\* What R may see of a text with one URL.
LEMMA URLPiece ==
    ASSUME NEW t \in Seq(Marks), NEW i \in 1..Len(t), NEW f, OneAuthority(t, i, f),
           \A h \in 1..Len(t) : t[h] # "key",
           NEW j \in (i + 1)..(f - 1), t[j] = "@",
           \A h \in (j + 1)..(f - 1) : t[h] # "@",
           NEW q \in Seq(Marks), Spliced(t, i + 1, j, <<Redacted, "@">>, q),
           \A h \in 1..Len(q) : q[h] # "key"
    PROVE  Shows(Piece(t, q))
  <1>1. ClosesAuthorities(t) /\ scrub_userinfo(t) = q  BY OneURL
  <1>2. ClosesValues(q) /\ scrub_params(q) = q  BY NoKey
  <1>3. Piece(t, q).text = t /\ Piece(t, q).shown = q  BY DEF Piece
  <1>. QED  BY <1>1, <1>2, <1>3, PieceShown

LEMMA PlainURLPiece ==
    ASSUME NEW t \in Seq(Marks), NEW i \in 1..Len(t), NEW f, OneAuthority(t, i, f),
           \A h \in 1..Len(t) : t[h] # "key",
           \A h \in (i + 1)..(f - 1) : t[h] # "@"
    PROVE  Shows(Same(t))
  <1>1. ClosesAuthorities(t) /\ scrub_userinfo(t) = t  BY PlainURL
  <1>2. ClosesValues(t) /\ scrub_params(t) = t  BY NoKey
  <1>3. Same(t).text = t /\ Same(t).shown = t  BY DEF Same, Piece
  <1>. QED  BY <1>1, <1>2, <1>3, PieceShown

LEMMA OneRedacted == Len(<<Redacted>>) = 1 /\ <<Redacted>>[1] = Redacted
  OBVIOUS

\* `key=value`, `key:value`
LEMMA KeyIsValue ==
    ASSUME NEW s \in {"=", ":"}
    PROVE  Shows(Piece(<<"key", s, "secret">>, <<"key", s, Redacted>>))
  <1>. DEFINE t == <<"key", s, "secret">>
              q == <<"key", s, Redacted>>
  <1>1. "key" \in Marks /\ s \in Marks /\ "secret" \in Marks /\ Redacted \in Marks
    BY DEF Marks, Words
  <1>2. t \in Seq(Marks) /\ Len(t) = 3 /\ t[1] = "key" /\ t[2] = s /\ t[3] = "secret"
    BY <1>1
  <1>3. q \in Seq(Marks) /\ Len(q) = 3 /\ q[1] = "key" /\ q[2] = s /\ q[3] = Redacted
    BY <1>1
  <1>. HIDE DEF t, q
  <1>4. LoneKey(t, 1)  BY <1>2 DEF LoneKey
  <1>5. Bare(t, 1, 2, 3, 3)
    <2>1. ~At(t, 1 - 1, Words) /\ ~At(t, 1 + 1, {"quote"}) /\ After(t, 1) = 2
      BY <1>2 DEF At, After
    <2>2. Leads(t, 1, 2, 3)  BY <2>1, <1>2 DEF Leads
    <2>. QED  BY <2>2, <1>2 DEF Bare, Ends
  <1>6. Spliced(t, 3, 3, <<Redacted>>, q)  BY <1>2, <1>3, OneRedacted DEF Spliced
  <1>7. 3 \in 3..Len(t)  BY <1>2
  <1>8. Shows(Piece(t, q))  BY Zenon, <1>2, <1>3, <1>4, <1>5, <1>6, <1>7, BarePiece
  <1>. QED  BY <1>8 DEF t, q

\* `key = value`
LEMMA KeyIsSpacedValue ==
    Shows(Piece(<<"key", "space", "=", "space", "secret">>,
                <<"key", "space", "=", "space", Redacted>>))
  <1>. DEFINE t == <<"key", "space", "=", "space", "secret">>
              q == <<"key", "space", "=", "space", Redacted>>
  <1>1. "key" \in Marks /\ "=" \in Marks /\ "space" \in Marks /\ "secret" \in Marks
        /\ Redacted \in Marks
    BY DEF Marks, Words
  <1>2. /\ t \in Seq(Marks) /\ Len(t) = 5
        /\ t[1] = "key" /\ t[2] = "space" /\ t[3] = "=" /\ t[4] = "space" /\ t[5] = "secret"
    BY <1>1
  <1>3. /\ q \in Seq(Marks) /\ Len(q) = 5
        /\ q[1] = "key" /\ q[2] = "space" /\ q[3] = "=" /\ q[4] = "space" /\ q[5] = Redacted
    BY <1>1
  <1>. HIDE DEF t, q
  <1>4. LoneKey(t, 1)  BY <1>2 DEF LoneKey
  <1>5. Bare(t, 1, 3, 5, 5)
    <2>1. ~At(t, 1 - 1, Words) /\ ~At(t, 1 + 1, {"quote"}) /\ After(t, 1) = 2
      BY <1>2 DEF At, After
    <2>2. Leads(t, 1, 3, 5)  BY <2>1, <1>2 DEF Leads
    <2>. QED  BY <2>2, <1>2 DEF Bare, Ends
  <1>6. Spliced(t, 5, 5, <<Redacted>>, q)  BY <1>2, <1>3, OneRedacted DEF Spliced
  <1>7. 5 \in 5..Len(t)  BY <1>2
  <1>8. Shows(Piece(t, q))  BY Zenon, <1>2, <1>3, <1>4, <1>5, <1>6, <1>7, BarePiece
  <1>. QED  BY <1>8 DEF t, q

\* `key="value value"`
LEMMA KeyIsQuotedValue ==
    Shows(Piece(<<"key", "=", "quote", "secret", "space", "secret", "quote">>,
                <<"key", "=", "quote", Redacted, "quote">>))
  <1>. DEFINE t == <<"key", "=", "quote", "secret", "space", "secret", "quote">>
              q == <<"key", "=", "quote", Redacted, "quote">>
  <1>1. "key" \in Marks /\ "=" \in Marks /\ "space" \in Marks /\ "secret" \in Marks
        /\ "quote" \in Marks /\ Redacted \in Marks
    BY DEF Marks, Words
  <1>2. /\ t \in Seq(Marks) /\ Len(t) = 7 /\ t[1] = "key" /\ t[2] = "=" /\ t[3] = "quote"
        /\ t[4] = "secret" /\ t[5] = "space" /\ t[6] = "secret" /\ t[7] = "quote"
    BY <1>1
  <1>3. /\ q \in Seq(Marks) /\ Len(q) = 5 /\ q[1] = "key" /\ q[2] = "=" /\ q[3] = "quote"
        /\ q[4] = Redacted /\ q[5] = "quote"
    BY <1>1
  <1>. HIDE DEF t, q
  <1>4. LoneKey(t, 1)  BY <1>2 DEF LoneKey
  <1>5. Quoted(t, 1, 2, 4, 6)
    <2>1. ~At(t, 1 - 1, Words) /\ ~At(t, 1 + 1, {"quote"}) /\ After(t, 1) = 2
      BY <1>2 DEF At, After
    <2>2. Leads(t, 1, 2, 3)  BY <2>1, <1>2 DEF Leads
    <2>. QED  BY <2>2, <1>2 DEF Quoted
  <1>6. Spliced(t, 4, 6, <<Redacted>>, q)  BY <1>2, <1>3, OneRedacted DEF Spliced
  <1>7. 6 \in 4..Len(t)  BY <1>2
  <1>8. Shows(Piece(t, q))  BY Zenon, <1>2, <1>3, <1>4, <1>5, <1>6, <1>7, QuotedPiece
  <1>. QED  BY <1>8 DEF t, q

\* `"key": "value\"value"`
LEMMA QuotedKeyIsQuotedValue ==
    Shows(Piece(<<"quote", "key", "quote", ":", "space", "quote", "secret", "escaped", "secret", "quote">>,
                <<"quote", "key", "quote", ":", "space", "quote", Redacted, "quote">>))
  <1>. DEFINE t == <<"quote", "key", "quote", ":", "space", "quote", "secret", "escaped", "secret", "quote">>
              q == <<"quote", "key", "quote", ":", "space", "quote", Redacted, "quote">>
  <1>1. "key" \in Marks /\ ":" \in Marks /\ "space" \in Marks /\ "secret" \in Marks
        /\ "quote" \in Marks /\ "escaped" \in Marks /\ Redacted \in Marks
    BY DEF Marks, Words
  <1>2. /\ t \in Seq(Marks) /\ Len(t) = 10 /\ t[1] = "quote" /\ t[2] = "key" /\ t[3] = "quote"
        /\ t[4] = ":" /\ t[5] = "space" /\ t[6] = "quote" /\ t[7] = "secret"
        /\ t[8] = "escaped" /\ t[9] = "secret" /\ t[10] = "quote"
    BY <1>1
  <1>3. /\ q \in Seq(Marks) /\ Len(q) = 8 /\ q[1] = "quote" /\ q[2] = "key" /\ q[3] = "quote"
        /\ q[4] = ":" /\ q[5] = "space" /\ q[6] = "quote" /\ q[7] = Redacted /\ q[8] = "quote"
    BY <1>1
  <1>. HIDE DEF t, q
  <1>4. LoneKey(t, 2)  BY <1>2 DEF LoneKey
  <1>5. Quoted(t, 2, 4, 7, 9)
    <2>1. ~At(t, 2 - 1, Words) /\ At(t, 2 + 1, {"quote"}) /\ After(t, 2) = 4
      BY <1>2 DEF At, After, Words
    <2>2. Leads(t, 2, 4, 6)  BY <2>1, <1>2 DEF Leads
    <2>. QED  BY <2>2, <1>2 DEF Quoted
  <1>6. Spliced(t, 7, 9, <<Redacted>>, q)  BY <1>2, <1>3, OneRedacted DEF Spliced
  <1>7. 9 \in 7..Len(t)  BY <1>2
  <1>8. Shows(Piece(t, q))  BY Zenon, <1>2, <1>3, <1>4, <1>5, <1>6, <1>7, QuotedPiece
  <1>. QED  BY <1>8 DEF t, q

\* What R may see of a key whose value has nothing in it.
LEMMA EmptyPiece ==
    ASSUME NEW t \in Seq(Marks), NEW k, NEW s, NEW a, NEW b, LoneKey(t, k),
           Bare(t, k, s, a, b), b = a - 1, t[a - 1] # "quote"
    PROVE  Shows(Same(t))
  <1>1. k \in 1..Len(t) /\ s \in 1..Len(t) /\ a \in 1..Len(t)
    <2>1. PICK n \in Nat : n = Len(t) /\ k \in 1..n  BY DEF LoneKey
    <2>2. After(t, k) = k + 1 \/ After(t, k) = k + 2  BY DEF After
    <2>3. s \in After(t, k)..n /\ a \in (s + 1)..n  BY <2>1 DEF Bare, Leads
    <2>4. s \in 1..n  BY <2>1, <2>2, <2>3
    <2>. QED  BY <2>1, <2>3, <2>4
  <1>2. value_of_key(t, k) = {<<a, b>>}  BY <1>1, BareIs
  <1>3. \A c \in value_of_key(t, k) : ~(c[1] <= c[2]) /\ t[c[1] - 1] # "quote"  BY <1>1, <1>2
  <1>. QED  BY <1>3, NoValuePiece

\* A word, and `key`
LEMMA WordIsPlain == Shows(Same(<<"word">>))
  <1>. DEFINE t == <<"word">>
  <1>1. "word" \in Marks  BY DEF Marks, Words
  <1>2. t \in Seq(Marks) /\ Len(t) = 1 /\ t[1] = "word"  BY <1>1
  <1>. HIDE DEF t
  <1>3. \A i \in 1..Len(t) : t[i] # "://" /\ t[i] # "key"  BY <1>2
  <1>4. Shows(Same(t))  BY Zenon, <1>2, <1>3, PlainPiece
  <1>. QED  BY <1>4 DEF t

LEMMA KeyAlone == Shows(Same(<<"key">>))
  <1>. DEFINE t == <<"key">>
  <1>1. "key" \in Marks  BY DEF Marks, Words
  <1>2. t \in Seq(Marks) /\ Len(t) = 1 /\ t[1] = "key"  BY <1>1
  <1>. HIDE DEF t
  <1>3. LoneKey(t, 1)  BY <1>2 DEF LoneKey
  <1>4. 1 \in 1..Len(t)  BY <1>2
  <1>5. value_of_key(t, 1) = {}
    <2>1. Sep(t, 1) \notin 1..Len(t)
      <3>1. Sep(t, 1) \in (1 + 1)..(Len(t) + 1)  BY <1>2, <1>4, SepIs
      <3>2. Sep(t, 1) = 2  BY <3>1, <1>2
      <3>. QED  BY <3>2, <1>2
    <2>2. ~At(t, Sep(t, 1), {"=", ":"})  BY <2>1 DEF At
    <2>. QED  BY Zenon, <2>2, <1>2, <1>4, ValueOfKey
  <1>6. Shows(Same(t))  BY <1>2, <1>3, <1>5, NoValuePiece
  <1>. QED  BY <1>6 DEF t

\* `password: too short`
LEMMA KeyIsProse == Shows(Same(<<"key", ":", "space", "word">>))
  <1>. DEFINE t == <<"key", ":", "space", "word">>
  <1>1. "key" \in Marks /\ ":" \in Marks /\ "space" \in Marks /\ "word" \in Marks
    BY DEF Marks, Words
  <1>2. /\ t \in Seq(Marks) /\ Len(t) = 4
        /\ t[1] = "key" /\ t[2] = ":" /\ t[3] = "space" /\ t[4] = "word"
    BY <1>1
  <1>. HIDE DEF t
  <1>3. LoneKey(t, 1)  BY <1>2 DEF LoneKey
  <1>4. Bare(t, 1, 2, 3, 2)
    <2>1. ~At(t, 1 - 1, Words) /\ ~At(t, 1 + 1, {"quote"}) /\ After(t, 1) = 2
      BY <1>2 DEF At, After
    <2>2. Leads(t, 1, 2, 3)  BY <2>1, <1>2 DEF Leads
    <2>. QED  BY <2>2, <1>2 DEF Bare, Ends
  <1>5. t[3 - 1] # "quote" /\ 2 = 3 - 1  BY <1>2
  <1>6. Shows(Same(t))  BY <1>2, <1>3, <1>4, <1>5, EmptyPiece
  <1>. QED  BY <1>6 DEF t

\* `my_password_hint=abc`
LEMMA KeyInWord == Shows(Same(<<"word", "key", "=", "word">>))
  <1>. DEFINE t == <<"word", "key", "=", "word">>
  <1>1. "key" \in Marks /\ "=" \in Marks /\ "word" \in Marks  BY DEF Marks, Words
  <1>2. /\ t \in Seq(Marks) /\ Len(t) = 4
        /\ t[1] = "word" /\ t[2] = "key" /\ t[3] = "=" /\ t[4] = "word"
    BY <1>1
  <1>. HIDE DEF t
  <1>3. LoneKey(t, 2)  BY <1>2 DEF LoneKey
  <1>4. At(t, 2 - 1, Words) /\ 2 \in 1..Len(t)  BY <1>2 DEF At, Words
  <1>5. value_of_key(t, 2) = {}  BY Zenon, <1>2, <1>4, ValueOfKey
  <1>6. Shows(Same(t))  BY <1>2, <1>3, <1>5, NoValuePiece
  <1>. QED  BY <1>6 DEF t

\* The marks of a URL.
LEMMA URLIs ==
    ASSUME NEW a \in Seq(Marks)
    PROVE  /\ URL(a) \in Seq(Marks) /\ Len(URL(a)) = Len(a) + 3 /\ URL(a)[1] = "://"
           /\ \A i \in 1..Len(a) : URL(a)[1 + i] = a[i]
           /\ URL(a)[Len(a) + 2] = "/" /\ URL(a)[Len(a) + 3] = "word"
  <1>. DEFINE p == <<"://">>  e == <<"/", "word">>
  <1>1. "://" \in Marks /\ "/" \in Marks /\ "word" \in Marks  BY DEF Marks, Words
  <1>2. p \in Seq(Marks) /\ Len(p) = 1 /\ p[1] = "://"  BY <1>1
  <1>3. e \in Seq(Marks) /\ Len(e) = 2 /\ e[1] = "/" /\ e[2] = "word"  BY <1>1
  <1>4. URL(a) = (p \o a) \o e  BY Zenon DEF URL
  <1>. HIDE DEF p, e
  <1>5. PICK n \in Nat : n = Len(a)  OBVIOUS
  <1>6. /\ p \o a \in Seq(Marks) /\ Len(p \o a) = Len(p) + Len(a)
        /\ \A i \in 1..Len(p) : (p \o a)[i] = p[i]
        /\ \A i \in 1..Len(a) : (p \o a)[Len(p) + i] = a[i]
    BY <1>2, Both
  <1>7. PICK u \in Seq(Marks) : u = p \o a  BY <1>6
  <1>8. Len(u) = 1 + n /\ u[1] = "://" /\ \A i \in 1..n : u[1 + i] = a[i]
    BY <1>2, <1>5, <1>6, <1>7
  <1>9. /\ u \o e \in Seq(Marks) /\ Len(u \o e) = Len(u) + Len(e)
        /\ \A i \in 1..Len(u) : (u \o e)[i] = u[i]
        /\ \A i \in 1..Len(e) : (u \o e)[Len(u) + i] = e[i]
    BY <1>3, Both
  <1>10. Len(u \o e) = n + 3 /\ (u \o e)[1] = "://"  BY <1>3, <1>7, <1>8, <1>9
  <1>11. ASSUME NEW i \in 1..n PROVE (u \o e)[1 + i] = a[i]
    <2>1. 1 + i \in 1..Len(u)  BY <1>8
    <2>. QED  BY <2>1, <1>7, <1>8, <1>9
  <1>12. (u \o e)[n + 2] = "/" /\ (u \o e)[n + 3] = "word"
    <2>1. 1 \in 1..Len(e) /\ 2 \in 1..Len(e) /\ Len(u) + 1 = n + 2 /\ Len(u) + 2 = n + 3
      BY <1>3, <1>8
    <2>. QED  BY <2>1, <1>3, <1>9
  <1>. QED  BY <1>4, <1>5, <1>7, <1>8, <1>9, <1>10, <1>11, <1>12

\* `://host/path`, and `://user@host/path`, the user info at least one mark.
Authority(a) ==
    /\ a \in Seq(Marks) /\ a[Len(a)] = "word" /\ Len(a) >= 1
    /\ \A i \in 1..Len(a) : a[i] \notin {"/", "space", "://", "key"}

LEMMA AuthorityEndsAt ==
    ASSUME NEW a, Authority(a), NEW t \in Seq(Marks), t = URL(a)
    PROVE  OneAuthority(t, 1, Len(a) + 2) /\ \A i \in 1..Len(t) : t[i] # "key"
  <1>1. PICK n \in Nat : n = Len(a) /\ n >= 1  BY DEF Authority
  <1>2. a \in Seq(Marks)  BY DEF Authority
  <1>3. /\ Len(t) = n + 3 /\ t[1] = "://" /\ t[n + 2] = "/" /\ t[n + 3] = "word"
        /\ \A i \in 1..n : t[1 + i] = a[i]
    BY <1>1, <1>2, URLIs
  <1>4. \A i \in 2..(n + 1) : t[i] \notin {"/", "space", "://", "key"}
    <2>1. ASSUME NEW i \in 2..(n + 1) PROVE t[i] \notin {"/", "space", "://", "key"}
      <3>1. i - 1 \in 1..n /\ 1 + (i - 1) = i  BY <1>1
      <3>. QED  BY <3>1, <1>1, <1>3 DEF Authority
    <2>. QED  BY <2>1
  <1>5. \A i \in 1..(n + 3) : i = 1 \/ i \in 2..(n + 1) \/ i = n + 2 \/ i = n + 3  OBVIOUS
  <1>6. \A i \in 1..Len(t) : (t[i] = "://" <=> i = 1) /\ t[i] # "key"  BY <1>1, <1>3, <1>4, <1>5
  <1>7. n + 2 \in (1 + 1)..Len(t) /\ t[n + 2] \in AuthorityEnds
        /\ \A i \in (1 + 1)..(n + 2 - 1) : t[i] \notin AuthorityEnds
    <2>1. n + 2 \in (1 + 1)..Len(t)  BY <1>1, <1>3
    <2>2. \A i \in (1 + 1)..(n + 2 - 1) : i \in 2..(n + 1)  BY <1>1
    <2>. QED  BY <2>1, <2>2, <1>3, <1>4 DEF AuthorityEnds
  <1>. QED  BY <1>1, <1>6, <1>7 DEF OneAuthority

\* A URL that names no user is shown as it is.
LEMMA URLShown ==
    ASSUME NEW a, Authority(a), \A i \in 1..Len(a) : a[i] # "@"
    PROVE  Shows(Same(URL(a)))
  <1>1. PICK n \in Nat : n = Len(a)  BY DEF Authority
  <1>2. PICK t \in Seq(Marks) : t = URL(a)  BY URLIs DEF Authority
  <1>3. OneAuthority(t, 1, n + 2) /\ \A i \in 1..Len(t) : t[i] # "key"
    BY <1>1, <1>2, AuthorityEndsAt
  <1>4. Len(t) = n + 3 /\ \A i \in 1..n : t[1 + i] = a[i]  BY <1>1, <1>2, URLIs DEF Authority
  <1>5. ASSUME NEW h \in (1 + 1)..((n + 2) - 1) PROVE t[h] # "@"
    <2>1. h - 1 \in 1..n /\ 1 + (h - 1) = h  BY <1>1
    <2>. QED  BY <2>1, <1>1, <1>4
  <1>6. 1 \in 1..Len(t)  BY <1>4
  <1>7. Shows(Same(t))  BY <1>3, <1>5, <1>6, PlainURLPiece
  <1>. QED  BY <1>2, <1>7

\* Of a URL that names a user nothing is shown before the last @ of its authority,
\* whatever that has of @, : and words but keys, and all that comes after it is.
THEOREM UserinfoShown ==
    ASSUME NEW a, Authority(a), Len(a) >= 3, a[Len(a) - 1] = "@"
    PROVE  Shows(Piece(URL(a), URL(<<Redacted, "@", "word">>)))
  <1>. DEFINE h == <<Redacted, "@", "word">>
              R == <<Redacted, "@">>
  <1>1. PICK n \in Nat : n = Len(a) /\ n >= 3 /\ a[n - 1] = "@" /\ a[n] = "word"  BY DEF Authority
  <1>2. PICK t \in Seq(Marks) : t = URL(a)  BY URLIs DEF Authority
  <1>3. Redacted \in Marks /\ "@" \in Marks /\ "word" \in Marks
        /\ Redacted # "key" /\ "@" # "key" /\ "://" # "key" /\ "/" # "key" /\ "word" # "key"
    BY DEF Marks, Words, Redacted
  <1>4. h \in Seq(Marks) /\ Len(h) = 3 /\ h[1] = Redacted /\ h[2] = "@" /\ h[3] = "word"
    BY <1>3
  <1>5. R \in Seq(Marks) /\ Len(R) = 2 /\ R[1] = Redacted /\ R[2] = "@"  BY <1>3
  <1>. HIDE DEF h, R
  <1>6. PICK q \in Seq(Marks) : q = URL(h)  BY <1>4, URLIs
  <1>7. /\ Len(q) = 6 /\ q[1] = "://" /\ q[2] = Redacted /\ q[3] = "@" /\ q[4] = "word"
        /\ q[5] = "/" /\ q[6] = "word"
    <2>1. /\ Len(q) = Len(h) + 3 /\ q[1] = "://" /\ \A i \in 1..Len(h) : q[1 + i] = h[i]
          /\ q[Len(h) + 2] = "/" /\ q[Len(h) + 3] = "word"
      BY <1>4, <1>6, URLIs
    <2>2. 1 \in 1..Len(h) /\ 2 \in 1..Len(h) /\ 3 \in 1..Len(h)
          /\ 1 + 1 = 2 /\ 1 + 2 = 3 /\ 1 + 3 = 4 /\ Len(h) + 2 = 5 /\ Len(h) + 3 = 6
      BY <1>4
    <2>. QED  BY <2>1, <2>2, <1>4
  <1>8. \A i \in 1..Len(q) : q[i] # "key"
    <2>1. \A i \in 1..6 : i = 1 \/ i = 2 \/ i = 3 \/ i = 4 \/ i = 5 \/ i = 6  OBVIOUS
    <2>. QED  BY <2>1, <1>3, <1>7
  <1>9. OneAuthority(t, 1, n + 2) /\ \A i \in 1..Len(t) : t[i] # "key"
    BY <1>1, <1>2, AuthorityEndsAt
  <1>10. /\ Len(t) = n + 3 /\ \A i \in 1..n : t[1 + i] = a[i]
         /\ t[1] = "://" /\ t[n + 2] = "/" /\ t[n + 3] = "word"
    BY <1>1, <1>2, URLIs DEF Authority
  <1>11. t[n] = "@" /\ t[n + 1] = "word"
    <2>1. n - 1 \in 1..n /\ 1 + (n - 1) = n /\ n \in 1..n /\ 1 + n = n + 1  BY <1>1
    <2>. QED  BY <2>1, <1>1, <1>10
  <1>12. \A i \in (n + 1)..((n + 2) - 1) : t[i] # "@"
    <2>1. \A i \in (n + 1)..((n + 2) - 1) : i = n + 1  OBVIOUS
    <2>. QED  BY <2>1, <1>11
  <1>13. Spliced(t, 1 + 1, n, R, q)
    <2>1. Len(q) = ((1 + 1) - 1) + Len(R) + (Len(t) - n)  BY <1>5, <1>7, <1>10
    <2>2. \A i \in 1..((1 + 1) - 1) : q[i] = t[i]
      <3>1. \A i \in 1..((1 + 1) - 1) : i = 1  OBVIOUS
      <3>. QED  BY <3>1, <1>7, <1>10
    <2>3. \A i \in 1..Len(R) : q[((1 + 1) - 1) + i] = R[i]
      <3>1. \A i \in 1..Len(R) : (i = 1 /\ ((1 + 1) - 1) + i = 2) \/ (i = 2 /\ ((1 + 1) - 1) + i = 3)
        BY <1>5
      <3>. QED  BY <3>1, <1>5, <1>7
    <2>4. \A i \in 1..(Len(t) - n) : q[((1 + 1) - 1) + Len(R) + i] = t[n + i]
      <3>1. \A i \in 1..(Len(t) - n) :
               \/ i = 1 /\ ((1 + 1) - 1) + Len(R) + i = 4
               \/ i = 2 /\ ((1 + 1) - 1) + Len(R) + i = 5
               \/ i = 3 /\ ((1 + 1) - 1) + Len(R) + i = 6
        BY <1>5, <1>10
      <3>. QED  BY <3>1, <1>7, <1>10, <1>11
    <2>. QED  BY <2>1, <2>2, <2>3, <2>4 DEF Spliced
  <1>14. 1 \in 1..Len(t) /\ n \in (1 + 1)..((n + 2) - 1)  BY <1>1, <1>10
  <1>15. Shows(Piece(t, q))
    BY Zenon, <1>8, <1>9, <1>11, <1>12, <1>13, <1>14, URLPiece DEF R
  <1>. QED  BY <1>2, <1>6, <1>15 DEF h

LEMMA Authorities ==
    /\ Authority(<<"word">>) /\ \A i \in 1..Len(<<"word">>) : <<"word">>[i] # "@"
    /\ LET a == <<"secret", "@", "word">>
       IN  Authority(a) /\ Len(a) >= 3 /\ a[Len(a) - 1] = "@"
    /\ LET a == <<"secret", "@", "secret", ":", "secret", "@", "word">>
       IN  Authority(a) /\ Len(a) >= 3 /\ a[Len(a) - 1] = "@"
  <1>1. "word" \in Marks /\ "secret" \in Marks /\ "@" \in Marks /\ ":" \in Marks
    BY DEF Marks, Words
  <1>2. Authority(<<"word">>) /\ \A i \in 1..Len(<<"word">>) : <<"word">>[i] # "@"
    <2>. DEFINE a == <<"word">>
    <2>1. a \in Seq(Marks) /\ Len(a) = 1 /\ a[1] = "word"  BY <1>1
    <2>. HIDE DEF a
    <2>2. Authority(a) /\ \A i \in 1..Len(a) : a[i] # "@"  BY <2>1 DEF Authority
    <2>. QED  BY <2>2 DEF a
  <1>3. LET a == <<"secret", "@", "word">>
        IN  Authority(a) /\ Len(a) >= 3 /\ a[Len(a) - 1] = "@"
    <2>. DEFINE a == <<"secret", "@", "word">>
    <2>1. a \in Seq(Marks) /\ Len(a) = 3 /\ a[1] = "secret" /\ a[2] = "@" /\ a[3] = "word"
      BY <1>1
    <2>. HIDE DEF a
    <2>2. Authority(a) /\ Len(a) >= 3 /\ a[Len(a) - 1] = "@"  BY <2>1 DEF Authority
    <2>. QED  BY <2>2 DEF a
  <1>4. LET a == <<"secret", "@", "secret", ":", "secret", "@", "word">>
        IN  Authority(a) /\ Len(a) >= 3 /\ a[Len(a) - 1] = "@"
    <2>. DEFINE a == <<"secret", "@", "secret", ":", "secret", "@", "word">>
    <2>1. /\ a \in Seq(Marks) /\ Len(a) = 7 /\ a[1] = "secret" /\ a[2] = "@" /\ a[3] = "secret"
          /\ a[4] = ":" /\ a[5] = "secret" /\ a[6] = "@" /\ a[7] = "word"
      BY <1>1
    <2>. HIDE DEF a
    <2>2. Authority(a) /\ Len(a) >= 3 /\ a[Len(a) - 1] = "@"  BY <2>1 DEF Authority
    <2>. QED  BY <2>2 DEF a
  <1>. QED  BY <1>2, <1>3, <1>4

\* Each piece is shown as it should be, whatever comes after it.
LEMMA PiecesShown ==
    ASSUME NEW e \in Pieces
    PROVE  Shows(e)
  <1>1. /\ Shows(Same(URL(<<"word">>)))
        /\ Shows(Piece(URL(<<"secret", "@", "word">>), URL(<<Redacted, "@", "word">>)))
        /\ Shows(Piece(URL(<<"secret", "@", "secret", ":", "secret", "@", "word">>),
                       URL(<<Redacted, "@", "word">>)))
    BY Authorities, URLShown, UserinfoShown
  <1>2. /\ Shows(Piece(<<"key", "=", "secret">>, <<"key", "=", Redacted>>))
        /\ Shows(Piece(<<"key", ":", "secret">>, <<"key", ":", Redacted>>))
    BY KeyIsValue
  <1>. QED
    BY Zenon, <1>1, <1>2, WordIsPlain, KeyAlone, KeyIsSpacedValue, KeyIsQuotedValue,
       QuotedKeyIsQuotedValue, KeyIsProse, KeyInWord DEF Pieces

\* No piece begins with what could end a key before it.
LEMMA BeginsWith ==
    ASSUME NEW t, NEW q, t # <<>>, t[1] \in {"word", "key", "quote", "://"}
    PROVE  Begins(Piece(t, q))
  BY DEF Begins, Piece

LEMMA URLBegins ==
    ASSUME NEW a, Authority(a), NEW q
    PROVE  Begins(Piece(URL(a), q))
  <1>1. PICK t \in Seq(Marks) : t = URL(a) /\ Len(t) = Len(a) + 3 /\ t[1] = "://"
    BY URLIs DEF Authority
  <1>2. t # <<>>  BY <1>1, EmptySeq DEF Authority
  <1>. QED  BY <1>1, <1>2, BeginsWith

LEMMA PiecesBegin ==
    ASSUME NEW e \in Pieces
    PROVE  Begins(e)
  <1>1. /\ Begins(Same(URL(<<"word">>)))
        /\ Begins(Piece(URL(<<"secret", "@", "word">>), URL(<<Redacted, "@", "word">>)))
        /\ Begins(Piece(URL(<<"secret", "@", "secret", ":", "secret", "@", "word">>),
                        URL(<<Redacted, "@", "word">>)))
    BY Authorities, URLBegins DEF Same
  <1>2. Begins(Same(<<"word">>)) /\ Begins(Same(<<"key">>))
    BY BeginsWith DEF Same
  <1>3. /\ Begins(Piece(<<"key", "=", "secret">>, <<"key", "=", Redacted>>))
        /\ Begins(Piece(<<"key", ":", "secret">>, <<"key", ":", Redacted>>))
        /\ Begins(Piece(<<"key", "space", "=", "space", "secret">>,
                        <<"key", "space", "=", "space", Redacted>>))
    BY BeginsWith
  <1>4. Begins(Piece(<<"key", "=", "quote", "secret", "space", "secret", "quote">>,
                     <<"key", "=", "quote", Redacted, "quote">>))
    BY BeginsWith
  <1>5. Begins(Piece(<<"quote", "key", "quote", ":", "space", "quote", "secret", "escaped", "secret", "quote">>,
                     <<"quote", "key", "quote", ":", "space", "quote", Redacted, "quote">>))
    BY BeginsWith
  <1>6. Begins(Same(<<"key", ":", "space", "word">>)) /\ Begins(Same(<<"word", "key", "=", "word">>))
    BY BeginsWith DEF Same
  <1>. QED
    BY Zenon, <1>1, <1>2, <1>3, <1>4, <1>5, <1>6 DEF Pieces

\* If scrub shows texts as it should, it does so of each with one more piece after
\* a space or an &: hence of texts of any number of pieces.
THEOREM JoinedShown ==
    ASSUME NEW S, \A a \in S : Shows(a), NEW e \in Joined(S)
    PROVE  Shows(e)
  <1>1. PICK a \in S, s \in {"space", "&"}, b \in Pieces : e = Join(a, s, b)
    BY DEF Joined
  <1>2. Shows(a) /\ Shows(b) /\ Begins(b)  BY <1>1, PiecesShown, PiecesBegin
  <1>. QED  BY <1>1, <1>2, JoinShown

\* No text of the model shows a secret, and each shows all its other marks: what
\* errors.rs makes of it is what R may see of it.
THEOREM TextsShown ==
    ASSUME NEW e \in Texts
    PROVE  scrub(e.text) = e.shown
  <1>1. \A a \in Pieces : Shows(a)  BY PiecesShown
  <1>2. \A a \in Joined(Pieces) : Shows(a)  BY <1>1, JoinedShown
  <1>3. \A a \in Joined(Joined(Pieces)) : Shows(a)
    <2>. DEFINE S == Joined(Pieces)
    <2>. HIDE DEF S
    <2>1. \A a \in S : Shows(a)  BY <1>2 DEF S
    <2>2. \A a \in Joined(S) : Shows(a)  BY <2>1, JoinedShown
    <2>. QED  BY <2>2 DEF S
  <1>4. Shows(e)  BY Zenon, <1>1, <1>2, <1>3 DEF Texts
  <1>5. PICK t \in Seq(Marks), q \in Seq(Marks) : t = e.text /\ q = e.shown  BY <1>4 DEF Shows
  <1>6. <<>> \in Seq(Marks) /\ Opening(<<>>)  BY EmptySeq DEF Opening
  <1>7. scrub(t \o <<>>) = q \o scrub(<<>>)  BY <1>4, <1>5, <1>6 DEF Shows
  <1>8. scrub(<<>>) = <<>>
    <2>1. PICK z \in Seq(Marks) : z = <<>> /\ Len(z) = 0  BY EmptySeq
    <2>2. \A i \in 1..Len(z) : z[i] # "://" /\ z[i] # "key"  BY <2>1
    <2>3. scrub_userinfo(z) = z  BY <2>2, NoURL
    <2>4. scrub_params(z) = z  BY <2>2, NoKey
    <2>. QED  BY <2>1, <2>3, <2>4 DEF scrub
  <1>9. t \o <<>> = t /\ q \o <<>> = q  BY ConcatEmptySeq
  <1>. QED  BY <1>5, <1>7, <1>8, <1>9
=============================================================================
