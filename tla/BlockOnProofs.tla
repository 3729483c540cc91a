----------------------------- MODULE BlockOnProofs -----------------------------
(***************************************************************************)
(* The safety invariants of BlockOn, for slices, ceilings and clocks of any  *)
(* length, calls of any number of awaits and any number of interrupts.      *)
(*                                                                          *)
(* What an await has to keep to be on time is said for each of its three    *)
(* places: in a slice, clocks are compared with the age of the slice, which *)
(* is at most Poll; between slices, with Poll.                              *)
(***************************************************************************)
EXTENDS BlockOn, TLAPS

-----------------------------------------------------------------------------
\* No call is under way and over at once.
OneOutcome == at # "R" => outcome = "none"

\* An await is made in the process that started the runtime, and under a
\* ceiling that the clock can be ahead by.
AwaitsAreOurs == at \in InAwait => owned_by_this_process /\ timeout < ClockEnd

SlicesEnd == at = "slice" => sliceAge <= Poll

\* A slice begins before the deadline.
DeadlineFits ==
    /\ at = "slice" /\ timeout > 0 => waited < timeout + sliceAge
    /\ at \in {"elapsed", "uninterrupted"} /\ timeout > 0 => waited < timeout + Poll

\* A flag that is found set was set in this slice, before this await, or
\* since the slice's flag was looked at.
FlagFits ==
    /\ at = "slice" /\ flag => flagAge <= sliceAge \/ waited <= sliceAge
    /\ at = "elapsed" /\ flag => flagAge <= Poll \/ waited <= Poll
    /\ at = "uninterrupted" /\ flag => flagAge = 0

Phases == OneOutcome /\ AwaitsAreOurs /\ SlicesEnd /\ DeadlineFits /\ FlagFits

\* Whether the deadline was kept is decided where an await ends.
GaveUpOnTime ==
    outcome = "gave up" => timeout > 0 /\ waited >= timeout /\ waited < timeout + Poll

IInv == TypeOK /\ Phases /\ EachInterruptOnce /\ GaveUpOnTime

\* The clocks do not stop within a slice, nor before the deadline's slice.
LEMMA ClocksRun ==
    ASSUME TypeOK, AwaitsAreOurs, SlicesEnd, at \in InAwait
    PROVE  /\ Horizon > timeout + Poll
           /\ timeout \in Nat /\ Poll \in Nat /\ Horizon \in Nat
           /\ sliceAge \in Nat /\ waited \in Nat /\ flagAge \in Nat
  <1>1. timeout \in Timeouts  BY DEF TypeOK
  <1>2. sliceAge \in 0..Horizon /\ waited \in 0..Horizon /\ flagAge \in 0..Horizon  BY DEF TypeOK
  <1>3. timeout < ClockEnd  BY DEF AwaitsAreOurs
  <1>4. Poll \in Nat /\ Horizon \in Nat /\ Timeouts \subseteq Nat  BY TicksAssumption
  <1>5. \A t \in Timeouts : t < ClockEnd => Horizon > t + Poll  BY TicksAssumption
  <1>. QED  BY <1>1, <1>2, <1>3, <1>4, <1>5

\* Clocks and counters are numbers.
LEMMA NumbersAre ==
    ASSUME TypeOK
    PROVE  /\ presses \in Nat /\ handled \in Nat /\ awaits \in Nat /\ timeout \in Nat
           /\ sliceAge \in Nat /\ waited \in Nat /\ flagAge \in Nat
           /\ Poll \in Nat /\ Poll > 0 /\ Horizon \in Nat /\ ClockEnd \in Nat
           /\ MaxPresses \in Nat /\ MaxAwaits \in Nat
  <1>1. awaits \in 0..MaxAwaits /\ timeout \in Timeouts  BY DEF TypeOK
  <1>2. sliceAge \in 0..Horizon /\ waited \in 0..Horizon /\ flagAge \in 0..Horizon  BY DEF TypeOK
  <1>3. presses \in 0..MaxPresses /\ handled \in 0..MaxPresses  BY DEF TypeOK
  <1>4. /\ Poll \in Nat \ {0} /\ Horizon \in Nat /\ ClockEnd \in Nat
        /\ MaxPresses \in Nat /\ MaxAwaits \in Nat \ {0} /\ Timeouts \subseteq Nat
    BY TicksAssumption
  <1>. QED  BY <1>1, <1>2, <1>3, <1>4

LEMMA InitIInv == Init => IInv
  <1>. SUFFICES ASSUME Init PROVE IInv  OBVIOUS
  <1>1. TypeOK
    <2>1. 0 \in 0..MaxAwaits /\ 0 \in 0..Horizon /\ 0 \in 0..MaxPresses  BY TicksAssumption
    <2>. QED  BY <2>1 DEF Init, TypeOK, Processes
  <1>2. Phases
    BY DEF Init, Phases, OneOutcome, AwaitsAreOurs, SlicesEnd, DeadlineFits, FlagFits, InAwait
  <1>3. EachInterruptOnce /\ GaveUpOnTime
    BY DEF Init, EachInterruptOnce, GaveUpOnTime
  <1>. QED  BY <1>1, <1>2, <1>3 DEF IInv

-----------------------------------------------------------------------------
(* The steps.                                                               *)

\* Clocks and counters keep their bounds, and the rest its values.
Bounded ==
    /\ awaits \in 0..MaxAwaits
    /\ sliceAge \in 0..Horizon /\ waited \in 0..Horizon /\ flagAge \in 0..Horizon
    /\ presses \in 0..MaxPresses /\ handled \in 0..MaxPresses

Placed ==
    /\ at \in {"R", "call"} \cup InAwait /\ timeout \in Timeouts
    /\ ready \in BOOLEAN /\ flag \in BOOLEAN
    /\ owner \in Processes \cup {"none"} /\ pid \in Processes
    /\ outcome \in {"none", "ok", "interrupted", "gave up", "forked", "panicked"}

LEMMA TypesSplit == TypeOK <=> Bounded /\ Placed
  BY DEF TypeOK, Bounded, Placed

LEMMA StepKeepsPlaces ==
    ASSUME Placed, [Next]_vars
    PROVE  Placed'
  <1>. USE DEF Placed
  <1>1. ASSUME NEW n \in 1..MaxAwaits, NEW t \in Timeouts, BeginCall(n, t)
        PROVE  Placed'
    BY <1>1 DEF BeginCall
  <1>2. CASE RChecksInterrupt  BY <1>2 DEF RChecksInterrupt
  <1>3. CASE Press  BY <1>3 DEF Press
  <1>4. CASE Fork  BY <1>4 DEF Fork, Processes
  <1>5. CASE BeginAwait
    BY <1>5 DEF BeginAwait, tokio_runtime, Polls, EndsCall, InAwait, Processes
  <1>6. CASE EndCall  BY <1>6 DEF EndCall, EndsCall
  <1>7. CASE SliceReady  BY <1>7 DEF SliceReady
  <1>8. CASE SliceElapses  BY <1>8 DEF SliceElapses, InAwait
  <1>9. CASE take_interrupt  BY <1>9 DEF take_interrupt, EndsCall, InAwait
  <1>10. CASE TestDeadline  BY <1>10 DEF TestDeadline, NextSlice, EndsCall, InAwait
  <1>11. CASE FutureReady  BY <1>11 DEF FutureReady
  <1>12. CASE Tick  BY <1>12 DEF Tick
  <1>13. CASE UNCHANGED vars  BY <1>13 DEF vars
  <1>. QED
    BY <1>1, <1>2, <1>3, <1>4, <1>5, <1>6, <1>7, <1>8, <1>9, <1>10, <1>11, <1>12, <1>13
    DEF Next, ThreadStep

LEMMA TickedStays ==
    ASSUME Horizon \in Nat, NEW n \in 0..Horizon
    PROVE  Ticked(n) \in 0..Horizon
  BY DEF Ticked

LEMMA StepKeepsBounds ==
    ASSUME TypeOK, EachInterruptOnce, [Next]_vars
    PROVE  Bounded'
  <1>. Bounded  BY TypesSplit
  <1>. USE DEF Bounded
  <1>1. Horizon \in Nat /\ MaxAwaits \in Nat /\ MaxPresses \in Nat  BY NumbersAre
  <1>2. flag => handled + 1 \in 0..MaxPresses /\ presses \in Nat
    <2>1. presses = handled + (IF flag THEN 1 ELSE 0)  BY DEF EachInterruptOnce
    <2>. QED  BY <2>1, <1>1
  <1>3. ASSUME NEW n \in 1..MaxAwaits, NEW t \in Timeouts, BeginCall(n, t)
        PROVE  Bounded'
    <2>1. awaits' \in 0..MaxAwaits  BY <1>1, <1>3 DEF BeginCall
    <2>. QED  BY <1>1, <1>3, <2>1 DEF BeginCall, ghosts
  <1>4. CASE RChecksInterrupt
    <2>1. handled' \in 0..MaxPresses  BY <1>2, <1>4 DEF RChecksInterrupt
    <2>. QED  BY <1>4, <2>1 DEF RChecksInterrupt, clocks
  <1>5. CASE Press
    <2>1. presses' \in 0..MaxPresses  BY <1>1, <1>5 DEF Press
    <2>. QED  BY <1>1, <1>5, <2>1 DEF Press
  <1>6. CASE BeginAwait
    <2>1. awaits' \in 0..MaxAwaits  BY <1>1, <1>6 DEF BeginAwait
    <2>. QED  BY <1>1, <1>6, <2>1 DEF BeginAwait, ghosts
  <1>7. CASE take_interrupt  BY <1>2, <1>7 DEF take_interrupt, clocks
  <1>8. CASE TestDeadline
    <2>1. sliceAge' \in {0, sliceAge}  BY <1>8 DEF TestDeadline, NextSlice
    <2>2. sliceAge' \in 0..Horizon  BY <1>1, <2>1
    <2>. QED  BY <1>8, <2>2 DEF TestDeadline, ghosts
  <1>9. CASE Tick
    <2>1. sliceAge' \in 0..Horizon /\ waited' \in 0..Horizon /\ flagAge' \in 0..Horizon
      BY <1>1, <1>9, TickedStays DEF Tick
    <2>. QED  BY <1>9, <2>1 DEF Tick, ghosts
  <1>10. ASSUME UNCHANGED <<awaits, clocks, ghosts>>
         PROVE  Bounded'
    BY <1>10 DEF clocks, ghosts
  <1>. QED
    BY <1>3, <1>4, <1>5, <1>6, <1>7, <1>8, <1>9, <1>10
    DEF Next, ThreadStep, Fork, EndCall, SliceReady, SliceElapses, FutureReady, vars

LEMMA StepKeepsTypes ==
    ASSUME TypeOK, EachInterruptOnce, [Next]_vars
    PROVE  TypeOK'
  <1>1. Bounded' /\ Placed'  BY TypesSplit, StepKeepsPlaces, StepKeepsBounds
  <1>. QED  BY <1>1 DEF TypeOK, Bounded, Placed

LEMMA StepKeepsPhases ==
    ASSUME IInv, [Next]_vars
    PROVE  Phases'
  <1>0. /\ sliceAge \in Nat /\ waited \in Nat /\ flagAge \in Nat
        /\ timeout \in Nat /\ Poll \in Nat /\ Poll > 0
        /\ flag \in BOOLEAN
    BY NumbersAre DEF IInv, TypeOK
  <1>. USE <1>0
       DEF IInv, Phases, OneOutcome, AwaitsAreOurs, SlicesEnd, DeadlineFits, FlagFits,
           InAwait, owned_by_this_process
  <1>1. ASSUME NEW n \in 1..MaxAwaits, NEW t \in Timeouts, BeginCall(n, t)
        PROVE  Phases'
    BY <1>1 DEF BeginCall
  <1>2. CASE RChecksInterrupt  BY <1>2 DEF RChecksInterrupt
  <1>3. CASE Press  BY <1>3 DEF Press
  <1>4. CASE Fork  BY <1>4 DEF Fork
  <1>5. CASE BeginAwait
    BY <1>5 DEF BeginAwait, tokio_runtime, Polls, EndsCall
  <1>6. CASE EndCall  BY <1>6 DEF EndCall, EndsCall
  <1>7. CASE SliceReady  BY <1>7 DEF SliceReady
  <1>8. CASE SliceElapses  BY <1>8 DEF SliceElapses, clocks
  <1>9. CASE take_interrupt  BY <1>9 DEF take_interrupt, EndsCall, clocks
  <1>10. CASE TestDeadline
    <2>1. CASE timeout > 0 /\ waited >= timeout
      BY <1>10, <2>1 DEF TestDeadline, EndsCall
    <2>2. CASE ~(timeout > 0 /\ waited >= timeout)
      <3>1. /\ at = "uninterrupted" /\ at' = "slice" /\ sliceAge' = 0
            /\ UNCHANGED <<waited, timeout, flag, flagAge, outcome, owner, pid>>
        BY <1>10, <2>2 DEF TestDeadline, NextSlice
      <3>2. timeout > 0 => waited < timeout + 0  BY <2>2
      <3>3. (SlicesEnd /\ DeadlineFits /\ FlagFits)'  BY <3>1, <3>2
      <3>4. (OneOutcome /\ AwaitsAreOurs)'  BY <3>1
      <3>. QED  BY <3>3, <3>4
    <2>. QED  BY <2>1, <2>2
  <1>11. CASE FutureReady  BY <1>11 DEF FutureReady, clocks
  <1>12. CASE Tick
    <2>1. at = "slice" /\ sliceAge < Poll /\ sliceAge < Horizon
      BY <1>12, ClocksRun DEF Tick
    <2>2. /\ sliceAge' = sliceAge + 1
          /\ waited' <= waited + 1 /\ waited' \in Nat
          /\ flag => flagAge' <= flagAge + 1 /\ flagAge' \in Nat
      BY <1>12, <2>1 DEF Tick, Ticked
    <2>. QED  BY <1>12, <2>1, <2>2, ClocksRun DEF Tick
  <1>13. CASE UNCHANGED vars  BY <1>13 DEF vars, clocks
  <1>. QED
    BY <1>1, <1>2, <1>3, <1>4, <1>5, <1>6, <1>7, <1>8, <1>9, <1>10, <1>11, <1>12, <1>13
    DEF Next, ThreadStep

LEMMA StepKeepsInterrupts ==
    ASSUME IInv, [Next]_vars
    PROVE  EachInterruptOnce'
  <1>1. presses \in Nat /\ handled \in Nat  BY NumbersAre DEF IInv
  <1>2. presses = handled + (IF flag THEN 1 ELSE 0)  BY DEF IInv, EachInterruptOnce
  <1>3. CASE RChecksInterrupt
    BY <1>1, <1>2, <1>3 DEF RChecksInterrupt, EachInterruptOnce
  <1>4. CASE Press  BY <1>1, <1>2, <1>4 DEF Press, EachInterruptOnce
  <1>5. CASE take_interrupt  BY <1>1, <1>2, <1>5 DEF take_interrupt, EachInterruptOnce
  <1>6. ASSUME UNCHANGED <<flag, ghosts>>
        PROVE  EachInterruptOnce'
    BY <1>2, <1>6 DEF ghosts, EachInterruptOnce
  <1>. QED
    BY <1>3, <1>4, <1>5, <1>6
    DEF Next, ThreadStep, BeginCall, Fork, BeginAwait, EndCall, SliceReady, SliceElapses,
        TestDeadline, FutureReady, Tick, vars

LEMMA StepKeepsTime ==
    ASSUME IInv, [Next]_vars
    PROVE  GaveUpOnTime'
  <1>. SUFFICES ASSUME outcome' = "gave up" PROVE GaveUpOnTime'
    BY DEF GaveUpOnTime
  <1>1. CASE outcome = "gave up"
    <2>1. at = "R"  BY <1>1 DEF IInv, Phases, OneOutcome
    <2>2. UNCHANGED <<timeout, waited, outcome>>
      BY <2>1
      DEF Next, ThreadStep, BeginCall, RChecksInterrupt, Press, Fork, BeginAwait, EndCall,
          SliceReady, SliceElapses, take_interrupt, TestDeadline, FutureReady, Tick, InAwait,
          clocks, vars
    <2>. QED  BY <1>1, <2>2 DEF IInv, GaveUpOnTime
  <1>2. CASE outcome # "gave up"
    <2>1. TestDeadline /\ timeout > 0 /\ waited >= timeout
      BY <1>2
      DEF Next, ThreadStep, BeginCall, RChecksInterrupt, Press, Fork, BeginAwait, EndCall,
          SliceReady, SliceElapses, take_interrupt, TestDeadline, FutureReady, Tick, NextSlice,
          tokio_runtime, Polls, EndsCall, clocks, vars
    <2>. QED
      BY <2>1 DEF TestDeadline, IInv, Phases, DeadlineFits, GaveUpOnTime
  <1>. QED  BY <1>1, <1>2

LEMMA StepKeepsIInv == IInv /\ [Next]_vars => IInv'
  <1>. SUFFICES ASSUME IInv, [Next]_vars PROVE IInv'  OBVIOUS
  <1>1. TypeOK'  BY StepKeepsTypes DEF IInv
  <1>. QED
    BY <1>1, StepKeepsPhases, StepKeepsInterrupts, StepKeepsTime DEF IInv

\* A slice that is due ends, so that what holds up to its age holds up to Poll.
LEMMA PhasesAreOnTime == IInv => GivesUpOnTime /\ AwaitSeesInterrupt
  <1>. SUFFICES ASSUME IInv PROVE GivesUpOnTime /\ AwaitSeesInterrupt  OBVIOUS
  <1>1. /\ sliceAge \in Nat /\ waited \in Nat /\ flagAge \in Nat
        /\ timeout \in Nat /\ Poll \in Nat
    BY NumbersAre DEF IInv
  <1>2. ASSUME at \in InAwait, timeout > 0
        PROVE  waited < timeout + Poll
    <2>1. CASE at = "slice"
      BY <1>1, <1>2, <2>1 DEF IInv, Phases, SlicesEnd, DeadlineFits
    <2>2. CASE at # "slice"
      BY <1>2, <2>2 DEF IInv, Phases, DeadlineFits, InAwait
    <2>. QED  BY <2>1, <2>2
  <1>3. GivesUpOnTime
    BY <1>2 DEF IInv, GaveUpOnTime, GivesUpOnTime
  <1>4. AwaitSeesInterrupt
    BY <1>1 DEF IInv, Phases, SlicesEnd, FlagFits, AwaitSeesInterrupt, InAwait
  <1>. QED  BY <1>3, <1>4

-----------------------------------------------------------------------------
(* The theorems.                                                            *)

\* The invariant of waiting holds for slices, ceilings and clocks of any length.
THEOREM AwaitInvariant == Spec => []IInv
  BY InitIInv, StepKeepsIInv, PTL DEF Spec

\* Every variable keeps its range.
THEOREM AwaitTypes == Spec => []TypeOK
  <1>1. IInv => TypeOK  BY DEF IInv
  <1>. QED  BY <1>1, AwaitInvariant, PTL

\* An interrupt is taken by one reader of the flag, R's or block_on()'s.
THEOREM InterruptsAreRaisedOnce == Spec => []EachInterruptOnce
  <1>1. IInv => EachInterruptOnce  BY DEF IInv
  <1>. QED  BY <1>1, AwaitInvariant, PTL

\* An await under a ceiling is given up on after it, and before a slice more.
THEOREM CeilingsAreKept == Spec => []GivesUpOnTime
  BY PhasesAreOnTime, AwaitInvariant, PTL

\* No await goes on for more than a slice with the flag set.
THEOREM InterruptsAreSeen == Spec => []AwaitSeesInterrupt
  BY PhasesAreOnTime, AwaitInvariant, PTL
=============================================================================
