-------------------------------- MODULE BlockOn --------------------------------
(***************************************************************************)
(* runtime.rs: how a call from R waits for a future.  R's one thread runs   *)
(* R code, a call of this package, or one await of it; block_on() polls     *)
(* the future in slices of Poll ticks and between slices looks first at     *)
(* R's interrupt flag and then at the deadline of the await.  R tests the   *)
(* same flag when it is back in R code.  A process forked from one that     *)
(* started the runtime has the runtime's memory and none of its threads.    *)
(*                                                                          *)
(* Time moves in ticks.  A slice ends on time: the future yields when it is *)
(* polled, and what R's thread does between two slices, or between two      *)
(* awaits of a call, takes no time.                                         *)
(***************************************************************************)
EXTENDS Integers

CONSTANTS
    Poll,           \* ticks of one slice
    Timeouts,       \* ticks of the ceilings that R may set; 0 disables it
    ClockEnd,       \* a ceiling that no clock can be ahead by
    MaxAwaits,      \* bound: awaits of one call
    MaxPresses,     \* bound: interrupts by the user
    Horizon         \* bound: clocks stop here

ASSUME TicksAssumption ==
    /\ Poll \in Nat \ {0} /\ Timeouts \subseteq Nat
    /\ MaxAwaits \in Nat \ {0} /\ MaxPresses \in Nat
    /\ Horizon \in Nat /\ ClockEnd \in Nat
    /\ \A t \in Timeouts : t < ClockEnd => Horizon > t + Poll

VARIABLES
    at,             \* what R's thread is doing
    awaits,         \* awaits the call has still to make
    timeout,        \* ICEBERGR_TIMEOUT_SECONDS, in ticks
    ready,          \* the future has its output
    sliceAge,       \* ticks since the slice began
    waited,         \* ticks since the await began, which fix its deadline
    flag,           \* R_interrupts_pending
    flagAge,        \* ticks the call has waited while the flag was set
    owner,          \* the process that started the runtime
    pid,            \* the process this is
    outcome,        \* how the last call ended
    presses,        \* interrupts that set the flag
    handled         \* interrupts that became a condition in R

clocks == <<sliceAge, waited, flagAge>>
ghosts == <<presses, handled>>
vars == <<at, awaits, timeout, ready, clocks, flag, owner, pid, outcome, ghosts>>

Processes == {"parent", "child"}
InAwait == {"slice", "elapsed", "uninterrupted"}

owned_by_this_process == owner = pid

Init ==
    /\ at = "R" /\ awaits = 0 /\ timeout \in Timeouts /\ ready = FALSE
    /\ sliceAge = 0 /\ waited = 0
    /\ flag = FALSE /\ flagAge = 0
    /\ owner = "none" /\ pid = "parent"
    /\ outcome = "none"
    /\ presses = 0 /\ handled = 0

-----------------------------------------------------------------------------
(* R and its user.                                                          *)

\* Every await reads the ceiling, and R sets it between calls only.
BeginCall(n, t) ==
    /\ at = "R"
    /\ at' = "call"
    /\ awaits' = n
    /\ timeout' = t
    /\ outcome' = "none"
    /\ flagAge' = 0
    /\ UNCHANGED <<ready, sliceAge, waited, flag, owner, pid, ghosts>>

\* R reaches a point where it tests the flag itself.
RChecksInterrupt ==
    /\ at = "R" /\ flag
    /\ flag' = FALSE
    /\ handled' = handled + 1
    /\ UNCHANGED <<at, awaits, timeout, ready, clocks, owner, pid, outcome, presses>>

Press ==
    /\ ~flag /\ presses < MaxPresses
    /\ flag' = TRUE
    /\ flagAge' = 0
    /\ presses' = presses + 1
    /\ UNCHANGED <<at, awaits, timeout, ready, sliceAge, waited, owner, pid, outcome, handled>>

\* parallel::mclapply(): from here on this is the child.
Fork ==
    /\ at = "R" /\ pid = "parent"
    /\ pid' = "child"
    /\ UNCHANGED <<at, awaits, timeout, ready, clocks, flag, owner, outcome, ghosts>>

-----------------------------------------------------------------------------
(* The call.                                                                *)

EndsCall(how) == at' = "R" /\ outcome' = how

\* The deadline is added to the clock, which panics past its end.
Polls ==
    IF timeout < ClockEnd THEN at' = "slice" /\ UNCHANGED outcome ELSE EndsCall("panicked")

\* BUG: the runtime is used whoever started it.
tokio_runtime_unchecked ==
    /\ owner' = IF owner = "none" THEN pid ELSE owner
    /\ Polls

\* The runtime is started on first use, and a forked child refuses it.
tokio_runtime ==
    /\ owner' = IF owner = "none" THEN pid ELSE owner
    /\ IF owner' = pid THEN Polls ELSE EndsCall("forked")

BeginAwait ==
    /\ at = "call" /\ awaits > 0
    /\ tokio_runtime
    /\ awaits' = awaits - 1
    /\ ready' = FALSE /\ sliceAge' = 0 /\ waited' = 0
    /\ UNCHANGED <<timeout, flag, flagAge, pid, ghosts>>

EndCall ==
    /\ at = "call" /\ awaits = 0
    /\ EndsCall("ok")
    /\ UNCHANGED <<awaits, timeout, ready, clocks, flag, owner, pid, ghosts>>

\* The future's output is looked at before the slice's timer.
SliceReady ==
    /\ at = "slice" /\ owned_by_this_process /\ ready
    /\ at' = "call"
    /\ UNCHANGED <<awaits, timeout, ready, clocks, flag, owner, pid, outcome, ghosts>>

SliceElapses ==
    /\ at = "slice" /\ owned_by_this_process /\ ~ready /\ sliceAge >= Poll
    /\ at' = "elapsed"
    /\ UNCHANGED <<awaits, timeout, ready, clocks, flag, owner, pid, outcome, ghosts>>

\* BUG: the interrupt is reported and left for R to report again.
take_interrupt_kept ==
    /\ at = "elapsed"
    /\ IF flag
         THEN EndsCall("interrupted") /\ handled' = handled + 1 /\ UNCHANGED flag
         ELSE at' = "uninterrupted" /\ UNCHANGED <<flag, handled, outcome>>
    /\ UNCHANGED <<awaits, timeout, ready, clocks, owner, pid, presses>>

\* BUG: the flag is looked at once the deadline has passed.
take_interrupt_late ==
    /\ at = "elapsed"
    /\ IF flag /\ waited >= timeout
         THEN EndsCall("interrupted") /\ handled' = handled + 1 /\ flag' = FALSE
         ELSE at' = "uninterrupted" /\ UNCHANGED <<flag, handled, outcome>>
    /\ UNCHANGED <<awaits, timeout, ready, clocks, owner, pid, presses>>

\* BUG: the flag is looked at when there is no deadline to end the await.
take_interrupt_never ==
    /\ at = "elapsed"
    /\ at' = "uninterrupted"
    /\ UNCHANGED <<awaits, timeout, ready, clocks, flag, owner, pid, outcome, ghosts>>

take_interrupt ==
    /\ at = "elapsed"
    /\ IF flag
         THEN EndsCall("interrupted") /\ handled' = handled + 1 /\ flag' = FALSE
         ELSE at' = "uninterrupted" /\ UNCHANGED <<flag, handled, outcome>>
    /\ UNCHANGED <<awaits, timeout, ready, clocks, owner, pid, presses>>

NextSlice ==
    /\ at' = "slice"
    /\ sliceAge' = 0
    /\ UNCHANGED outcome

\* BUG: the ceiling is counted in whole slices, rounded down.
TestDeadlineEarly ==
    /\ at = "uninterrupted"
    /\ IF timeout > 0 /\ waited + Poll > timeout
         THEN EndsCall("gave up") /\ UNCHANGED sliceAge
         ELSE NextSlice
    /\ UNCHANGED <<awaits, timeout, ready, waited, flagAge, flag, owner, pid, ghosts>>

TestDeadline ==
    /\ at = "uninterrupted"
    /\ IF timeout > 0 /\ waited >= timeout
         THEN EndsCall("gave up") /\ UNCHANGED sliceAge
         ELSE NextSlice
    /\ UNCHANGED <<awaits, timeout, ready, waited, flagAge, flag, owner, pid, ghosts>>

-----------------------------------------------------------------------------
(* The worker threads, the network and the clock.                           *)

FutureReady ==
    /\ at \in InAwait /\ owned_by_this_process /\ ~ready
    /\ ready' = TRUE
    /\ UNCHANGED <<at, awaits, timeout, clocks, flag, owner, pid, outcome, ghosts>>

Ticked(clock) == IF clock < Horizon THEN clock + 1 ELSE clock

\* A slice that is due ends before the clock moves, if there is a timer thread.
Tick ==
    /\ at = "slice"
    /\ owned_by_this_process => ~ready /\ sliceAge < Poll
    /\ sliceAge' = Ticked(sliceAge)
    /\ waited' = Ticked(waited)
    /\ flagAge' = IF flag THEN Ticked(flagAge) ELSE flagAge
    /\ UNCHANGED <<at, awaits, timeout, ready, flag, owner, pid, outcome, ghosts>>

ThreadStep ==
    \/ BeginAwait \/ EndCall
    \/ SliceReady \/ SliceElapses
    \/ take_interrupt \/ TestDeadline

Next ==
    \/ \E n \in 1..MaxAwaits, t \in Timeouts : BeginCall(n, t)
    \/ RChecksInterrupt \/ Press \/ Fork
    \/ ThreadStep
    \/ FutureReady
    \/ Tick

Spec == Init /\ [][Next]_vars

\* R's thread runs, and time passes.  Nothing is assumed of the future.
FairSpec == Spec /\ WF_vars(ThreadStep) /\ WF_vars(Tick)

-----------------------------------------------------------------------------
TypeOK ==
    /\ at \in {"R", "call"} \cup InAwait
    /\ awaits \in 0..MaxAwaits /\ timeout \in Timeouts
    /\ ready \in BOOLEAN /\ flag \in BOOLEAN
    /\ sliceAge \in 0..Horizon /\ waited \in 0..Horizon /\ flagAge \in 0..Horizon
    /\ owner \in Processes \cup {"none"} /\ pid \in Processes
    /\ outcome \in {"none", "ok", "interrupted", "gave up", "forked", "panicked"}
    /\ presses \in 0..MaxPresses /\ handled \in 0..MaxPresses

\* An interrupt becomes one condition in R, whoever finds the flag: none is
\* swallowed by a call that ended, none is raised a second time.
EachInterruptOnce == presses = handled + (IF flag THEN 1 ELSE 0)

\* The ceiling is a ceiling on one await: none is given up on early, and none
\* outlives it by a slice.
GivesUpOnTime ==
    /\ outcome = "gave up" => timeout > 0 /\ waited >= timeout
    /\ (at \in InAwait \/ outcome = "gave up") /\ timeout > 0 => waited < timeout + Poll

\* A flag that was set stops the await it finds within one slice.
AwaitSeesInterrupt ==
    at \in InAwait /\ flag => flagAge <= Poll \/ waited <= Poll

\* With the ceiling on, a call comes back whatever the catalog, the storage
\* and the user do, in a forked process too.
CallReturns == at # "R" /\ timeout > 0 ~> at = "R"

\* An interrupt is a way out of every await, with the ceiling off too.
InterruptEndsAwait == at \in InAwait /\ flag ~> at \notin InAwait

\* What the release notes say: Ctrl-C interrupts a blocking call.  So no call
\* comes back as if nothing had happened after it has waited for longer than
\* a slice with the flag set.
InterruptStopsCall == outcome = "ok" /\ flag => flagAge <= Poll
=============================================================================
