SPECIFICATION FairSpec
CONSTANTS
    Poll = 2
    Timeouts = {0, 3, 100}
    ClockEnd = 100
    MaxAwaits = 2
    MaxPresses = 2
    Horizon = 8
INVARIANTS
    EachInterruptOnce
    GivesUpOnTime
    AwaitSeesInterrupt
PROPERTIES
    CallReturns
    InterruptEndsAwait
