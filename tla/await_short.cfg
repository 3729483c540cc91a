SPECIFICATION Spec
CONSTANTS
    Poll = 2
    Timeouts = {3}
    ClockEnd = 100
    MaxAwaits = 3
    MaxPresses = 1
    Horizon = 8
INVARIANTS
    InterruptStopsCall
