SPECIFICATION Spec
CONSTANTS
    Ten <- MCTen
    Places = 1
    Doubles <- MCDoubles
    Singles <- MCSingles
    MaxInt = 3
    MaxLong = 15
    Micros = 4
    Nanos = 2
    Calendar <- MCCalendar
    Clock <- MCClock
    Precision = 2
    Scales = {0, 1, 2}
    Numerals <- MCNumerals
    Infinite = Infinite
INVARIANTS
    ComparesAsInR
CHECK_DEADLOCK FALSE
