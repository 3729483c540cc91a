------------------------------ MODULE MCLiterals ------------------------------
(* Ticks are tenths.  A double has tenths up to 2, halves up to 4, ones up to *)
(* 8, twos up to 16, where longs end, and fours up to 32; a float has half    *)
(* as many digits.  An int is -4..3 and a long -16..15, so that the largest   *)
(* long is no double and rounds to one past the range.                        *)
EXTENDS Literals

Signed(S) == S \cup {-x : x \in S}
Steps(from, to, step) == {x \in from..to : x % step = 0}

MCTen == [p \in 0..2 |-> 10^p]
MCDoubles == Signed(UNION {Steps(0, 20, 1), Steps(20, 40, 5), Steps(40, 80, 10),
                           Steps(80, 160, 20), Steps(160, 320, 40)})
MCSingles == Signed(UNION {Steps(0, 10, 2), Steps(10, 40, 10), Steps(40, 160, 40), {320}})
MCCalendar == -3..2
MCClock == -14..13
MCNumerals == {-31, -30, 0, 3, 20, 25, 150, 160}
=============================================================================
