--------------------------- MODULE MCCandleCache ---------------------------
(* An instance of CandleCache for TLC: one bar is too short, and the       *)
(* market is closed for two.                                               *)
EXTENDS CandleCache

CONSTANTS w1, w2

ShortDay == [b \in 1 .. Bars + 1 |-> IF b <= 2 THEN 2 * (b - 1) ELSE 2 * b - 3]
Weekend  == (1 .. Bars) \ {3, 4}
=============================================================================
