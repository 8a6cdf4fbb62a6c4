---------------------------- MODULE CandleWindow ----------------------------
(***************************************************************************)
(* What the candle cache promises about one instrument and timeframe: the  *)
(* candles on disk are a window of the candles the broker has closed, with *)
(* no candle of the broker missing between two of its own, and it only     *)
(* moves forward.                                                          *)
(***************************************************************************)
EXTENDS Integers

CONSTANTS
    Bars,    \* bars of the timeframe: 1 .. Bars
    Traded   \* those in which the market was open; the others have no candle

VARIABLES
    closed,  \* the broker has closed the candles up to this bar
    window   \* the stored candles, {} before the first fetch

(* No candle is missing between two candles of f.                          *)
Contiguous(f) == \A lo \in f, hi \in f : \A b \in Traded : lo <= b /\ b <= hi => b \in f

(* f reaches at least as far as g.                                         *)
ReachesAsFar(f, g) == \A b \in g : \E c \in f : b <= c

Init == closed = 0 /\ window = {}

CloseBar ==
    /\ closed < Bars
    /\ closed' = closed + 1
    /\ UNCHANGED window

Store(f) ==
    /\ f # {} /\ f \subseteq Traded /\ \A b \in f : b <= closed
    /\ Contiguous(f)
    /\ ReachesAsFar(f, window)
    /\ window' = f
    /\ UNCHANGED closed

Next == CloseBar \/ \E f \in SUBSET Traded : Store(f)

Spec == Init /\ [][Next]_<<closed, window>>
=============================================================================
