--------------------------- MODULE MCHistorySync ---------------------------
(* Instances of HistorySync for TLC: a fill of one row, a fill that closes *)
(* one trade and opens another (two rows), and a transaction the type      *)
(* filter keeps out of every response.                                     *)
EXTENDS HistorySync, TLC

CONSTANTS w1, w2, fill, flip, other

MCRowCount == (fill :> 1) @@ (flip :> 2) @@ (other :> 0)
=============================================================================
