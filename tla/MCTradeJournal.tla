--------------------------- MODULE MCTradeJournal ---------------------------
(* Instances of TradeJournal for TLC.                                      *)
EXTENDS TradeJournal

CONSTANTS t1, t2, w1, w2

(* Opens, closes by a market and by a market-if-touched order, reductions, *)
(* and, for two trades, a flip of t1 into t2.                              *)
OneTradeFills == {OpenFill(t1), CloseFill(t1, "MARKET"), CloseFill(t1, "MIT"), ReduceFill(t1)}

TwoTradeFills == OneTradeFills \cup {FlipFill(t1, t2), CloseFill(t2, "MARKET")}
=============================================================================
