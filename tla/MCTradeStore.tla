---------------------------- MODULE MCTradeStore ----------------------------
(* The trade store for TLC: the transactions it mirrors and the excursion  *)
(* samples of a trade, each in behaviours of their own: they share no      *)
(* state.                                                                  *)
EXTENDS MCHistorySync, Excursions

VARIABLE focus   \* what a behaviour is about

storeVars == <<focus, vars, excursionVars>>

\* What a behaviour is not about stays as it starts; the bid starts in the
\* middle of its range.
StoreInit ==
    /\ focus \in {"history", "samples"}
    /\ bid = 2
    /\ Init /\ EInit

StoreNext ==
    /\ UNCHANGED focus
    /\ \/ focus = "history" /\ Next /\ UNCHANGED excursionVars
       \/ focus = "samples" /\ ENext /\ UNCHANGED vars

StoreSpec == StoreInit /\ [][StoreNext]_storeVars
=============================================================================
