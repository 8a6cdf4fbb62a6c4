---------------------------- MODULE MCMarketScan ----------------------------
(* Two instruments of two timeframes, with an empty or a warm cache.       *)
EXTENDS MarketScan

TwoInstruments == <<"EUR", "XAU">>
TwoFrames      == <<"M15", "H4">>

OneFrame == <<"H4">>
MCInit == Init /\ \E bar \in {0, 1} : cached = [k \in Keys |-> bar]
MCSpec == MCInit /\ [][Next]_vars
=============================================================================
