--------------------------- MODULE MCPriceStream ---------------------------
(* Instances of PriceStream for TLC. *)
EXTENDS PriceStream, TLC

MCInstruments == {"EUR", "XAU"}
\* One alert above and one below, so that a tick between them is safe for both.
MCAlerts == 1 :> [instrument |-> "EUR", above |-> TRUE, target |-> 2]
         @@ 2 :> [instrument |-> "EUR", above |-> FALSE, target |-> 0]
=============================================================================
