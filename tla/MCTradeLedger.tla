---------------------------- MODULE MCTradeLedger ----------------------------
(* Values of TradeLedger's constants that a configuration cannot write.    *)
EXTENDS TradeLedger

\* A loss, a trade of exactly zero, and a win that outweighs one loss.
MCAmounts == {-1, 0, 2}
=============================================================================
