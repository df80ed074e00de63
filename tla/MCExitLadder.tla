----------------------------- MODULE MCExitLadder -----------------------------
(* Two rungs, the lower one the breakeven rung, and a price that moves by at  *)
(* most two points a tick.                                                    *)
EXTENDS ExitLadder

TwoRungs == {<<2, 1>>, <<4, 3>>}
=============================================================================
