---------------------------- MODULE MCEngineTick ----------------------------
(***************************************************************************)
(* Small markets for the engine's tick.  From an entry at 102 with a stop  *)
(* at 90, a close at 140 is beyond breakeven and the partial sale; a short *)
(* is stopped out there.  The spot markets are a dear and a cheap symbol.  *)
(* What makes a tick's signal is checked on its own, in MCSignals.         *)
(***************************************************************************)
EXTENDS EngineTick, MCSignals

MCMarkets == <<{100, 140}, {100}>>
MCAtrs == {10, 40}
MCDistances == {10}
MCSlips == {2}
MCNoSlip == {0}
MCNear == {2, 10}
MCSpotMarkets == <<{100}, {10}>>
MCFactors == {100}
MCAmounts == {1100}
=============================================================================
