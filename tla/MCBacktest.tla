----------------------------- MODULE MCBacktest -----------------------------
(***************************************************************************)
(* Two symbols, up to three times, an hour that closes at the first and at *)
(* the second: a long of 100 with the stop at 90 is sold in part and moved *)
(* to breakeven at 140, or stopped at a candle that reaches 80.  The       *)
(* history needs five bars of six, and the engine keeps three.             *)
(***************************************************************************)
EXTENDS BacktestJob

MCMarkets == <<{80, 100, 140}, {100}>>
MCAtrs == {10}
MCDistances == {10}
MCSlips == {2}
MCFactors == {100}
MCAmounts == {}
MCHours == {1, 2}
=============================================================================
