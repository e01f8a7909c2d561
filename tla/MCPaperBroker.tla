---------------------------- MODULE MCPaperBroker ----------------------------
(***************************************************************************)
(* A small account: two positions, two reserving grids, two prices.      *)
(***************************************************************************)
EXTENDS PaperBroker

MCPrices == {2, 5}
MCQtys == {1, 3}
MCBuySlips == {0, 1}
MCAmounts == {40}
=============================================================================
