---------------------------- MODULE MCPaperMargin ----------------------------
(***************************************************************************)
(* A small margin account.  Leverage 7 is capped at 5, where a long opened *)
(* at 10 is liquidated at 8 and a short opened at 8 is liquidated at 10;   *)
(* at leverage 1 neither is.                                               *)
(***************************************************************************)
EXTENDS PaperMargin

MCPrices == {8, 10}
MCQtys == {1, 2}
MCRiskCoefs == {1, 7}
MCSlips == {1}
MCAmounts == {300}
=============================================================================
