---------------------------- MODULE MCGridTrading ----------------------------
(***************************************************************************)
(* Small grids for TLC.  With the ladder 2, 4 and prices 2 to 4 the market *)
(* can fill both levels at once, one of them, or pay the lower one's       *)
(* target; 6 is above the range, for the roll-up.                          *)
(***************************************************************************)
EXTENDS GridTrading

TwoLevels == <<2, 4>>
MCPrices == {2, 4}
TrailPrices == {2, 4, 5}
OneSlip == {1}
NoQtys == {}
OneQty == {1}
=============================================================================
