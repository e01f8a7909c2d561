---------------------------- MODULE MCManualOrders ----------------------------
(***************************************************************************)
(* Few orders on a small account for TLC.                                  *)
(***************************************************************************)
EXTENDS ManualOrders

MCPrices == {2, 4}
ThreePrices == {2, 3, 4}
OneToTwo == {1, 2}
OneQty == {1}
NoSlip == {0}
NoAmounts == {}
AllKinds == {"market", "limit", "stop"}
MarketOnly == {"market"}
NoBracket == {<<0, 0>>}
SomeBrackets == {<<0, 0>>, <<4, 2>>}
=============================================================================
