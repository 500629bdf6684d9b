--------------------------- MODULE MCTradeManager ---------------------------
(* Small instances of TradeManager for TLC. *)
EXTENDS TradeManager

SixPrices == 1..6
SmallVolumes == {1, 2, 3, 4}
=============================================================================
