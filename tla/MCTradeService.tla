--------------------------- MODULE MCTradeService ---------------------------
(* Instances of TradeService for TLC. *)
EXTENDS TradeService
=============================================================================
