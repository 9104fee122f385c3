---------------------------- MODULE MCTradeLifecycle ----------------------------
(* Finite instances of TradeLifecycle for TLC; the bounds are in the .cfg files. *)
EXTENDS TradeLifecycle

================================================================================
