----------------------------- MODULE MCMarketData -----------------------------
(* The run of MarketData needs no model values. *)
EXTENDS MarketData
=============================================================================
