---------------------------- MODULE MCMarketCache ---------------------------
(* The market of MCMarket with the BestPlan cache of MarketCache.          *)
EXTENDS MCMarket, MarketCache
=============================================================================
