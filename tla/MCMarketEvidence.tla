---------------------------- MODULE MCMarketEvidence ----------------------------
(* Instances of MarketEvidence for TLC; the constants are in the cfg.      *)
EXTENDS MarketEvidence

================================================================================
