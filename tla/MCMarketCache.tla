---------------------------- MODULE MCMarketCache ----------------------------
(* MarketCache with two requests.                                          *)
EXTENDS MarketCache

CONSTANTS r1, r2

MCRequests == {r1, r2}
=============================================================================
