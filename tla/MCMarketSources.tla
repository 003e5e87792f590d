--------------------------- MODULE MCMarketSources ---------------------------
(* MarketSources with two sources and one request.                         *)
EXTENDS MarketSources

CONSTANTS s1, s2, r1

MCSources == {s1, s2}
MCRequests == {r1}
=============================================================================
