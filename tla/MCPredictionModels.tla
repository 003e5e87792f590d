------------------------- MODULE MCPredictionModels -------------------------
(* PredictionModels with one model and two periods a day.                  *)
EXTENDS PredictionModels

CONSTANTS m1, r1, h1, f1

MCModels == {m1}
=============================================================================
