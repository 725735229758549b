--------------------------- MODULE MCObservation ---------------------------
(* Instance of Observation for TLC: both payloads are larger than a block.  *)
EXTENDS Observation, TLC

LargePayloads == {2, 3}
OneCell == {1}
=============================================================================
