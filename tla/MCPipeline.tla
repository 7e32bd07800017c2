------------------------------ MODULE MCPipeline ------------------------------
(* Model values and small bounds for the pipeline controller.              *)
EXTENDS Pipeline

CONSTANTS cup, ball

MCIds == {cup, ball}
=============================================================================
