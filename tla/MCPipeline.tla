----------------------------- MODULE MCPipeline -----------------------------
(* Instances of Pipeline for TLC.                                          *)
EXTENDS Pipeline, TLC

CONSTANTS j1, j2

OnePartition == (j1 :> 1) @@ (j2 :> 1)

AnyAndSeparate == (j1 :> Selections) @@ (j2 :> {{"separate"}})
=============================================================================
