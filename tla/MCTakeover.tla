----------------------------- MODULE MCTakeover -----------------------------
(* Instances of Takeover for TLC.                                          *)
EXTENDS Takeover, TLC

CONSTANTS j1, j2

TwoPartitions == (j1 :> 1) @@ (j2 :> 2)
TwoSelections == [j \in Jobs |-> {{"denoise", "separate"}, {"separate", "transcribe"}}]
=============================================================================
