-------------------------- MODULE MCCheckpointTool --------------------------
(***************************************************************************)
(* Instances of CheckpointTool for TLC: a file and a directory in the      *)
(* inventory, a file and a directory beside it; a checkpoint that is       *)
(* labelled as the oracle knows it, the label the FP8 checkpoint carries   *)
(* today, and a label that is wrong.                                       *)
(***************************************************************************)
EXTENDS CheckpointTool

MCLabels == {[recipe |-> "fp8", layout |-> "fp8"],
             [recipe |-> "fp8_blockwise_mixed", layout |-> "fp8"],
             [recipe |-> "nvfp4_awq", layout |-> "fp8"]}
=============================================================================
