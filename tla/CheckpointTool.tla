--------------------------- MODULE CheckpointTool ---------------------------
(***************************************************************************)
(* The command line of tools/checkpoint_prep (__main__.py): mutate,        *)
(* restore and self-contained on one checkpoint directory, one command at  *)
(* a time, in any order and as often as the operator likes; and between    *)
(* the commands, the engines that load the directory.                      *)
(***************************************************************************)
EXTENDS CheckpointLoad

toolvars == <<mutvars, copyvars, engine>>

ToolInit == MutationInit /\ CopyInit /\ LoadInit

RunsMutation == engine = Idle /\ copying = "no" /\ MutationNext /\ UNCHANGED <<copyvars, engine>>
RunsCopy == engine = Idle /\ todo = <<>> /\ CopyNext /\ UNCHANGED <<mutvars, engine>>

ToolNext == RunsMutation \/ RunsCopy \/ LoadNext

ToolSpec == ToolInit /\ [][ToolNext]_toolvars

=============================================================================
