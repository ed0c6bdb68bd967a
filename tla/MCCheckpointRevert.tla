-------------------------- MODULE MCCheckpointRevert --------------------------
(***************************************************************************)
(* Instances of CheckpointRevert for TLC.                                  *)
(***************************************************************************)
EXTENDS CheckpointRevert

CONSTANTS t1, t2, workspace

McCwd == [t \in Threads |-> workspace]
McMissing == {<<t1, 1>>}
McNothing == {}
=============================================================================
