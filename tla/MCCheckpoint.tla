---------------------------- MODULE MCCheckpoint ----------------------------
(***************************************************************************)
(* Instances of CheckpointSave for TLC.                                    *)
(***************************************************************************)
EXTENDS CheckpointSave
=============================================================================
