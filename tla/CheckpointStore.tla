--------------------------- MODULE CheckpointStore ---------------------------
(***************************************************************************)
(* What a checkpointer keeps for a training job: there is at most one      *)
(* checkpoint a restart resumes from, and saving replaces it, in one step, *)
(* by a checkpoint of a later training step.  Nothing else ever changes    *)
(* it: no save in progress, no failed save, no crash, no deletion of older *)
(* checkpoints.  What lands comes from one incarnation of the job, or it   *)
(* is known to be Mixed: its save gathered what an interrupted save of the *)
(* same step had left.                                                     *)
(***************************************************************************)
EXTENDS Naturals

CONSTANTS Steps, Jobs,      \* training steps; incarnations of the job
          Mixed             \* more than one of them

VARIABLES step,             \* the step a restart resumes from, 0 if none
          writer            \* the incarnation all of its shards come from

Init == step = 0 /\ writer = 0

Land == /\ step' \in {s \in Steps : s > step}
        /\ writer' \in Jobs \cup {Mixed}

Spec == Init /\ [][Land]_<<step, writer>>
=============================================================================
