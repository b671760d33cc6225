--------------------------- MODULE AsyncCheckpoint ---------------------------
(***************************************************************************)
(* The directory of one checkpoint of asynchronous RL: the model part of   *)
(* RLCheckpointManager (rl/checkpoint.py) with its marker                  *)
(* checkpoint_complete.json, and the state of AsyncCheckpoint              *)
(* (rl/fully_async/protocol.py) with its manifest async_complete.json.     *)
(* Both markers and the state are replaced in one rename each; the model   *)
(* files are overwritten in place.  A directory is a record                *)
(*   weights  the model files: None, Torn, or what they hold               *)
(*   mark     checkpoint_complete.json exists                              *)
(*   state    what async_state.pkl holds                                   *)
(*   seal     the state whose digest async_complete.json holds             *)
(***************************************************************************)
CONSTANTS None, Torn

EmptyDirectory == [weights |-> None, mark |-> FALSE, state |-> None, seal |-> None]

\* Faulty variant: the old commit stays visible while the model is replaced.
InvalidateNothing(d) == d

\* AsyncCheckpoint.invalidate
Invalidate(d) == [d EXCEPT !.seal = None]

\* RLCheckpointManager._save, part by part.
Unmark(d)     == [d EXCEPT !.mark = FALSE]
Overwrite(d)  == [d EXCEPT !.weights = Torn]
Persist(d, w) == [d EXCEPT !.weights = w]
Mark(d)       == [d EXCEPT !.mark = TRUE]

\* AsyncCheckpoint.commit: the state, then the manifest.
WriteState(d, s) == [d EXCEPT !.state = s]
Seal(d)          == [d EXCEPT !.seal = d.state]

\* resolve_path takes a directory that has the three files.
Listed(d) == d.mark /\ d.seal # None /\ d.state # None

\* load, validate_resume, begin and the trainer's comparison of the steps.
Loads(d) == /\ d.seal = d.state
            /\ d.weights \notin {None, Torn}
            /\ d.weights.step = d.state.step
=============================================================================
