------------------------ MODULE ColocateAsyncTrainer ------------------------
(***************************************************************************)
(* The training loop of rl/colocate_async/colocate_async_trainer.py over   *)
(* ColocateAsyncRollouter: training and inference share their devices, so  *)
(* that the server is closed and asleep during an update, every update is  *)
(* published, and the off-policy correction may reject groups of a batch.  *)
(* The evaluation that precedes a save may take the gateway from the       *)
(* producer, which is then closed and built again from the snapshot.       *)
(***************************************************************************)
EXTENDS AsyncLearner

CONSTANTS MaxRefills,   \* off_policy.max_refill_rounds
          Handoff,      \* the evaluation needs the producer's gateway
          MaxRejections \* bound: batches the correction rejects

ASSUME RefillAssumption == /\ {MaxRefills, MaxRejections} \subseteq Nat
                           /\ Handoff \in BOOLEAN

VARIABLES refills,      \* refill_rounds
          rejections    \* batches rejected so far, over all runs

correction == <<refills, rejections>>
vars == <<exchange, pc, learner, experiment, correction>>

Init == InitLearner /\ refills = 0 /\ rejections = 0

----------------------------------------------------------------------------
\* The while condition of train(), and _finish_sampling: the server sleeps
\* already after a save at the last step.
Loop(update)      == IF update < MaxUpdates THEN "sample" ELSE "finish"
AfterSave(update) == IF update < MaxUpdates THEN "wake" ELSE "done"

\* One round of sample_batch, up to its fill.
SampleBatch ==
  /\ pc = "sample"
  /\ \E p \in {Pumped(buf)} : \E b \in {Evicted(p, step)} : Goto(b, "fill")
  /\ Received /\ Quietly /\ UNCHANGED <<pipe, learner, correction>>

\* fill pumps again; what it accepted passes the same age gate.
Filled(b) == Evicted(b, step)

LeaseBatch ==
  /\ pc = "fill"
  /\ \E p \in {Pumped(buf)} : \E b \in {Filled(Fill(p, step))} :
        /\ IF Len(b.ready) >= Required /\ ~b.fault
           THEN Goto(Leased(b), "pause")
           ELSE Goto(b, "sample")
        /\ Send(p, step)
  /\ Received /\ Quietly /\ UNCHANGED <<learner, correction>>

\* Close admission and put the server to sleep, for an update or for a save.
Pause ==
  /\ \/ pc = "pause" /\ pc' = "update"
     \/ pc = "asleep" /\ pc' = "invalidate"
     \/ pc = "close" /\ pc' = "done"
  /\ open' = FALSE
  /\ UNCHANGED <<buf, producer, served, learner, experiment, correction>>

\* _update_actor keeps the whole batch.
Update ==
  /\ pc = "update"
  /\ step' = step + 1
  /\ trained' = trained \cup {g.record : g \in Batch(buf)}
  /\ Goto(Committed(buf), "publish")
  /\ refills' = 0
  /\ UNCHANGED <<producer, open, served, source, snap, experiment, rejections>>

\* reject_batch_groups: the rejected are dropped, the others ready again.
Rejected(b, ids) ==
  [b EXCEPT !.ready = Among(@, {g \in ToSet(@) : g.id \notin ids}),
            !.dropped = @ + Cardinality(ids), !.selected = {}]

RejectGroups ==
  /\ pc = "update"
  /\ \E ids \in SUBSET buf.selected \ {{}} :
       Goto(Rejected(buf, ids), IF refills >= MaxRefills THEN "exhausted" ELSE "resume")
  /\ rejections < MaxRejections /\ rejections' = rejections + 1
  /\ refills' = IF refills >= MaxRefills THEN refills ELSE refills + 1
  /\ UNCHANGED <<producer, open, served, learner, experiment>>

\* Faulty variant: the refill samples from a server left closed.
ResumeUnopened ==
  /\ pc = "resume" /\ pc' = "sample"
  /\ UNCHANGED <<exchange, learner, experiment, correction>>

\* _resume_unchanged_policy
ResumeUnchanged ==
  /\ pc = "resume" /\ pc' = "sample"
  /\ open' = TRUE
  /\ UNCHANGED <<buf, producer, served, learner, experiment, correction>>

\* _publish_policy, while the server is closed ...
PublishPolicy ==
  /\ pc = "publish" /\ pc' = "reopen"
  /\ source' = step /\ served' = step
  /\ UNCHANGED <<buf, producer, open, step, trained, snap, experiment, correction>>

\* ... and the resume that follows it.
Reopen ==
  /\ pc = "reopen" /\ pc' = IF WillSave(step) THEN "drain" ELSE Loop(step)
  /\ open' = TRUE
  /\ UNCHANGED <<buf, producer, served, learner, experiment, correction>>

----------------------------------------------------------------------------
\* _freeze_snapshot for a save; _finish_sampling throws its snapshot away.
SamplerDrain == /\ \/ pc = "drain" /\ Drain("snapshot")
                   \/ pc = "finish" /\ Drain("close")
                /\ UNCHANGED correction

\* _save_checkpoint up to its commit.
Save == /\ \/ RequestSnapshot
           \/ ReceiveSnapshot("asleep")
           \/ Invalidate("unmark")
           \/ SaveModel
           \/ CommitState
           \/ CommitSeal(AfterSave(step))
        /\ UNCHANGED correction

\* Faulty variant: the new producer reads its prompts from the start.
WakeAtStart ==
  /\ pc = "wake"
  /\ open' = TRUE /\ snap' = None
  /\ Goto(Restored(snap.async), "sample") /\ Quiet /\ cursor' = 0
  /\ UNCHANGED <<served, discards, step, source, trained, experiment, correction>>

\* After a save: the same producer, or a new one built from the snapshot.
Wake ==
  /\ pc = "wake"
  /\ open' = TRUE /\ snap' = None
  /\ IF Handoff
     THEN Goto(Restored(snap.async), "sample") /\ Quiet /\ cursor' = snap.async.cursor
     ELSE pc' = "sample" /\ UNCHANGED <<buf, pipe, working, results, replies, cursor>>
  /\ UNCHANGED <<served, discards, step, source, trained, experiment, correction>>

Train == \/ SampleBatch \/ LeaseBatch \/ Pause \/ Update \/ RejectGroups
         \/ ResumeUnchanged \/ PublishPolicy \/ Reopen
         \/ SamplerDrain \/ Save \/ Wake
         \/ (StartAfresh(Loop(0)) \/ Recover([s \in DOMAIN disk |-> Loop(s)])) /\ UNCHANGED correction

Next == \/ Train
        \/ (Sampling \/ GroupFails) /\ UNCHANGED correction
        \/ Crash /\ refills' = 0 /\ UNCHANGED rejections

Spec == Init /\ [][Next]_vars

\* As in FullyAsyncTrainer.
FairSpec == Spec /\ WF_vars(Train) /\ WF_vars(Sampling /\ UNCHANGED correction)

----------------------------------------------------------------------------
\* Training comes to its end unless the correction uses up its refills.
TrainingFinishes == <>(pc \in {"done", "exhausted"})
=============================================================================
