-------------------------- MODULE FullyAsyncTrainer --------------------------
(***************************************************************************)
(* The training loop of rl/fully_async/fully_async_trainer.py: sampling    *)
(* goes on during updates, and a new policy is published when it is due.   *)
(***************************************************************************)
EXTENDS AsyncLearner

CONSTANT PublishEvery   \* publish_every_updates

ASSUME PublishAssumption == PublishEvery \in Nat \ {0}

vars == <<exchange, pc, learner, experiment>>

Init == InitLearner

----------------------------------------------------------------------------
\* The while condition of train().
Loop(update) == IF update < MaxUpdates THEN "select" ELSE "finish"

\* The head of _root_command.
Select ==
  /\ pc = "select"
  /\ Goto(Evicted(Pumped(buf), step), IF step - source > Lag THEN "pause" ELSE "collect")
  /\ Received /\ Quietly /\ UNCHANGED <<pipe, learner>>

\* Too few groups: grant what there is room for ...
Grant ==
  /\ pc = "collect" /\ Len(buf.ready) < Required
  /\ \E b \in {Pumped(buf)} : Goto(Fill(b, source), "granted") /\ Send(b, source)
  /\ Received /\ Quietly /\ UNCHANGED learner

\* ... and look again; with nothing on its way, a newer policy comes first.
Collect ==
  /\ pc = "granted"
  /\ \E b \in {Evicted(Pumped(buf), step)} :
       Goto(b, IF step > source /\ b.reserved = {} THEN "pause" ELSE "collect")
  /\ Received /\ Quietly /\ UNCHANGED <<pipe, learner>>

\* Enough of them: grant once more and lease the first.
Lease ==
  /\ pc = "collect" /\ Len(buf.ready) >= Required
  /\ \E b \in {Pumped(buf)} :
       Goto(Leased(Fill(b, source)), "update") /\ Send(b, source)
  /\ Received /\ Quietly /\ UNCHANGED learner

\* _update, and the decision of train() that follows it.
Update ==
  /\ pc = "update"
  /\ step' = step + 1
  /\ trained' = trained \cup {g.record : g \in Batch(buf)}
  /\ Goto(Pumped(Committed(buf)),
          CASE WillSave(step + 1) -> "drain"
            [] ~WillSave(step + 1) /\ (\/ step + 1 - source >= PublishEvery
                                       \/ step + 1 = MaxUpdates) -> "pause"
            [] OTHER -> Loop(step + 1))
  /\ Received /\ Quietly /\ UNCHANGED <<pipe, source, snap>>

----------------------------------------------------------------------------
\* _publish: pause, commit, resume; or drain, commit, and on to _save.
Pause ==
  /\ pc = "pause"
  /\ open' = FALSE /\ pc' = "commit"
  /\ UNCHANGED <<buf, producer, served, learner, experiment>>

CommitPolicy ==
  /\ pc \in {"commit", "drained"}
  /\ source' = step /\ served' = step
  /\ pc' = IF pc = "commit" THEN "resume" ELSE "snapshot"
  /\ UNCHANGED <<buf, producer, open, step, trained, snap, experiment>>

Resume ==
  /\ pc = "resume"
  /\ open' = TRUE /\ pc' = Loop(step)
  /\ UNCHANGED <<buf, producer, served, learner, experiment>>

----------------------------------------------------------------------------
\* finalize does not save without save_final.
Skipped == step = MaxUpdates /\ ~SaveFinal

\* The drain of _publish, whose second one in _save finds nothing left, and
\* the one that ends train().
TrainerDrain == \/ pc = "drain" /\ Drain("drained")
                \/ pc = "finish" /\ Drain("done")

\* _save.  Its resume reopens a server that was not closed.
Save == \/ RequestSnapshot
        \/ ReceiveSnapshot("invalidate")
        \/ Invalidate(IF Skipped THEN "state" ELSE "unmark")
        \/ SaveModel
        \/ CommitState
        \/ CommitSeal(Loop(step))

Train == \/ Select \/ Grant \/ Collect \/ Lease \/ Update
         \/ Pause \/ CommitPolicy \/ Resume \/ TrainerDrain \/ Save
         \/ StartAfresh(Loop(0)) \/ Recover([s \in DOMAIN disk |-> Loop(s)])

Next == Train \/ Sampling \/ GroupFails \/ Crash

Spec == Init /\ [][Next]_vars

\* The trainer polls, the threads of the producer run on; nothing has to fail.
FairSpec == Spec /\ WF_vars(Train) /\ WF_vars(Sampling)

----------------------------------------------------------------------------
\* The variables have their types; buffer and producer keep within their
\* limits (ExperienceBuffer.reserve, "Reserve worst-case storage before the
\* producer reads another prompt").
TypeOK ==
  /\ pc \in {"down", "select", "collect", "granted", "update", "pause", "commit",
             "resume", "drain", "drained", "snapshot", "await", "invalidate",
             "unmark", "overwrite", "persist", "mark", "state", "seal", "finish",
             "done", "failed"}
  /\ {step, source, served} \subseteq Updates /\ trained \subseteq 0 .. cursor - 1
  /\ open \in BOOLEAN /\ crashes \in 0 .. MaxCrashes /\ discards \in 0 .. MaxDiscards
  /\ Held \subseteq Groups
  /\ buf.reserved \subseteq [id : Identities, src : Updates]
  /\ buf.selected \subseteq {g.id : g \in ToSet(buf.ready)}
  /\ Cardinality(working) + Cardinality(Unread) <= Cardinality(buf.reserved)

\* Training comes to its end, whatever groups fail and whenever the job dies
\* and is started again (train).
TrainingFinishes == <>(pc = "done")
=============================================================================
