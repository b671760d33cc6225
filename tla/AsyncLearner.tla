---------------------------- MODULE AsyncLearner ----------------------------
(***************************************************************************)
(* What the trainers of asynchronous RL have in common: their counters,    *)
(* the checkpoint they commit in parts, the death of the job and its       *)
(* restart from the newest complete checkpoint or from an explicit one     *)
(* (rl/checkpoint.py, rl/fully_async/protocol.py).  The training ranks     *)
(* move together (coordinator_call, run_synchronized), so that a trainer   *)
(* is one process.  A timeout, the death of the producer and a failed call *)
(* all end the job: they are Crash.                                        *)
(***************************************************************************)
EXTENDS SampleExchange

CONSTANTS Torn,
          MaxUpdates,     \* train.max_steps
          Cadences,       \* train.checkpoint.save_steps, 0 for never
          SaveFinal,      \* train.checkpoint.save_final
          MaxCrashes      \* bound: jobs that die

ASSUME LearnerAssumption == /\ MaxUpdates \in Nat \ {0} /\ MaxCrashes \in Nat
                            /\ Cadences \subseteq Nat /\ SaveFinal \in BOOLEAN

\* `None' and `Torn' are neither model files nor a snapshot.
ASSUME MarksAssumption ==
  {None, Torn} \cap [step : Nat, trained : SUBSET Nat] = {}

VARIABLES
  pc,        \* where train() stands
  step,      \* roles.state.global_step
  source,    \* source_update, the update of the policy last committed
  trained,   \* the records in the weights
  snap,      \* the snapshot a save works on
  disk,      \* the checkpoint directory of every step
  cadence,   \* save_steps of this experiment
  crashes    \* jobs that died

learner    == <<step, source, trained, snap>>
experiment == <<disk, cadence, crashes>>

Directory == INSTANCE AsyncCheckpoint WITH None <- None, Torn <- Torn

InitLearner ==
  /\ InitExchange
  /\ pc = "down" /\ step = 0 /\ source = 0 /\ trained = {} /\ snap = None
  /\ disk = [s \in 1 .. MaxUpdates |-> Directory!EmptyDirectory]
  /\ cadence \in Cadences /\ crashes = 0

\* An exception ends train().  (The buffer an action leaves is named by
\* quantifying over it alone.)
Goto(b, next) == buf' = b /\ pc' = IF b.fault THEN "failed" ELSE next

\* A step of the trainer that only talks to the buffer and the producer.
Quietly == UNCHANGED <<open, served, cursor, discards, working, experiment>>

\* A step of the trainer that only writes to disk.
OnDisk == UNCHANGED <<exchange, step, source, trained, cadence, crashes>>

WillSave(update) == \/ cadence > 0 /\ update % cadence = 0
                    \/ SaveFinal /\ update = MaxUpdates

----------------------------------------------------------------------------
(***************************************************************************)
(* A checkpoint: a quiescent snapshot, the old commit hidden, the model    *)
(* parts, the state, its manifest.                                         *)
(***************************************************************************)
\* Faulty variant: nobody waits for the groups in flight.
DrainedAtOnce(b) == TRUE

\* AsyncRuntime.wait() returns.
Drained(b) == b.reserved = {}

\* One round of AsyncRuntime.wait(), up to `next'.
Drain(next) ==
  /\ \E b \in {Pumped(buf)} : Goto(b, IF Drained(b) THEN next ELSE pc)
  /\ Received /\ Quietly /\ UNCHANGED <<pipe, learner>>

\* state_dict refuses a buffer at work; the source answers when asked.
RequestSnapshot ==
  /\ pc = "snapshot"
  /\ Goto(IF buf.reserved # {} \/ buf.selected # {} THEN Raise(buf) ELSE buf, "await")
  /\ pipe' = Append(pipe, [kind |-> "snapshot"])
  /\ UNCHANGED <<results, replies, learner>> /\ Quietly

ReceiveSnapshot(next) ==
  /\ pc = "await"
  /\ \E b \in {Pumped(buf)} :
       IF b.mail = None
       THEN Goto(b, "await") /\ UNCHANGED snap
       ELSE /\ Goto([b EXCEPT !.mail = None], next)
            /\ snap' = [step |-> step, async |-> Exported(b, b.mail)]
  /\ Received /\ Quietly /\ UNCHANGED <<pipe, step, source, trained>>

Here(d) == disk' = [disk EXCEPT ![step] = d]

Invalidate(next) ==
  /\ pc = "invalidate"
  /\ Here(Directory!Invalidate(disk[step])) /\ pc' = next
  /\ OnDisk /\ UNCHANGED snap

\* RLCheckpointManager._save
SaveModel ==
  /\ \/ pc = "unmark"    /\ pc' = "overwrite" /\ Here(Directory!Unmark(disk[step]))
     \/ pc = "overwrite" /\ pc' = "persist"   /\ Here(Directory!Overwrite(disk[step]))
     \/ pc = "persist"   /\ pc' = "mark"
        /\ Here(Directory!Persist(disk[step], [step |-> step, trained |-> trained]))
     \/ pc = "mark"      /\ pc' = "state"     /\ Here(Directory!Mark(disk[step]))
  /\ OnDisk /\ UNCHANGED snap

\* The first half of AsyncCheckpoint.commit, with its precondition ...
CommitState ==
  /\ pc = "state"
  /\ IF disk[step].mark
     THEN Here(Directory!WriteState(disk[step], snap)) /\ pc' = "seal"
     ELSE pc' = "failed" /\ UNCHANGED disk
  /\ OnDisk /\ UNCHANGED snap

\* ... and the second.
CommitSeal(next) ==
  /\ pc = "seal"
  /\ Here(Directory!Seal(disk[step])) /\ pc' = next
  /\ OnDisk /\ UNCHANGED snap

----------------------------------------------------------------------------
(***************************************************************************)
(* The job dies, with its producer and its server, and is started again.   *)
(***************************************************************************)
Crash ==
  /\ pc \notin {"down", "failed", "exhausted", "done"} /\ crashes < MaxCrashes
  /\ crashes' = crashes + 1 /\ pc' = "down"
  /\ buf' = EmptyBuffer /\ Quiet /\ cursor' = 0 /\ open' = FALSE /\ served' = 0
  /\ step' = 0 /\ source' = 0 /\ trained' = {} /\ snap' = None
  /\ UNCHANGED <<disk, cadence, discards>>

Complete == {s \in DOMAIN disk : Directory!Listed(disk[s])}

\* The restored policy is published to a fresh server, then the producer
\* starts: nothing else runs before `next'.
Boot(s, records, b, position, next) ==
  /\ step' = s /\ source' = s /\ served' = s /\ trained' = records
  /\ open' = TRUE /\ cursor' = position
  /\ Goto(b, next)
  /\ UNCHANGED <<pipe, working, results, replies, discards, snap, experiment>>

\* No complete directory: a run from the beginning.
StartAfresh(next) == /\ pc = "down" /\ Complete = {}
                     /\ Boot(0, {}, EmptyBuffer, 0, next)

\* The newest complete directory, or the one load_path names.
Recover(next) ==
  /\ pc = "down"
  /\ \E s \in Complete :
       LET d == disk[s]
       IN  IF Directory!Loads(d)
           THEN Boot(s, d.weights.trained, Restored(d.state.async),
                     d.state.async.cursor, next[s])
           ELSE pc' = "failed" /\ UNCHANGED <<exchange, learner, experiment>>

TrainerStays == UNCHANGED <<pc, learner, experiment>>

Sampling   == Produce /\ TrainerStays
GroupFails == \E g \in working : Fail(g) /\ TrainerStays

----------------------------------------------------------------------------
Identities == 0 .. buf.next - 1
Updates    == 0 .. MaxUpdates
Groups     == [id : Identities, src : Updates, record : 0 .. cursor - 1,
               old : Updates \cup {NoSource}, new : Updates \cup {NoSource}]

\* A batch under update holds no action older than max_policy_lag_updates
\* and none of the future, although results arrive after the last eviction
\* and a group may span several policies (evict_stale, select;
\* rl/docs/architecture.md, "Staleness uses the oldest action").
WithinLag ==
  pc = "update" => /\ Cardinality(Batch(buf)) = Required
                   /\ \A g \in Batch(buf) : step - g.old <= Lag /\ g.new <= step

\* No exception of the protocol is reached: every result matches its
\* reservation, every snapshot is quiescent, every complete checkpoint loads
\* (accept, discard, evict_stale, commit, state_dict, AsyncCheckpoint.load).
NothingRaises == pc # "failed"

\* Weights, waiting records and source position agree with one another at
\* every moment, in every checkpoint and after every restart
\* (AsyncCheckpoint, "Checksum-linked RL state committed after existing
\* model/optimizer persistence").
Ledger == INSTANCE ExperienceLedger WITH
  Required <- Required,
  learned <- trained,
  pool <- HeldRecords,
  read <- cursor,
  saved <- {[learned |-> disk[s].weights.trained,
             pool |-> {g.record : g \in ToSet(disk[s].state.async.ready)},
             read |-> disk[s].state.async.cursor] : s \in Complete}

ImplementsLedger == Ledger!Spec
=============================================================================
