--------------------------- MODULE CheckpointSave ---------------------------
(***************************************************************************)
(* Saving a distributed checkpoint, in the background or in place          *)
(* (core/distributed_checkpoint: api.py, async_persist.py), as the trainer *)
(* drives it: CheckpointerCallback (rotation, waiting) and                 *)
(* DistributedCheckpointer (barrier, latest pointer, choice of the         *)
(* checkpoint to resume from).                                             *)
(*                                                                         *)
(* Each rank has a parent (the training loop), a writer (_save_impl: in a  *)
(* child process with the exchange through files when the save is          *)
(* asynchronous, in the parent with collectives otherwise) and a thread    *)
(* that joins the child.  The directories survive a crash of the job;      *)
(* nothing else does: a restart finds them as the job that was lost left   *)
(* them, and saves over them.  A file is Absent, Torn while it is being    *)
(* written, or holds what incarnation `job' of the training job wrote.     *)
(***************************************************************************)
EXTENDS Integers, FiniteSets

CONSTANTS Ranks,         \* the ranks of the job; 0 is the coordinator
          MaxStep,       \* bound: the last training step
          Cadence,       \* the steps at which on_step_end saves
          Limit,         \* save_total_limit, 0 for None
          MaxJobs        \* bound: incarnations of the job

ASSUME RankAssumption == 0 \in Ranks /\ Cadence \subseteq 1 .. MaxStep
ASSUME BoundAssumption == {MaxStep, MaxJobs} \subseteq Nat \ {0}

VARIABLES
  isAsync,    \* configuration: CheckpointConfig.is_async
  job,        \* the present incarnation of the job
  parent,     \* parent[r]: where the training loop of r stands
  at,         \* at[r]: TrainerState.global_step
  last,       \* last[r]: _last_saved_step, -1 if none
  cache,      \* cache[r]: the parent holds a cached plan
  writer,     \* writer[r]: where _save_impl stands
  target,     \* target[r]: the step whose directory it writes
  got,        \* got[r]: ranks whose exchange file it has read
  stale,      \* rank 0 has gathered a write result of an earlier incarnation
  outcome,    \* outcome[r]: what the child of the save reported
  joiner,     \* joiner[r]: where resolve_async_persist_result stands
  future,     \* future[r]: persist_completion of the pending save
  dir,        \* dir[s]: the files of directory global_step_s
  pointer,    \* the latest pointer: Absent, Torn (empty) or a step
  victim      \* the directory rank 0 is deleting, 0 if none

loop    == <<parent, at, last>>
saving  == <<writer, target, got, stale, outcome>>
joining == <<joiner, future, cache>>
disk    == <<dir, pointer, victim>>
vars    == <<isAsync, job, loop, saving, joining, disk>>

Steps == 1 .. MaxStep
Jobs  == 1 .. MaxJobs
Absent == 0
Torn   == -1
Mixed  == -2        \* metadata made of write results of two incarnations
Files  == {Absent, Torn} \cup Jobs
NoFiles == [r \in Ranks |-> Absent]
EmptyDir == [plan |-> NoFiles, shard |-> NoFiles, result |-> NoFiles,
             meta |-> Absent]
Complete(file) == file \notin {Absent, Torn}    \* written to its end

----------------------------------------------------------------------------
(***************************************************************************)
(* DistributedCheckpointer.find_latest_checkpoint.                         *)
(***************************************************************************)
Listed == {s \in Steps : dir[s].meta # Absent}            \* _is_complete
Newest(steps) == CHOOSE s \in steps : \A t \in steps : t <= s
Oldest(steps) == CHOOSE s \in steps : \A t \in steps : s <= t
FindLatest == IF pointer \in Listed THEN pointer
              ELSE IF Listed = {} THEN 0 ELSE Newest(Listed)

\* A checkpoint that belongs together: its metadata is there to the end, and
\* every shard was written by one and the same incarnation.
Whole(s) == /\ Complete(dir[s].meta)
            /\ \E j \in Jobs : \A r \in Ranks : dir[s].shard[r] = j

\* A checkpoint that loads: nothing in it tells who wrote which file.
Loadable(s) == Complete(dir[s].meta) /\ \A r \in Ranks : Complete(dir[s].shard[r])

----------------------------------------------------------------------------
All(v) == [r \in Ranks |-> v]

\* What a start, or a crash, leaves of the processes.
Quiet == /\ cache' = All(FALSE) /\ writer' = All("none")
         /\ target' = All(0) /\ got' = All({}) /\ stale' = FALSE
         /\ outcome' = All("none")
         /\ joiner' = All("none") /\ future' = All("none") /\ victim' = 0

Init == /\ isAsync \in BOOLEAN /\ job = 1
        /\ dir = [s \in Steps |-> EmptyDir] /\ pointer = Absent
        /\ parent = All("step") /\ at = All(0) /\ last = All(-1)
        /\ cache = All(FALSE) /\ writer = All("none")
        /\ target = All(0) /\ got = All({}) /\ stale = FALSE /\ outcome = All("none")
        /\ joiner = All("none") /\ future = All("none") /\ victim = 0

\* A process is lost at any time, and the launcher stops all of them.
Crash == /\ job < MaxJobs /\ \E r \in Ranks : parent[r] \notin {"down", "done"}
         /\ parent' = All("down") /\ Quiet
         /\ UNCHANGED <<isAsync, job, at, last, dir, pointer>>

\* The launcher stops all of them because a rank raised.
Teardown == /\ \E r \in Ranks : parent[r] = "raised"
            /\ parent' = All("down") /\ Quiet
            /\ UNCHANGED <<isAsync, job, at, last, dir, pointer>>

\* The job starts again with restore_from="LATEST", over the directories as
\* they are, and loads what find_latest_checkpoint names.
Restart ==
  /\ parent = All("down") /\ job < MaxJobs
  /\ job' = job + 1
  /\ FindLatest # 0 => Loadable(FindLatest)
  /\ at' = All(FindLatest)
  /\ last' = All(IF FindLatest = 0 THEN -1 ELSE FindLatest)
  /\ parent' = All(IF FindLatest = MaxStep THEN "last" ELSE "step")
  /\ UNCHANGED <<isAsync, saving, joining, disk>>

----------------------------------------------------------------------------
(***************************************************************************)
(* The training loop: CheckpointerCallback, DistributedCheckpointer.save.  *)
(***************************************************************************)
Goto(r, where) == parent' = [parent EXCEPT ![r] = where]

\* One training step; its collectives keep the ranks together.
TrainStep == /\ parent = All("step")
             /\ parent' = All("end")
             /\ at' = [r \in Ranks |-> at[r] + 1]
             /\ UNCHANGED <<isAsync, job, last, saving, joining, disk>>

AfterStep(r) == IF at[r] = MaxStep THEN "last" ELSE "step"

\* on_step_end: raise_for_failed_async_save, then the cadence.
StepEnd(r) ==
  /\ parent[r] = "end"
  /\ IF future[r] = "failed" THEN Goto(r, "raised")
     ELSE IF at[r] \in Cadence /\ at[r] # last[r] THEN Goto(r, "wait")
     ELSE Goto(r, AfterStep(r))
  /\ future' = [future EXCEPT ![r] = IF @ = "pending" THEN @ ELSE "none"]
  /\ UNCHANGED <<isAsync, job, at, last, saving, joiner, cache, disk>>

\* on_train_end: the last step is saved, in place, unless it was saved.
TrainEnd(r) == /\ parent[r] = "last"
               /\ Goto(r, IF at[r] # last[r] THEN "wait" ELSE "drain")
               /\ UNCHANGED <<isAsync, job, at, last, saving, joining, disk>>

\* maybe_wait_for_async_save, before a save and at the end.
Wait(r) ==
  /\ parent[r] \in {"wait", "drain"} /\ future[r] # "pending"
  /\ future' = [future EXCEPT ![r] = "none"]
  /\ Goto(r, IF future[r] = "failed" THEN "raised"
             ELSE IF parent[r] = "drain" THEN "final"
             ELSE IF isAsync /\ last[r] >= 0 THEN "prune" ELSE "barrier")
  /\ UNCHANGED <<isAsync, job, at, last, saving, joiner, cache, disk>>

(***************************************************************************)
(* _rotate_checkpoints: before an asynchronous save, after one in place,   *)
(* and at the end.  Rank 0 deletes the oldest complete directories beyond  *)
(* the limit, file by file in no particular order.                         *)
(***************************************************************************)
Rotating == {"prune", "trim", "final"}
\* Faulty variant: the step last saved or loaded is not protected.
EveryListed == Listed

Deletable == Listed \ {last[0]}
Excess == Limit > 0 /\ Cardinality(Listed) > Limit /\ Deletable # {}

AfterRotation(r) == CASE parent[r] = "prune" -> "barrier"
                      [] parent[r] = "trim"  -> AfterStep(r)
                      [] parent[r] = "final" -> "done"

\* Faulty variant: the newest of the checkpoints beyond the limit goes first,
\* and nothing is protected.
DeleteNewest ==
  /\ parent[0] \in Rotating /\ Excess /\ victim = 0
  /\ victim' = Newest(Listed)
  /\ dir' = [dir EXCEPT ![victim'] = [@ EXCEPT !.shard = All(Torn)]]
  /\ UNCHANGED <<isAsync, job, loop, saving, joining, pointer>>

Delete ==
  /\ parent[0] \in Rotating /\ Excess /\ victim = 0
  /\ victim' = Oldest(Deletable)
  /\ \E meta \in {Absent, dir[victim'].meta} :
       dir' = [dir EXCEPT ![victim'] =
                 [@ EXCEPT !.shard = All(Torn), !.meta = meta]]
  /\ UNCHANGED <<isAsync, job, loop, saving, joining, pointer>>

Deleted == /\ victim # 0
           /\ dir' = [dir EXCEPT ![victim] = EmptyDir]
           /\ victim' = 0
           /\ UNCHANGED <<isAsync, job, loop, saving, joining, pointer>>

Rotated(r) == /\ parent[r] \in Rotating
              /\ r = 0 => ~Excess /\ victim = 0
              /\ Goto(r, AfterRotation(r))
              /\ UNCHANGED <<isAsync, job, at, last, saving, joining, disk>>

\* Faulty variant: no barrier before the save.
BarrierOfOne == \E r \in Ranks :
  /\ parent[r] = "barrier"
  /\ Goto(r, "dispatch")
  /\ UNCHANGED <<isAsync, job, at, last, saving, joining, disk>>

\* os.makedirs and _barrier.
Barrier == /\ parent = All("barrier")
           /\ parent' = All("dispatch")
           /\ UNCHANGED <<isAsync, job, at, last, saving, joining, disk>>

InBackground(r) == isAsync /\ at[r] \in Cadence

\* dcp_async_save or dcp_save.
Dispatch(r) ==
  /\ parent[r] = "dispatch"
  /\ writer' = [writer EXCEPT ![r] = "start"]
  /\ target' = [target EXCEPT ![r] = at[r]]
  /\ got' = [got EXCEPT ![r] = {}]
  /\ stale' = (stale /\ r # 0)
  /\ outcome' = [outcome EXCEPT ![r] = "none"]
  /\ IF InBackground(r)
       THEN /\ joiner' = [joiner EXCEPT ![r] = "poll"]
            /\ future' = [future EXCEPT ![r] = "pending"]
            /\ last' = [last EXCEPT ![r] = at[r]]
            /\ Goto(r, AfterStep(r))
       ELSE Goto(r, "saving") /\ UNCHANGED <<joiner, future, last>>
  /\ UNCHANGED <<isAsync, job, at, cache, disk>>

\* The barriers of save and _finalize_checkpoint, after a save in place.
Finalize == /\ parent = All("saving") /\ writer = All("report")
            /\ parent' = [r \in Ranks |-> IF r = 0 THEN "publish" ELSE "saved"]
            /\ writer' = All("none")
            /\ UNCHANGED <<isAsync, job, at, last, target, got, stale, outcome,
                           joining, disk>>

\* _write_latest_pointer opens the file, which empties it, and fills it.
Publish == /\ parent[0] = "publish"
           /\ pointer' = IF pointer = Torn THEN at[0] ELSE Torn
           /\ Goto(0, IF pointer = Torn THEN "saved" ELSE "publish")
           /\ UNCHANGED <<isAsync, job, at, last, saving, joining, dir,
                          victim>>

Saved(r) == /\ parent[r] = "saved"
            /\ last' = [last EXCEPT ![r] = at[r]]
            /\ Goto(r, "trim")
            /\ UNCHANGED <<isAsync, job, at, saving, joining, disk>>

----------------------------------------------------------------------------
(***************************************************************************)
(* _save_impl, in a child process or in place.                             *)
(***************************************************************************)
InChild(r) == joiner[r] # "none"
Step(r, from, to) == /\ writer[r] = from
                     /\ writer' = [writer EXCEPT ![r] = to]

\* Write one file of rank r: a reader may meet it between the two steps.
Open(r, kind, from, to) ==
  /\ Step(r, from, to)
  /\ dir' = [dir EXCEPT ![target[r]][kind][r] = Torn]
Close(r, kind, from, to) ==
  /\ Step(r, from, to)
  /\ dir' = [dir EXCEPT ![target[r]][kind][r] = job]
OnDisk == UNCHANGED <<isAsync, job, loop, target, got, stale, outcome, joining,
                      pointer, victim>>

\* The cached plan of an earlier save replaces planning and its exchange.
UseCache(r) == /\ Step(r, "start", IF cache[r] THEN "shard" ELSE "plan")
               /\ UNCHANGED <<isAsync, job, loop, target, got, stale, outcome,
                              joining, disk>>

\* Write the plan file; a reader that meets it half-written comes back.
WritePlan(r) == InChild(r) /\ Close(r, "plan", "plan", "readPlans") /\ OnDisk

\* load_file of a plan: it stays, as "it is generated only during the
\* initial save".
ReadPlan(r, q) ==
  /\ writer[r] = "readPlans" /\ q \notin got[r]
  /\ Complete(dir[target[r]].plan[q])
  /\ IF got[r] \cup {q} = Ranks
       THEN got' = [got EXCEPT ![r] = {}] /\ Step(r, "readPlans", "shard")
       ELSE got' = [got EXCEPT ![r] = @ \cup {q}] /\ UNCHANGED writer
  /\ UNCHANGED <<isAsync, job, loop, target, stale, outcome, joining, disk>>

\* In place, the plans and the write results go through collectives.
GatherPlans == /\ writer = All("plan") /\ \A r \in Ranks : ~InChild(r)
               /\ writer' = All("shard") /\ cache' = All(TRUE)
               /\ UNCHANGED <<isAsync, job, loop, target, got, stale, outcome,
                              joiner, future, disk>>
GatherResults == /\ writer = All("result") /\ \A r \in Ranks : ~InChild(r)
                 /\ writer' = [r \in Ranks |-> IF r = 0 THEN "meta" ELSE "report"]
                 /\ UNCHANGED <<isAsync, job, loop, target, got, stale, outcome,
                                joining, disk>>

\* execute_write.
OpenShard(r)  == Open(r, "shard", "shard", "sharding") /\ OnDisk
CloseShard(r) == Close(r, "shard", "sharding", "result") /\ OnDisk

OpenResult(r)  == InChild(r) /\ Open(r, "result", "result", "resulting") /\ OnDisk
\* Faulty variant: the coordinator does not gather the write results.
CloseResultUngathered(r) ==
  /\ Close(r, "result", "resulting", IF r = 0 THEN "meta" ELSE "report")
  /\ OnDisk

CloseResult(r) == /\ Close(r, "result", "resulting",
                           IF r = 0 THEN "readResults" ELSE "report")
                  /\ OnDisk

\* load_file of a write result, by the coordinator: it is deleted.  One that an
\* interrupted save of the same step left is as good as a new one.
ReadResult(q) ==
  /\ writer[0] = "readResults" /\ q \notin got[0]
  /\ Complete(dir[target[0]].result[q])
  /\ dir' = [dir EXCEPT ![target[0]].result[q] = Absent]
  /\ IF got[0] \cup {q} = Ranks
       THEN got' = [got EXCEPT ![0] = {}] /\ Step(0, "readResults", "meta")
       ELSE got' = [got EXCEPT ![0] = @ \cup {q}] /\ UNCHANGED writer
  /\ stale' = (stale \/ dir[target[0]].result[q] # job)
  /\ UNCHANGED <<isAsync, job, loop, target, outcome, joining, pointer, victim>>

\* finalize_checkpoint of the coordinator: the metadata are what was gathered.
OpenMeta == /\ Step(0, "meta", "describing")
            /\ dir' = [dir EXCEPT ![target[0]].meta = Torn]
            /\ OnDisk
CloseMeta == /\ Step(0, "describing", "report")
             /\ dir' = [dir EXCEPT ![target[0]].meta = IF stale THEN Mixed ELSE job]
             /\ OnDisk

\* execute_async_persist puts the result on the queue, and exits.
Report(r) == /\ InChild(r) /\ Step(r, "report", "exiting")
             /\ outcome' = [outcome EXCEPT ![r] = "ok"]
             /\ UNCHANGED <<isAsync, job, loop, target, got, stale, joining, disk>>
Exit(r) == /\ Step(r, "exiting", "exited")
           /\ UNCHANGED <<isAsync, job, loop, target, got, stale, outcome, joining,
                          disk>>

\* A child raises, and reports it, or is lost without a word.
ChildFails(r) == /\ InChild(r) /\ writer[r] \notin {"none", "exiting", "exited"}
                 /\ writer' = [writer EXCEPT ![r] = "exited"]
                 /\ \E o \in {"none", "failed"} :
                      outcome' = [outcome EXCEPT ![r] = o]
                 /\ UNCHANGED <<isAsync, job, loop, target, got, stale, joining, disk>>

\* batch_read_worker raises TimeoutError: the owner of a file is gone.  Its
\* half hour is taken to be longer than any write.
ReadTimeout(r) ==
  /\ \/ writer[r] = "readPlans" /\ \E q \in Ranks \ got[r] :
          writer[q] = "exited" /\ ~Complete(dir[target[r]].plan[q])
     \/ writer[r] = "readResults" /\ \E q \in Ranks \ got[r] :
          writer[q] = "exited" /\ ~Complete(dir[target[r]].result[q])
  /\ writer' = [writer EXCEPT ![r] = "exited"]
  /\ outcome' = [outcome EXCEPT ![r] = "failed"]
  /\ UNCHANGED <<isAsync, job, loop, target, got, stale, joining, disk>>

----------------------------------------------------------------------------
(***************************************************************************)
(* resolve_async_persist_result, on the thread that joins the child.       *)
(***************************************************************************)
Join(r, from, to) == /\ joiner[r] = from
                     /\ joiner' = [joiner EXCEPT ![r] = to]

\* The queue has a result, or the wait for one times out.
Poll(r) == /\ Join(r, "poll", IF outcome[r] = "none" THEN "look" ELSE "join")
           /\ UNCHANGED <<isAsync, job, loop, saving, future, cache, disk>>

\* proc.is_alive(), and a second look at the queue if it is not.
LookAlive(r) ==
  /\ Join(r, "look", IF writer[r] = "exited" THEN "again" ELSE "poll")
  /\ UNCHANGED <<isAsync, job, loop, saving, future, cache, disk>>
\* Faulty variant: no second look at the queue.
LookOnce(r) ==
  /\ Join(r, "again", "none")
  /\ future' = [future EXCEPT ![r] = "failed"]
  /\ UNCHANGED <<isAsync, job, loop, saving, cache, disk>>

LookAgain(r) ==
  /\ Join(r, "again", "join")
  /\ UNCHANGED <<isAsync, job, loop, saving, future, cache, disk>>

\* Faulty variant: the loop does not hear of a failed child.
JoinedSilently(r) ==
  /\ writer[r] = "exited"
  /\ Join(r, "join", IF outcome[r] # "ok" THEN "none"
                     ELSE IF r = 0 THEN "callback" ELSE "resolve")
  /\ UNCHANGED <<isAsync, job, loop, saving, future, cache, disk>>

\* proc.join(), and the future is failed unless the child succeeded.
Joined(r) ==
  /\ writer[r] = "exited"
  /\ Join(r, "join", IF outcome[r] # "ok" THEN "none"
                     ELSE IF r = 0 THEN "callback" ELSE "resolve")
  /\ future' = [future EXCEPT ![r] = IF outcome[r] = "ok" THEN @ ELSE "failed"]
  /\ UNCHANGED <<isAsync, job, loop, saving, cache, disk>>

\* async_callback: _publish_latest of rank 0.
Callback == /\ joiner[0] = "callback"
            /\ pointer' = IF pointer = Torn THEN target[0] ELSE Torn
            /\ Join(0, "callback", IF pointer = Torn THEN "resolve" ELSE "callback")
            /\ UNCHANGED <<isAsync, job, loop, saving, future, cache, dir,
                           victim>>

Resolve(r) == /\ Join(r, "resolve", "none")
              /\ cache' = [cache EXCEPT ![r] = TRUE]
              /\ future' = [future EXCEPT ![r] = "ok"]
              /\ UNCHANGED <<isAsync, job, loop, saving, disk>>

----------------------------------------------------------------------------
Loop(r) == \/ StepEnd(r) \/ TrainEnd(r) \/ Wait(r) \/ Rotated(r)
           \/ Dispatch(r) \/ Saved(r)
LoopAll == TrainStep \/ Delete \/ Deleted \/ Barrier \/ Finalize \/ Publish
Write(r) == \/ UseCache(r) \/ WritePlan(r)
            \/ \E q \in Ranks : ReadPlan(r, q)
            \/ OpenShard(r) \/ CloseShard(r) \/ OpenResult(r) \/ CloseResult(r)
            \/ Report(r) \/ Exit(r) \/ ReadTimeout(r)
WriteAll == \/ GatherPlans \/ GatherResults
            \/ \E q \in Ranks : ReadResult(q)
            \/ OpenMeta \/ CloseMeta
Polling(r) == Poll(r) \/ LookAlive(r)
Thread(r) == LookAgain(r) \/ Joined(r) \/ Resolve(r)

\* The job is over; or it is down, and no further start of it is considered
\* or the checkpoint to resume from does not load.
Over == /\ \/ parent = All("done")
           \/ /\ parent = All("down")
              /\ job = MaxJobs \/ (FindLatest # 0 /\ ~Loadable(FindLatest))
        /\ UNCHANGED vars

Work == \/ Teardown \/ LoopAll \/ WriteAll \/ Callback
        \/ \E r \in Ranks : Loop(r) \/ Write(r) \/ Thread(r)

Next == \/ Work \/ Crash \/ Restart
        \/ \E r \in Ranks : Polling(r) \/ ChildFails(r)
        \/ Over

Spec == Init /\ [][Next]_vars

\* The processes go on as long as they can, and the threads poll; nothing has
\* to fail.  Between two starts of the job there is finitely much work, so
\* that no process needs a fairness of its own.
Fairness == /\ WF_vars(Work)
            /\ \A r \in Ranks : WF_vars(Polling(r))

FairSpec == Spec /\ Fairness

----------------------------------------------------------------------------
(***************************************************************************)
(* Properties.                                                             *)
(***************************************************************************)
TypeOK ==
  /\ isAsync \in BOOLEAN /\ job \in Jobs
  /\ parent \in [Ranks -> {"step", "end", "wait", "prune", "barrier",
                           "dispatch", "saving", "publish", "saved", "trim",
                           "last", "drain", "final", "done", "raised", "down"}]
  /\ at \in [Ranks -> 0 .. MaxStep] /\ last \in [Ranks -> {-1} \cup Steps]
  /\ cache \in [Ranks -> BOOLEAN]
  /\ writer \in [Ranks -> {"none", "start", "plan", "readPlans",
                           "shard", "sharding", "result", "resulting",
                           "readResults", "meta", "describing", "report",
                           "exiting", "exited"}]
  /\ target \in [Ranks -> 0 .. MaxStep] /\ got \in [Ranks -> SUBSET Ranks]
  /\ stale \in BOOLEAN /\ outcome \in [Ranks -> {"none", "ok", "failed"}]
  /\ joiner \in [Ranks -> {"none", "poll", "look", "again", "join",
                           "callback", "resolve"}]
  /\ future \in [Ranks -> {"none", "pending", "ok", "failed"}]
  /\ dir \in [Steps -> [plan : [Ranks -> Files], shard : [Ranks -> Files],
                        result : [Ranks -> Files], meta : Files \cup {Mixed}]]
  /\ pointer \in {Absent, Torn} \cup Steps /\ victim \in 0 .. MaxStep

\* _publish_latest: the coordinator's "success already implies every rank's
\* shards and the shared .metadata have landed", so that a checkpoint the pointer
\* names has all its files, and they belong together.  The code does not keep
\* this over the leftovers of an interrupted save.
PointerIsWhole == pointer \in Listed => Whole(pointer)

\* What it keeps of that, whatever is being saved or deleted, wherever a crash
\* falls and whatever a restart finds: a checkpoint the pointer names is whole
\* unless its metadata were made of write results of two incarnations.
Spoiled(s) == dir[s].meta = Mixed
PointerIsAccounted == pointer \in Listed => Whole(pointer) \/ Spoiled(pointer)

\* maybe_wait_for_async_save: "two saves never overlap".  Each rank waits for
\* its own save only, and a rank's save is over before the coordinator has
\* written the metadata; the barrier of save() has to do the rest.
Writing(r) == writer[r] \notin {"none", "exited"}
SavesNeverOverlap ==
  \A r, q \in Ranks : Writing(r) /\ Writing(q) => target[r] = target[q]

\* _rotate_checkpoints deletes neither what a save is writing on any rank nor
\* the checkpoint a restart would resume from.
DeletesOnlyOld ==
  victim # 0 => /\ victim # FindLatest
                /\ \A r \in Ranks : Writing(r) => target[r] # victim

\* The thread tells the loop the truth: a child that reported success is not
\* taken for a lost one, and success on the coordinator means that the
\* checkpoint is named by the pointer, and whole unless its metadata are mixed.
FutureTruthful ==
  /\ \A r \in Ranks : future[r] = "failed" => outcome[r] # "ok"
  /\ future[0] = "ok" => pointer = target[0] /\ (Whole(target[0]) \/ Spoiled(target[0]))

\* Nobody waits for good, on a barrier, a future, a file of another rank or a
\* child: the job is done, or down, again and again, also when a child is lost
\* and the others have to give up waiting for its files.
JobEnds == []<>(parent \in {All("done"), All("down")})

\* The checkpoint a restart resumes from, the one the pointer names or else the
\* newest with complete metadata, changes only by saves of later steps, and each
\* of these is whole or was gathered from two incarnations.
DescribedSteps == {s \in Steps : Complete(dir[s].meta)}
Secured == IF pointer \in Listed THEN pointer
           ELSE IF DescribedSteps = {} THEN 0 ELSE Newest(DescribedSteps)
WriterOf(s) == IF s = 0 THEN 0
               ELSE IF Spoiled(s) THEN Mixed
               ELSE IF Whole(s) THEN dir[s].shard[0]
               ELSE Torn
Store == INSTANCE CheckpointStore
           WITH step <- Secured, writer <- WriterOf(Secured)
ImplementsStore == Store!Spec
=============================================================================
