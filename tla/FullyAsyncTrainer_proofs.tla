--------------------- MODULE FullyAsyncTrainer_proofs ---------------------
(***************************************************************************)
(* The fully asynchronous training loop, proved: batches within the lag,   *)
(* balanced credits, no exception of the protocol, and the loop as an      *)
(* implementation of ExperienceLedger.                                     *)
(*                                                                         *)
(* The inductive invariant is LearnerInv and what only this loop knows:    *)
(* where updates are left to do, when the buffer is leased and how old its *)
(* groups may be then, and that a save is on its way for a step that asks  *)
(* for one.  Results arrive between the eviction and the lease; they only  *)
(* append to the buffer, so that the first groups, which are leased, are   *)
(* those the eviction has passed.                                          *)
(***************************************************************************)
EXTENDS FullyAsyncTrainer, AsyncLearner_proofs

Places == {"down", "select", "collect", "granted", "update", "pause", "commit",
           "resume", "drain", "drained", "snapshot", "await", "invalidate",
           "unmark", "overwrite", "persist", "mark", "state", "seal", "finish",
           "done", "failed"}

Looping == pc \in {"select", "collect", "granted", "update"} => step < MaxUpdates

\* The first n groups are within the lag.
Fresh(b, n) == \A i \in 1 .. n : step - b.ready[i].old <= Lag

Leasing ==
  /\ pc = "collect" => Fresh(buf, Len(buf.ready))
  /\ IF pc = "update" THEN Leases(buf) /\ Fresh(buf, Required)
                      ELSE buf.selected = {}

Draining == /\ pc \in {"drain", "drained"} => step # 0
            /\ pc = "drained" => buf.reserved = {}
            /\ pc \in {"drain", "drained"} \cup Freezing \cup Saving => WillSave(step)

\* A save that finalize skips finds no model of its step.
Hidden == ~SaveFinal => ~disk[MaxUpdates].mark
Skipping ==
  /\ Hidden
  /\ pc \in {"unmark", "overwrite", "persist", "mark"} => ~Skipped
  /\ pc = "state" /\ ~Skipped => disk[step].mark

TrainerInv == LearnerInv /\ pc \in Places /\ Looping /\ Leasing /\ Draining /\ Skipping

\* What every step is shown to do: keep the invariant, take a step of the
\* ledger, and fail only in a save that finalize should have made.
Blamed == pc' = "failed" => pc = "failed" \/ (Skipped /\ WillSave(step))
Advances == TrainerInv' /\ LedgerStep /\ Blamed

\* Places outside of a save and an update.
Plain == {"down", "select", "collect", "granted", "pause", "commit", "resume", "drain",
          "finish", "done"}

\* The invariant outside of a save and an update: what is to be shown of a step
\* that ends there.
LEMMA PlainMove ==
  ASSUME LearnerInv', pc' \in Plain, Hidden', buf'.selected = {},
         pc' = "collect" => Fresh(buf, Len(buf.ready))',
         pc' \in {"select", "collect", "granted"} => step' < MaxUpdates,
         pc' = "drain" => step' # 0 /\ WillSave(step)'
  PROVE  TrainerInv' /\ pc' # "failed"
<1>1. pc' \in Places /\ Looping' /\ Skipping' /\ pc' # "failed"
  BY DEF Plain, Places, Looping, Skipping
<1>2. Leasing'
  BY DEF Plain, Leasing
<1>3. Draining'
  BY DEF Plain, Draining, Freezing, Saving
<1> QED BY <1>1, <1>2, <1>3 DEF TrainerInv

\* What a trainer outside of an update knows.
LEMMA Outside ==
  ASSUME TrainerInv, pc # "update"
  PROVE  LearnerInv /\ buf.selected = {} /\ Hidden
BY DEF TrainerInv, Leasing, Skipping

----------------------------------------------------------------------------
(***************************************************************************)
(* A round of _root_command.                                               *)
(***************************************************************************)
\* A pump and an eviction, on the way to a publication or to a batch.
LEMMA EvictMoves ==
  ASSUME TrainerInv, pc \notin {"await", "update"}, step < MaxUpdates,
         NEW next \in {"pause", "collect"}, Goto(Evicted(Pumped(buf), step), next),
         Received, Quietly, UNCHANGED <<pipe, learner>>
  PROVE  Advances
<1> DEFINE c == Evicted(Pumped(buf), step)
<1>1. /\ Sound(c, pipe, working, <<>>, <<>>, cursor, trained, served)
      /\ ToSet(c.ready) \subseteq ToSet(buf.ready) \cup ToSet(results)
      /\ c.selected = {} /\ c.fault = FALSE
      /\ \A i \in 1 .. Len(c.ready) : step - c.ready[i].old <= Lag
  BY Outside, EvictedAtWork
<1> HIDE DEF c
<1>2. Goto(c, next)
  BY DEF c
<1>3. buf' = c /\ pc' = next /\ pipe' = pipe
  BY <1>1, <1>2, GotoIs
<1>4. pc' \notin Freezing \cup Saving \cup {"down"}
  BY <1>3 DEF Freezing, Saving
<1>5. Sound(buf', pipe', working, <<>>, <<>>, cursor, trained, served)
  BY <1>1, <1>3
<1>6. LearnerInv' /\ LedgerStep /\ UNCHANGED <<step, disk>>
  BY <1>1, <1>3, <1>4, <1>5, Outside, TalkKeeps
<1>7. Fresh(buf, Len(buf.ready))' /\ Hidden'
  BY <1>1, <1>3, <1>6, Outside DEF Fresh, Hidden
<1>8. TrainerInv' /\ pc' # "failed"
  BY <1>1, <1>3, <1>6, <1>7, PlainMove DEF Plain
<1> QED BY <1>6, <1>8 DEF Advances, Blamed

\* The head of a round.
LEMMA SelectKeeps == ASSUME TrainerInv, Select PROVE Advances
<1>1. pc = "select" /\ step < MaxUpdates
  BY DEF Select, TrainerInv, Looping
<1>2. PICK next \in {"pause", "collect"} : Goto(Evicted(Pumped(buf), step), next)
  BY DEF Select
<1> QED BY <1>1, <1>2, EvictMoves DEF Select

\* Another look after a grant.
LEMMA CollectKeeps == ASSUME TrainerInv, Collect PROVE Advances
<1>1. pc = "granted" /\ step < MaxUpdates
  BY DEF Collect, TrainerInv, Looping
<1>2. PICK next \in {"pause", "collect"} : Goto(Evicted(Pumped(buf), step), next)
  BY DEF Collect
<1> QED BY <1>1, <1>2, EvictMoves DEF Collect

\* A grant.
LEMMA GrantKeeps == ASSUME TrainerInv, Grant PROVE Advances
<1> DEFINE c == Fill(Pumped(buf), source)
           np == pipe \o OrdersFor(Granted(Pumped(buf), source))
<1>1. pc = "collect" /\ step < MaxUpdates
  BY DEF Grant, TrainerInv, Looping
<1>2. /\ Goto(c, "granted") /\ Send(Pumped(buf), source)
      /\ Received /\ Quietly /\ UNCHANGED learner
  BY DEF Grant
<1>3. pipe' = np
  BY <1>2, SendIs
<1>4. LearnerInv /\ buf.selected = {} /\ source \in Nat /\ source <= served
  BY <1>1, Outside, AtWork
<1>5. /\ Sound(c, np, working, <<>>, <<>>, cursor, trained, served)
      /\ c.selected = {} /\ ToSet(c.ready) = ToSet(buf.ready) \cup ToSet(results)
      /\ c.fault = FALSE
  BY <1>1, <1>4, FilledAtWork
<1> HIDE DEF c, np
<1>6. buf' = c /\ pc' = "granted"
  BY <1>2, <1>5, GotoIs
<1>7. LearnerInv' /\ LedgerStep /\ UNCHANGED <<step, disk>>
  BY <1>1, <1>2, <1>3, <1>4, <1>5, <1>6, TalkKeeps DEF Freezing, Saving
<1>8. Hidden'
  BY <1>1, <1>7, Outside DEF Hidden
<1>9. TrainerInv' /\ pc' # "failed"
  BY <1>1, <1>5, <1>6, <1>7, <1>8, PlainMove DEF Plain
<1> QED BY <1>7, <1>9 DEF Advances, Blamed

\* A lease: the first groups of the buffer were there at the eviction.
LEMMA LeaseKeeps == ASSUME TrainerInv, Lease PROVE Advances
<1> DEFINE c == Fill(Pumped(buf), source)
           np == pipe \o OrdersFor(Granted(Pumped(buf), source))
           l == Leased(c)
<1>1. /\ pc = "collect" /\ step < MaxUpdates /\ Required <= Len(buf.ready)
      /\ Fresh(buf, Len(buf.ready))
  <2>1. Len(buf.ready) >= Required /\ pc = "collect" /\ step < MaxUpdates
    BY DEF Lease, TrainerInv, Looping
  <2>2. Len(buf.ready) \in Nat /\ Required \in Nat
    BY <2>1, Outside, AtWork, BookFacts, CapacityAssumption DEF Sound
  <2> QED BY <2>1, <2>2 DEF TrainerInv, Leasing
<1>2. /\ Goto(l, "update") /\ Send(Pumped(buf), source)
      /\ Received /\ Quietly /\ UNCHANGED learner
  BY DEF Lease
<1>3. pipe' = np
  BY <1>2, SendIs
<1>4. LearnerInv /\ buf.selected = {} /\ source \in Nat /\ source <= served
  BY <1>1, Outside, AtWork
<1>5. /\ Sound(c, np, working, <<>>, <<>>, cursor, trained, served)
      /\ c.selected = {} /\ ToSet(c.ready) = ToSet(buf.ready) \cup ToSet(results)
      /\ c.ready = Pumped(buf).ready
  BY <1>1, <1>4, FilledAtWork
<1>6. /\ Len(buf.ready) <= Len(c.ready)
      /\ \A i \in 1 .. Len(buf.ready) : c.ready[i] = buf.ready[i]
  BY <1>1, <1>4, <1>5, PumpedAtWork DEF Delivery
<1> HIDE DEF c, np
<1>7. Len(c.ready) \in Nat /\ Len(buf.ready) \in Nat /\ Required \in Nat /\ Required # 0
  BY <1>1, <1>4, <1>5, AtWork, BookFacts, CapacityAssumption DEF Sound
<1>8. Required <= Len(c.ready) /\ \A i \in 1 .. Required : i \in 1 .. Len(buf.ready)
  BY <1>1, <1>6, <1>7
<1>9. /\ Sound(l, np, working, <<>>, <<>>, cursor, trained, served)
      /\ l.ready = c.ready /\ Leases(l)
  BY <1>5, <1>8, LeaseSound
<1> HIDE DEF l
<1>10. l.fault = FALSE
  BY <1>9, BookFacts DEF Sound
<1>11. buf' = l /\ pc' = "update"
  BY <1>2, <1>10, GotoIs
<1>12. LearnerInv' /\ LedgerStep /\ UNCHANGED <<step, disk>>
  BY <1>1, <1>2, <1>3, <1>4, <1>5, <1>9, <1>11, TalkKeeps DEF Freezing, Saving
<1>13. Fresh(buf, Required)' /\ Hidden'
  BY <1>1, <1>6, <1>8, <1>9, <1>11, <1>12, Outside DEF Fresh, Hidden
<1>14. Leasing' /\ Looping' /\ pc' \in Places
  BY <1>1, <1>9, <1>11, <1>12, <1>13 DEF Leasing, Looping, Places
<1>15. Draining' /\ Skipping'
  BY <1>11, <1>13 DEF Draining, Skipping, Freezing, Saving
<1> QED BY <1>11, <1>12, <1>14, <1>15 DEF Advances, Blamed, TrainerInv

\* An update learns the leased batch.
LEMMA UpdateKeeps == ASSUME TrainerInv, Update PROVE Advances
<1> DEFINE c == Committed(buf)
           b == Pumped(c)
           learned == trained \cup {g.record : g \in Batch(buf)}
           after == CASE WillSave(step + 1) -> "drain"
                      [] ~WillSave(step + 1) /\ (\/ step + 1 - source >= PublishEvery
                                                 \/ step + 1 = MaxUpdates) -> "pause"
                      [] OTHER -> Loop(step + 1)
<1>1. /\ pc = "update" /\ step < MaxUpdates /\ Leases(buf)
      /\ LearnerInv /\ Hidden
  BY DEF Update, TrainerInv, Looping, Leasing, Skipping
<1>2. /\ Sound(buf, pipe, working, results, replies, cursor, trained, served)
      /\ Stored /\ cursor \in Nat
  BY <1>1, AtWork
<1>3. /\ step' = step + 1 /\ trained' = learned /\ Goto(b, after)
      /\ results' = <<>> /\ replies' = <<>>
      /\ UNCHANGED <<open, served, cursor, discards, working, disk, cadence, crashes, pipe, source, snap>>
  BY DEF Update, Received, Quietly, experiment
<1>4. Counters' /\ step' # 0
  BY <1>1, <1>3, UpdateCounts DEF learned
<1>5. /\ Sound(c, pipe, working, results, replies, cursor, learned, served)
      /\ ToSet(c.ready) = ToSet(buf.ready) \ Batch(buf)
      /\ c.selected = {}
  BY <1>1, <1>2, CommitSound
<1> HIDE DEF c, learned
<1>6. /\ Sound(b, pipe, working, <<>>, <<>>, cursor, learned, served)
      /\ Delivery(c, b, pipe, working, results)
  BY <1>5, PumpSound
<1> HIDE DEF b, after
<1>7. b.fault = FALSE
  BY <1>6, BookFacts DEF Sound
<1>8. buf' = b /\ pc' = after
  BY <1>3, <1>7, GotoIs
<1>9. after \in {"drain", "pause", "select", "finish"}
      /\ (after = "select" => step + 1 < MaxUpdates)
      /\ (after = "drain" => WillSave(step + 1))
  BY DEF after, Loop
<1>10. buf'.selected = {} /\ ToSet(buf'.ready) = (ToSet(buf.ready) \ Batch(buf)) \cup ToSet(results)
  BY <1>5, <1>6, <1>8 DEF Delivery
<1>11. Flying'
  BY <1>3, <1>6, <1>8 DEF Flying
<1>12. Stored' /\ Hidden'
  BY <1>1, <1>2, <1>3 DEF Stored, Hidden
<1>13. LearnerInv'
  BY <1>4, <1>8, <1>9, <1>11, <1>12, Calm DEF Freezing, Saving
<1>14. LedgerStep
  <2>1. ToSet(results') \cup ToSet(buf'.ready)
          = (ToSet(buf.ready) \ Batch(buf)) \cup ToSet(results)
    BY <1>3, <1>10, NothingIn
  <2> QED BY <1>1, <1>2, <1>3, <2>1, LedgerLearns DEF learned
<1>15. pc' = "drain" => WillSave(step)'
  <2>1. WillSave(step)' <=> WillSave(step + 1)
    BY <1>3 DEF WillSave
  <2> QED BY <1>8, <1>9, <2>1
<1>16. TrainerInv' /\ pc' # "failed"
  BY <1>3, <1>4, <1>8, <1>9, <1>10, <1>12, <1>13, <1>15, PlainMove DEF Plain
<1> QED BY <1>14, <1>16 DEF Advances, Blamed

----------------------------------------------------------------------------
(***************************************************************************)
(* A publication.                                                          *)
(***************************************************************************)
\* The server is closed ...
LEMMA PauseKeeps == ASSUME TrainerInv, Pause PROVE Advances
<1>1. /\ pc = "pause" /\ pc' = "commit" /\ open' \in BOOLEAN
      /\ UNCHANGED <<buf, producer, served, step, source, trained, snap, experiment>>
  BY DEF Pause, learner
<1>2. LearnerInv /\ buf.selected = {} /\ Hidden /\ served' = source'
  BY <1>1, Outside, AtWork
<1>3. LearnerInv' /\ LedgerStep /\ UNCHANGED <<step, disk>>
  BY <1>1, <1>2, PublishKeeps DEF Saving
<1>4. TrainerInv' /\ pc' # "failed"
  BY <1>1, <1>2, <1>3, PlainMove DEF Plain, Hidden
<1> QED BY <1>3, <1>4 DEF Advances, Blamed

\* ... and opened again ...
LEMMA ResumeKeeps == ASSUME TrainerInv, Resume PROVE Advances
<1>1. /\ pc = "resume" /\ pc' = Loop(step) /\ open' \in BOOLEAN
      /\ UNCHANGED <<buf, producer, served, step, source, trained, snap, experiment>>
  BY DEF Resume, learner
<1>2. LearnerInv /\ buf.selected = {} /\ Hidden /\ served' = source'
  BY <1>1, Outside, AtWork
<1>3. pc' \in {"select", "finish"} /\ (pc' = "select" => step' < MaxUpdates)
  BY <1>1 DEF Loop
<1>4. LearnerInv' /\ LedgerStep /\ UNCHANGED <<step, disk>>
  BY <1>1, <1>2, <1>3, PublishKeeps DEF Saving
<1>5. TrainerInv' /\ pc' # "failed"
  BY <1>1, <1>2, <1>3, <1>4, PlainMove DEF Plain, Hidden
<1> QED BY <1>4, <1>5 DEF Advances, Blamed

\* ... with the policy of this step, or drained and on to the snapshot.
LEMMA CommitPolicyKeeps == ASSUME TrainerInv, CommitPolicy PROVE Advances
<1>1. /\ pc \in {"commit", "drained"} /\ pc' = IF pc = "commit" THEN "resume" ELSE "snapshot"
      /\ source' = step /\ served' = step
      /\ UNCHANGED <<buf, producer, open, step, trained, snap, experiment>>
  BY DEF CommitPolicy
<1>2. LearnerInv /\ buf.selected = {} /\ Hidden /\ open \in BOOLEAN
  BY <1>1, Outside DEF LearnerInv, Counters
<1>3. pc = "drained" => buf.reserved = {} /\ step # 0 /\ WillSave(step)
  BY DEF TrainerInv, Draining
<1>4. LearnerInv' /\ LedgerStep /\ UNCHANGED <<step, disk>>
  BY <1>1, <1>2, <1>3, PublishKeeps DEF Saving
<1>5. Hidden' /\ buf'.selected = {}
  BY <1>1, <1>2, <1>4 DEF Hidden
<1>6. TrainerInv' /\ pc' # "failed"
  <2>1. CASE pc = "commit"
    BY <1>1, <1>4, <1>5, <2>1, PlainMove DEF Plain
  <2>2. CASE pc = "drained"
    <3>1. pc' = "snapshot"
      BY <1>1, <2>2
    <3>2. pc' \in Places /\ Looping' /\ Leasing' /\ Skipping'
      BY <1>5, <3>1 DEF Places, Looping, Leasing, Skipping
    <3>3. WillSave(step)'
      BY <1>1, <1>3, <2>2 DEF WillSave, experiment
    <3>4. Draining'
      BY <3>1, <3>3 DEF Draining
    <3> QED BY <1>4, <3>1, <3>2, <3>4 DEF TrainerInv
  <2> QED BY <1>1, <2>1, <2>2
<1> QED BY <1>4, <1>6 DEF Advances, Blamed

----------------------------------------------------------------------------
(***************************************************************************)
(* Drains and saves.                                                       *)
(***************************************************************************)
\* The invariant after a step of a save.
LEMMA SaveMove ==
  ASSUME TrainerInv, LearnerInv', buf'.selected = {}, UNCHANGED <<step, cadence>>,
         pc \in {"drain", "drained"} \cup Freezing \cup Saving,
         pc' \in {"drain", "drained"} \cup (Saving \ {"asleep"}) \cup Freezing \cup {"failed"},
         pc' \in {"drain", "drained"} => pc = "drain",
         pc' = "drained" => buf'.reserved = {},
         Skipping'
  PROVE  TrainerInv'
<1>1. pc' \in Places /\ Looping' /\ Leasing'
  BY DEF Places, Looping, Leasing, Freezing, Saving
<1>2. WillSave(step)' /\ (pc = "drain" => step # 0)
  BY DEF TrainerInv, Draining, WillSave
<1>3. Draining'
  BY <1>2 DEF Draining
<1> QED BY <1>1, <1>3 DEF TrainerInv

\* The wait for what is in flight.
LEMMA TrainerDrainKeeps == ASSUME TrainerInv, TrainerDrain PROVE Advances
<1>1. buf.selected = {} /\ LearnerInv /\ Hidden
  BY Outside DEF TrainerDrain
<1>2. CASE pc = "drain" /\ Drain("drained")
  <2>1. /\ LearnerInv' /\ LedgerStep /\ buf'.selected = {}
        /\ pc' = pc \/ (pc' = "drained" /\ buf'.reserved = {})
    <3>1. /\ pc \notin Freezing \cup Saving \cup {"down"}
          /\ "drained" \notin Saving \cup {"await", "down"}
      BY <1>2 DEF Freezing, Saving
    <3> QED BY <1>1, <1>2, <3>1, DrainKeeps
  <2>2. UNCHANGED <<step, cadence, disk>>
    BY <1>2 DEF Drain, Quietly, learner, experiment
  <2>3. Skipping'
    BY <1>1, <1>2, <2>1, <2>2 DEF Skipping, Hidden
  <2>4. TrainerInv'
    BY <1>2, <2>1, <2>2, <2>3, SaveMove
  <2> QED BY <1>2, <2>1, <2>4 DEF Advances, Blamed
<1>3. CASE pc = "finish" /\ Drain("done")
  <2>1. /\ LearnerInv' /\ LedgerStep /\ buf'.selected = {}
        /\ pc' = pc \/ (pc' = "done" /\ buf'.reserved = {})
    <3>1. /\ pc \notin Freezing \cup Saving \cup {"down"}
          /\ "done" \notin Saving \cup {"await", "down"}
      BY <1>3 DEF Freezing, Saving
    <3> QED BY <1>1, <1>3, <3>1, DrainKeeps
  <2>2. UNCHANGED disk
    BY <1>3 DEF Drain, Quietly, experiment
  <2>3. Hidden'
    BY <1>1, <2>2 DEF Hidden
  <2>4. TrainerInv' /\ pc' # "failed"
    BY <1>3, <2>1, <2>3, PlainMove DEF Plain
  <2> QED BY <2>1, <2>4 DEF Advances, Blamed
<1> QED BY <1>2, <1>3 DEF TrainerDrain

\* A save writes to the directory of its step alone.
LEMMA SavesHere ==
  ASSUME TrainerInv, pc \in Saving, UNCHANGED step, disk'[step].mark => disk[step].mark \/ ~Skipped,
         \A s \in 1 .. MaxUpdates : s # step => disk'[s] = disk[s]
  PROVE  Hidden'
<1>1. MaxUpdates \in 1 .. MaxUpdates
  BY LearnerAssumption
<1>2. Hidden
  BY DEF TrainerInv, Skipping
<1>3. CASE step = MaxUpdates
  BY <1>2, <1>3 DEF Hidden, Skipped
<1>4. CASE step # MaxUpdates
  <2>1. disk'[MaxUpdates] = disk[MaxUpdates]
    BY <1>1, <1>4
  <2> QED BY <1>2, <2>1 DEF Hidden
<1> QED BY <1>3, <1>4

\* What a trainer in a save knows.
LEMMA AtSave ==
  ASSUME TrainerInv, pc \in Freezing \cup Saving
  PROVE  /\ LearnerInv /\ buf.selected = {} /\ WillSave(step)
         /\ step # 0 /\ Skipping /\ pc # "failed"
BY DEF TrainerInv, Leasing, Draining, Freezing, Saving, LearnerInv, Frozen

\* The question for the snapshot ...
LEMMA RequestSnapshotKeeps == ASSUME TrainerInv, RequestSnapshot PROVE Advances
<1>1. pc = "snapshot" /\ UNCHANGED <<step, cadence, disk>>
  BY DEF RequestSnapshot, Quietly, learner, experiment
<1>2. LearnerInv /\ buf.selected = {} /\ Skipping
  BY <1>1, AtSave DEF Freezing
<1>3. LearnerInv' /\ LedgerStep /\ pc' = "await" /\ buf' = buf
  BY <1>2, RequestKeeps
<1>4. Skipping'
  BY <1>1, <1>2, <1>3 DEF Skipping, Hidden
<1>5. TrainerInv'
  BY <1>1, <1>2, <1>3, <1>4, SaveMove DEF Freezing
<1> QED BY <1>3, <1>5 DEF Advances, Blamed

\* ... the wait for the answer ...
LEMMA ReceiveSnapshotKeeps == ASSUME TrainerInv, ReceiveSnapshot("invalidate") PROVE Advances
<1>1. pc = "await" /\ UNCHANGED <<step, cadence, disk>>
  BY DEF ReceiveSnapshot, Quietly, experiment
<1>2. LearnerInv /\ buf.selected = {} /\ Skipping
  BY <1>1, AtSave DEF Freezing
<1>3. LearnerInv' /\ LedgerStep /\ pc' \in {"await", "invalidate"} /\ buf' = buf
  BY <1>2, ReceiveKeeps
<1>4. Skipping'
  BY <1>1, <1>2, <1>3 DEF Skipping, Hidden
<1>5. pc \in Freezing /\ pc' \in Freezing \cup (Saving \ {"asleep"}) /\ pc' \notin {"drain", "drained"}
  BY <1>1, <1>3 DEF Freezing, Saving
<1>6. TrainerInv'
  BY <1>1, <1>2, <1>3, <1>4, <1>5, SaveMove
<1> QED BY <1>3, <1>6 DEF Advances, Blamed

\* ... the old commit is hidden ...
LEMMA InvalidateMoves ==
  ASSUME TrainerInv, Invalidate(IF Skipped THEN "state" ELSE "unmark") PROVE Advances
<1> DEFINE next == IF Skipped THEN "state" ELSE "unmark"
<1>1. pc = "invalidate" /\ UNCHANGED <<step, cadence>>
  BY DEF Invalidate, OnDisk
<1>2. LearnerInv /\ buf.selected = {} /\ Skipping
  BY <1>1, AtSave DEF Saving
<1>3. next = "unmark" \/ (next = "state" /\ ~disk[step].mark)
  BY <1>2 DEF Skipping, Hidden, Skipped
<1>4. /\ LearnerInv' /\ LedgerStep /\ buf' = buf /\ pc' = next
      /\ disk'[step].mark = disk[step].mark
      /\ \A s \in 1 .. MaxUpdates : s # step => disk'[s] = disk[s]
  BY <1>2, <1>3, InvalidateKeeps
<1>5. Hidden'
  BY <1>1, <1>4, SavesHere DEF Saving
<1>6. Skipped' <=> Skipped
  BY <1>1 DEF Skipped
<1>7. Skipping'
  BY <1>4, <1>5, <1>6 DEF Skipping
<1>8. pc \in Saving /\ pc' \in Saving \ {"asleep"} /\ pc' \notin {"drain", "drained", "failed"}
  BY <1>1, <1>4 DEF Saving
<1>9. TrainerInv'
  BY <1>1, <1>2, <1>4, <1>7, <1>8, SaveMove
<1> QED BY <1>4, <1>8, <1>9 DEF Advances, Blamed

\* ... the model is written, unless finalize skips it ...
LEMMA SaveModelMoves == ASSUME TrainerInv, SaveModel PROVE Advances
<1>1. pc \in {"unmark", "overwrite", "persist", "mark"} /\ UNCHANGED <<step, cadence>>
  BY DEF SaveModel, OnDisk
<1>2. LearnerInv /\ buf.selected = {} /\ Skipping
  BY <1>1, AtSave DEF Saving
<1>3. ~Skipped /\ (Skipped' <=> Skipped)
  BY <1>1, <1>2 DEF Skipping, Skipped
<1>4. /\ LearnerInv' /\ LedgerStep /\ buf' = buf
      /\ \/ pc = "unmark" /\ pc' = "overwrite"
         \/ pc = "overwrite" /\ pc' = "persist"
         \/ pc = "persist" /\ pc' = "mark"
         \/ pc = "mark" /\ pc' = "state"
      /\ pc = "mark" => disk'[step].mark
      /\ \A s \in 1 .. MaxUpdates : s # step => disk'[s] = disk[s]
  BY <1>2, SaveModelKeeps
<1>5. Hidden'
  BY <1>1, <1>3, <1>4, SavesHere DEF Saving
<1>6. pc' = "state" => disk'[step'].mark
  BY <1>1, <1>4
<1>7. Skipping'
  BY <1>3, <1>5, <1>6 DEF Skipping
<1>8. pc \in Saving /\ pc' \in Saving \ {"asleep"} /\ pc' \notin {"drain", "drained", "failed"}
  BY <1>4 DEF Saving
<1>9. TrainerInv'
  BY <1>1, <1>2, <1>4, <1>7, <1>8, SaveMove
<1> QED BY <1>4, <1>8, <1>9 DEF Advances, Blamed

\* ... the state, which needs the model: the one place where the loop can fail ...
LEMMA CommitStateMoves == ASSUME TrainerInv, CommitState PROVE Advances
<1>1. pc = "state" /\ UNCHANGED <<step, cadence>>
  BY DEF CommitState, OnDisk
<1>2. LearnerInv /\ buf.selected = {} /\ Skipping /\ WillSave(step)
  BY <1>1, AtSave DEF Saving
<1>3. Skipped' <=> Skipped
  BY <1>1 DEF Skipped
<1>4. /\ LearnerInv' /\ LedgerStep /\ buf' = buf
      /\ pc' = IF disk[step].mark THEN "seal" ELSE "failed"
      /\ disk'[step].mark = disk[step].mark
      /\ \A s \in 1 .. MaxUpdates : s # step => disk'[s] = disk[s]
  BY <1>2, CommitStateKeeps
<1>5. Hidden'
  BY <1>1, <1>4, SavesHere DEF Saving
<1>6. Skipping'
  BY <1>4, <1>5 DEF Skipping
<1>7. pc \in Saving /\ pc' \in (Saving \ {"asleep"}) \cup {"failed"} /\ pc' \notin {"drain", "drained"}
  BY <1>1, <1>4 DEF Saving
<1>8. TrainerInv'
  BY <1>1, <1>2, <1>4, <1>6, <1>7, SaveMove
<1>9. Blamed
  BY <1>1, <1>2, <1>4 DEF Blamed, Skipping
<1> QED BY <1>4, <1>8, <1>9 DEF Advances

\* ... and the manifest.
LEMMA CommitSealMoves == ASSUME TrainerInv, CommitSeal(Loop(step)) PROVE Advances
<1>1. pc = "seal" /\ UNCHANGED <<step, cadence>>
  BY DEF CommitSeal, OnDisk
<1>2. LearnerInv /\ buf.selected = {}
  BY <1>1, AtSave DEF Saving
<1>3. Loop(step) \in {"select", "finish"} /\ (Loop(step) = "select" => step < MaxUpdates)
  BY DEF Loop
<1>4. Loop(step) \notin Freezing \cup Saving \cup {"down"}
  BY <1>3 DEF Freezing, Saving
<1>5. /\ LearnerInv' /\ LedgerStep /\ buf' = buf /\ pc' = Loop(step)
      /\ disk'[step].mark = disk[step].mark
      /\ \A s \in 1 .. MaxUpdates : s # step => disk'[s] = disk[s]
  BY <1>2, <1>4, CommitSealKeeps
<1>6. Hidden'
  BY <1>1, <1>5, SavesHere DEF Saving
<1>7. TrainerInv' /\ pc' # "failed"
  BY <1>1, <1>2, <1>3, <1>5, <1>6, PlainMove DEF Plain
<1> QED BY <1>5, <1>7 DEF Advances, Blamed

\* All of _save.
LEMMA SaveKeeps == ASSUME TrainerInv, Save PROVE Advances
BY RequestSnapshotKeeps, ReceiveSnapshotKeeps, InvalidateMoves, SaveModelMoves,
   CommitStateMoves, CommitSealMoves DEF Save

----------------------------------------------------------------------------
(***************************************************************************)
(* Restarts, the producer, and the theorems.                               *)
(***************************************************************************)
\* A run from the beginning.
LEMMA StartAfreshMoves == ASSUME TrainerInv, StartAfresh(Loop(0)) PROVE Advances
<1>1. pc = "down" /\ LearnerInv /\ Hidden
  BY DEF StartAfresh, TrainerInv, Skipping
<1>2. Loop(0) \in {"select", "finish"} /\ (Loop(0) = "select" => 0 < MaxUpdates)
  BY DEF Loop
<1>3. Loop(0) \notin Freezing \cup Saving \cup {"down"}
  BY <1>2 DEF Freezing, Saving
<1>4. LearnerInv' /\ LedgerStep /\ pc' = Loop(0) /\ buf'.selected = {} /\ step' = 0 /\ disk' = disk
  BY <1>1, <1>3, StartAfreshKeeps
<1>5. Hidden'
  BY <1>1, <1>4 DEF Hidden
<1>6. TrainerInv' /\ pc' # "failed"
  BY <1>2, <1>4, <1>5, PlainMove DEF Plain
<1> QED BY <1>4, <1>6 DEF Advances, Blamed

\* A run from a complete checkpoint.
LEMMA RecoverMoves ==
  ASSUME TrainerInv, Recover([s \in DOMAIN disk |-> Loop(s)]) PROVE Advances
<1> DEFINE next == [s \in DOMAIN disk |-> Loop(s)]
<1>1. pc = "down" /\ LearnerInv /\ Hidden
  BY DEF Recover, TrainerInv, Skipping
<1>2. DOMAIN disk = 1 .. MaxUpdates
  BY <1>1 DEF LearnerInv, Stored
<1>3. \A s \in 1 .. MaxUpdates : /\ next[s] \in {"select", "finish"}
                                 /\ next[s] = "select" => s < MaxUpdates
  BY <1>2 DEF Loop
<1> HIDE DEF next
<1>4. \A s \in 1 .. MaxUpdates : next[s] \notin Freezing \cup Saving \cup {"down"}
  BY <1>3 DEF Freezing, Saving
<1>5. Recover(next)
  BY DEF next
<1>6. /\ LearnerInv' /\ LedgerStep /\ buf'.selected = {} /\ disk' = disk
      /\ step' \in 1 .. MaxUpdates /\ pc' = next[step']
  BY <1>1, <1>4, <1>5, RecoverKeeps
<1>7. Hidden'
  BY <1>1, <1>6 DEF Hidden
<1>8. pc' \in {"select", "finish"} /\ (pc' = "select" => step' < MaxUpdates)
  BY <1>3, <1>6
<1>9. TrainerInv' /\ pc' # "failed"
  BY <1>6, <1>7, <1>8, PlainMove DEF Plain
<1> QED BY <1>6, <1>9 DEF Advances, Blamed

\* The job dies.
LEMMA CrashMoves == ASSUME TrainerInv, Crash PROVE Advances
<1>1. LearnerInv /\ Hidden
  BY DEF TrainerInv, Skipping
<1>2. LearnerInv' /\ LedgerStep /\ pc' = "down" /\ buf'.selected = {} /\ disk' = disk
  BY <1>1, CrashKeeps
<1>3. Hidden'
  BY <1>1, <1>2 DEF Hidden
<1>4. TrainerInv' /\ pc' # "failed"
  BY <1>2, <1>3, PlainMove DEF Plain
<1> QED BY <1>2, <1>4 DEF Advances, Blamed

\* The trainer after a step that is not its own, or none.
LEMMA TrainerWaits ==
  ASSUME TrainerInv, LearnerInv', LedgerStep, UNCHANGED <<buf, pc, step, disk, cadence>>
  PROVE  Advances
<1>1. pc' \in Places /\ Looping' /\ Leasing'
  BY DEF TrainerInv, Looping, Leasing, Fresh
<1>2. WillSave(step)' <=> WillSave(step)
  BY DEF WillSave
<1>3. Draining' /\ Skipping'
  BY <1>2 DEF TrainerInv, Draining, Skipping, Hidden, Skipped
<1> QED BY <1>1, <1>3 DEF Advances, Blamed, TrainerInv

\* The producer goes on by itself.
LEMMA SamplingMoves == ASSUME TrainerInv, Sampling \/ GroupFails PROVE Advances
<1>1. LearnerInv' /\ LedgerStep /\ UNCHANGED <<buf, pc, learner, experiment>>
  BY SamplingQuiet DEF TrainerInv
<1>2. UNCHANGED <<buf, pc, step, disk, cadence>>
  BY <1>1 DEF learner, experiment
<1> QED BY <1>1, <1>2, TrainerWaits

\* A stutter.
LEMMA Stutters == ASSUME TrainerInv, UNCHANGED vars PROVE Advances
<1>1. UNCHANGED <<exchange, pc, learner, experiment>>
  BY DEF vars
<1>2. LearnerInv' /\ LedgerStep /\ UNCHANGED <<buf, pc, step, disk, cadence>>
  BY <1>1, LearnerStays DEF TrainerInv
<1> QED BY <1>2, TrainerWaits

\* Every step of the loop.
LEMMA NextAdvances == ASSUME TrainerInv, [Next]_vars PROVE Advances
<1>1. ASSUME Train PROVE Advances
  BY <1>1, SelectKeeps, GrantKeeps, CollectKeeps, LeaseKeeps, UpdateKeeps, PauseKeeps,
     CommitPolicyKeeps, ResumeKeeps, TrainerDrainKeeps, SaveKeeps, StartAfreshMoves, RecoverMoves
  DEF Train
<1>2. ASSUME UNCHANGED vars PROVE Advances
  BY <1>2, Stutters
<1> QED BY <1>1, <1>2, SamplingMoves, CrashMoves DEF Next

\* The initial states.
LEMMA InitSound == ASSUME Init PROVE TrainerInv /\ Ledger!Init /\ pc # "failed"
<1>1. LearnerInv /\ Ledger!Init /\ pc = "down" /\ buf.selected = {}
      /\ \A s \in 1 .. MaxUpdates : ~disk[s].mark
  BY StartSound DEF Init
<1>2. MaxUpdates \in 1 .. MaxUpdates
  BY LearnerAssumption
<1>3. Skipping
  BY <1>1, <1>2 DEF Skipping, Hidden
<1>4. pc \in Places /\ Looping /\ Leasing /\ Draining
  BY <1>1 DEF Places, Looping, Leasing, Draining, Freezing, Saving
<1> QED BY <1>1, <1>3, <1>4 DEF TrainerInv

\* The types follow from the invariant.
LEMMA TrainerTypes == ASSUME TrainerInv PROVE TypeOK
<1>1. LearnerInv /\ pc \in Places /\ Leasing
  BY DEF TrainerInv
<1>2. CreditsBalance /\ Cardinality(working) + Cardinality(Unread) <= Cardinality(buf.reserved)
  BY <1>1, Credits
<1>3. Book(buf)
  BY <1>1 DEF LearnerInv, Exchanging, Asking, Flying, Sound
<1>4. buf.selected \subseteq {g.id : g \in ToSet(buf.ready)}
  <2>1. CASE pc = "update"
    <3>1. Leases(buf)
      BY <1>1, <2>1 DEF Leasing
    <3> QED BY <1>3, <3>1, LeasesAre
  <2>2. CASE pc # "update"
    BY <1>1, <2>2 DEF Leasing
  <2> QED BY <2>1, <2>2
<1>5. /\ {step, source, served} \subseteq Updates /\ trained \subseteq 0 .. cursor - 1
      /\ open \in BOOLEAN /\ crashes \in 0 .. MaxCrashes /\ discards \in 0 .. MaxDiscards
      /\ Held \subseteq Groups
      /\ buf.reserved \subseteq [id : Identities, src : Updates]
  BY <1>1, LearnerTypes
<1> QED BY <1>1, <1>2, <1>4, <1>5 DEF TypeOK, Places

\* The inductive invariant (train of FullyAsyncTrainer).
THEOREM TrainerInvariance == Spec => []TrainerInv
<1>1. Init => TrainerInv
  BY InitSound
<1>2. TrainerInv /\ [Next]_vars => TrainerInv'
  BY NextAdvances DEF Advances
<1> QED BY <1>1, <1>2, PTL DEF Spec

\* The variables have their types, and buffer and producer keep within their
\* limits (ExperienceBuffer.reserve).
THEOREM TypesCorrect == Spec => []TypeOK
<1>1. TrainerInv => TypeOK
  BY TrainerTypes
<1> QED BY <1>1, TrainerInvariance, PTL

\* Every identity ends consumed or dropped or holds exactly one credit, and the
\* credits never exceed the capacity (ExperienceBuffer).
THEOREM CreditsStayBalanced == Spec => []CreditsBalance
<1>1. TrainerInv => CreditsBalance
  BY Credits DEF TrainerInv
<1> QED BY <1>1, TrainerInvariance, PTL

\* A batch under update is whole, and none of its actions is older than the
\* maximal lag or of the future (evict_stale, select).
THEOREM BatchesWithinLag == Spec => []WithinLag
<1>1. TrainerInv => WithinLag
  <2> SUFFICES ASSUME TrainerInv, pc = "update" PROVE WithinLag
    BY DEF WithinLag
  <2>1. LearnerInv /\ Leases(buf) /\ Fresh(buf, Required)
    BY DEF TrainerInv, Leasing
  <2> QED BY <2>1, BatchFresh DEF Fresh
<1> QED BY <1>1, TrainerInvariance, PTL

\* The loop implements the ledger: a record is learned at most once and with a
\* complete batch, and a restart goes back to one moment as a whole
\* (AsyncCheckpoint).
THEOREM ExperienceKept == Spec => ImplementsLedger
<1>1. Init => Ledger!Init
  BY InitSound
<1>2. TrainerInv /\ [Next]_vars => [Ledger!Next]_<<trained, HeldRecords, cursor, Moments>>
  BY NextAdvances DEF Advances, LedgerStep
<1> QED
  BY <1>1, <1>2, TrainerInvariance, PTL DEF Spec, ImplementsLedger, Ledger!Spec, Moments

\* No cadence asks for a checkpoint at the last update that finalize refuses.
FinalSaves == SaveFinal \/ \A c \in Cadences : c > 0 => MaxUpdates % c # 0

\* With such cadences no exception of the protocol is reached, whatever fails
\* and dies (accept, discard, evict_stale, commit, state_dict,
\* AsyncCheckpoint.load).
THEOREM NothingFails == ASSUME FinalSaves PROVE Spec => []NothingRaises
<1>1. Init => NothingRaises
  BY InitSound DEF NothingRaises
<1>2. TrainerInv /\ NothingRaises /\ [Next]_vars => NothingRaises'
  <2>1. TrainerInv => ~(Skipped /\ WillSave(step))
    BY DEF FinalSaves, Skipped, WillSave, TrainerInv, LearnerInv, Counters
  <2> QED BY <2>1, NextAdvances DEF Advances, Blamed, NothingRaises
<1> QED BY <1>1, <1>2, TrainerInvariance, PTL DEF Spec

=============================================================================
