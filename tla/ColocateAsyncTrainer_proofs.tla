--------------------- MODULE ColocateAsyncTrainer_proofs ---------------------
(***************************************************************************)
(* The colocated training loop, proved: batches within the lag, balanced   *)
(* credits, no exception of the protocol, and the loop as an               *)
(* implementation of ExperienceLedger.                                     *)
(*                                                                         *)
(* The inductive invariant is LearnerInv and what only this loop knows:    *)
(* its batch is leased, and fresh, from the lease until the update or the  *)
(* rejection; every update is published before anything else happens; and  *)
(* when the loop wakes up after a save, the buffer it still holds is the   *)
(* one the snapshot was taken from, whether the producer was replaced in   *)
(* between or not.                                                         *)
(***************************************************************************)
EXTENDS ColocateAsyncTrainer, AsyncLearner_proofs

Places == {"down", "sample", "fill", "pause", "update", "publish", "reopen", "resume",
           "drain", "wake", "finish", "close", "done", "exhausted"}
          \cup Freezing \cup Saving

Looping == pc \in {"sample", "fill", "pause", "update", "resume", "wake"} => step < MaxUpdates

\* A batch is leased until it is learned or rejected, and within the lag.
Fresh(b)  == \A i \in 1 .. Required : step - b.ready[i].old <= Lag
AtBatch   == {"pause", "update"}
Leasing   == IF pc \in AtBatch THEN Leases(buf) /\ Fresh(buf) ELSE buf.selected = {}

\* Every update is published at once.
Publishing == /\ pc # "publish" => source = step
              /\ pc \in {"publish", "reopen", "drain"} => step # 0

\* A save always writes its model; the loop wakes up with the buffer it saved.
Marking == pc = "state" => disk[step].mark
Waking  == pc = "wake" => /\ buf.reserved = {}
                          /\ snap = [step |-> step, async |-> Exported(buf, cursor)]

TrainerInv == LearnerInv /\ pc \in Places /\ Looping /\ Leasing /\ Publishing /\ Marking /\ Waking

\* What every step is shown to do: keep the invariant and take a step of the
\* ledger.
Advances == TrainerInv' /\ LedgerStep

\* Places outside of a save, a lease and a wake-up.
Plain == {"down", "sample", "fill", "publish", "reopen", "resume", "drain", "finish",
          "close", "done", "exhausted"}

\* The invariant outside of those: what is to be shown of a step that ends there.
LEMMA PlainMove ==
  ASSUME LearnerInv', pc' \in Plain, buf'.selected = {},
         pc' # "publish" => source' = step',
         pc' \in {"sample", "fill", "resume"} => step' < MaxUpdates,
         pc' \in {"publish", "reopen", "drain"} => step' # 0
  PROVE  TrainerInv'
<1>1. pc' \in Places /\ Looping' /\ Marking' /\ Waking'
  BY DEF Plain, Places, Looping, Marking, Waking
<1>2. Leasing' /\ Publishing'
  BY DEF Plain, Leasing, AtBatch, Publishing
<1> QED BY <1>1, <1>2 DEF TrainerInv

\* What a trainer without a lease knows.
LEMMA Outside ==
  ASSUME TrainerInv, pc \notin AtBatch
  PROVE  LearnerInv /\ buf.selected = {}
BY DEF TrainerInv, Leasing

\* A step that only opens or closes the server.
LEMMA OpensOrCloses ==
  ASSUME LearnerInv, pc # "await", pc' \notin Freezing \cup Saving \cup {"down"}, open' \in BOOLEAN,
         UNCHANGED <<buf, producer, served, step, source, trained, experiment>>
  PROVE  LearnerInv' /\ LedgerStep
<1>1. /\ UNCHANGED <<pipe, working, results, replies, cursor, discards>>
      /\ UNCHANGED <<disk, cadence, crashes>>
  BY DEF producer, experiment
<1>2. /\ Sound(buf, pipe, working, results, replies, cursor, trained, served)
      /\ Counters /\ Stored
  BY AtWork
<1>3. Flying' /\ Counters' /\ Stored'
  BY <1>1, <1>2 DEF Flying, Counters, Updates, Stored
<1>4. LearnerInv'
  BY <1>3, Calm DEF Freezing
<1>5. HeldRecords' = HeldRecords
  BY <1>1 DEF HeldRecords, Held
<1> QED BY <1>1, <1>4, <1>5, LedgerStays

----------------------------------------------------------------------------
(***************************************************************************)
(* A round of sample_batch.                                                *)
(***************************************************************************)
\* A pump and an eviction.
LEMMA SampleBatchKeeps == ASSUME TrainerInv, SampleBatch PROVE Advances
<1> DEFINE c == Evicted(Pumped(buf), step)
<1>1. /\ pc = "sample" /\ Goto(c, "fill") /\ Received /\ Quietly
      /\ UNCHANGED <<pipe, learner>>
  BY DEF SampleBatch
<1>2. LearnerInv /\ buf.selected = {} /\ step < MaxUpdates /\ source = step
  BY <1>1, Outside DEF AtBatch, TrainerInv, Looping, Publishing
<1>3. /\ Sound(c, pipe, working, <<>>, <<>>, cursor, trained, served)
      /\ ToSet(c.ready) \subseteq ToSet(buf.ready) \cup ToSet(results)
      /\ c.selected = {} /\ c.fault = FALSE
  BY <1>1, <1>2, EvictedAtWork
<1> HIDE DEF c
<1>4. buf' = c /\ pc' = "fill" /\ pipe' = pipe
  BY <1>1, <1>3, GotoIs
<1>5. LearnerInv' /\ LedgerStep
  BY <1>1, <1>2, <1>3, <1>4, TalkKeeps DEF Freezing, Saving
<1>6. step' = step /\ source' = source
  BY <1>1 DEF learner
<1>7. TrainerInv'
  BY <1>2, <1>3, <1>4, <1>5, <1>6, PlainMove DEF Plain
<1> QED BY <1>5, <1>7 DEF Advances

\* A pump, a grant and the same age gate for what the pump accepted; then the
\* lease of the first groups, or another round.
LEMMA LeaseBatchKeeps == ASSUME TrainerInv, LeaseBatch PROVE Advances
<1> DEFINE p == Fill(Pumped(buf), step)
           np == pipe \o OrdersFor(Granted(Pumped(buf), step))
           c == Filled(p)
           l == Leased(c)
<1>1. /\ pc = "fill"
      /\ IF Len(c.ready) >= Required /\ ~c.fault THEN Goto(l, "pause") ELSE Goto(c, "sample")
      /\ Send(Pumped(buf), step) /\ Received /\ Quietly /\ UNCHANGED learner
  BY DEF LeaseBatch
<1>2. LearnerInv /\ buf.selected = {} /\ step < MaxUpdates /\ source = step
  BY <1>1, Outside DEF AtBatch, TrainerInv, Looping, Publishing
<1>3. step \in Nat /\ served \in Nat /\ served = step
  BY <1>1, <1>2, AtWork
<1>4. pipe' = np
  BY <1>1, SendIs
<1>5. /\ Sound(p, np, working, <<>>, <<>>, cursor, trained, served)
      /\ p.selected = {} /\ ToSet(p.ready) = ToSet(buf.ready) \cup ToSet(results)
  <2>1. step <= served /\ pc # "await"
    BY <1>1, <1>3
  <2> HIDE DEF p, np
  <2> QED BY <1>2, <1>3, <2>1, FilledAtWork DEF p, np
<1> HIDE DEF p, np
<1>6. /\ Sound(c, np, working, <<>>, <<>>, cursor, trained, served)
      /\ ToSet(c.ready) \subseteq ToSet(p.ready) /\ c.selected = {}
      /\ \A g \in ToSet(c.ready) : step - g.old <= Lag
  <2>1. served <= step
    BY <1>3
  <2> QED BY <1>3, <1>5, <2>1, EvictSound DEF Filled
<1> HIDE DEF c, l
<1>7. c.fault = FALSE /\ Len(c.ready) \in Nat /\ Required \in Nat
      /\ \A i \in 1 .. Len(c.ready) : c.ready[i] \in ToSet(c.ready)
  <2>1. Book(c)
    BY <1>6 DEF Sound
  <2>2. c.fault = FALSE /\ Len(c.ready) \in Nat /\ c.ready \in Seq(Finished)
    BY <2>1, BookFacts
  <2>3. \A i \in 1 .. Len(c.ready) : c.ready[i] \in ToSet(c.ready)
    BY <2>2, ElementsOf
  <2> QED BY <2>2, <2>3, CapacityAssumption
<1>8. step' = step /\ source' = source
  BY <1>1 DEF learner
<1>9. CASE Len(c.ready) >= Required
  <2>1. Required <= Len(c.ready)
    BY <1>7, <1>9
  <2>2. /\ Sound(l, np, working, <<>>, <<>>, cursor, trained, served)
        /\ l.ready = c.ready /\ Leases(l)
    BY <1>6, <2>1, LeaseSound DEF l
  <2>3. l.fault = FALSE
    BY <2>2, BookFacts DEF Sound
  <2>4. Goto(l, "pause")
    BY <1>1, <1>7, <1>9
  <2>5. buf' = l /\ pc' = "pause"
    BY <2>3, <2>4, GotoIs
  <2>6. LearnerInv' /\ LedgerStep
    <3>1. ToSet(buf'.ready) \subseteq ToSet(buf.ready) \cup ToSet(results)
      BY <1>5, <1>6, <2>2, <2>5
    <3>2. Sound(buf', pipe', working, <<>>, <<>>, cursor, trained, served)
      BY <1>4, <2>2, <2>5
    <3>3. Received /\ Quietly /\ UNCHANGED learner /\ pc # "await"
      BY <1>1
    <3>4. pc' \notin Freezing \cup Saving \cup {"down"}
      BY <2>5 DEF Freezing, Saving
    <3> QED BY <1>2, <3>1, <3>2, <3>3, <3>4, TalkKeeps
  <2>7. \A i \in 1 .. Required : i \in 1 .. Len(c.ready)
    BY <1>7, <2>1
  <2>8. Fresh(buf)'
    BY <1>6, <1>7, <1>8, <2>2, <2>5, <2>7 DEF Fresh
  <2>9. pc' \in Places /\ Looping' /\ Leasing' /\ Publishing' /\ Marking' /\ Waking'
    BY <1>2, <1>8, <2>2, <2>5, <2>8
    DEF Places, Looping, Leasing, AtBatch, Publishing, Marking, Waking
  <2> QED BY <2>6, <2>9 DEF Advances, TrainerInv
<1>10. CASE ~(Len(c.ready) >= Required)
  <2>1. Goto(c, "sample")
    BY <1>1, <1>10
  <2>2. buf' = c /\ pc' = "sample"
    BY <1>7, <2>1, GotoIs
  <2>3. LearnerInv' /\ LedgerStep
    <3>1. ToSet(buf'.ready) \subseteq ToSet(buf.ready) \cup ToSet(results)
      BY <1>5, <1>6, <2>2
    <3>2. Sound(buf', pipe', working, <<>>, <<>>, cursor, trained, served)
      BY <1>4, <1>6, <2>2
    <3>3. Received /\ Quietly /\ UNCHANGED learner /\ pc # "await"
      BY <1>1
    <3>4. pc' \notin Freezing \cup Saving \cup {"down"}
      BY <2>2 DEF Freezing, Saving
    <3> QED BY <1>2, <3>1, <3>2, <3>3, <3>4, TalkKeeps
  <2>4. TrainerInv'
    BY <1>2, <1>6, <1>8, <2>2, <2>3, PlainMove DEF Plain
  <2> QED BY <2>3, <2>4 DEF Advances
<1> QED BY <1>9, <1>10

----------------------------------------------------------------------------
(***************************************************************************)
(* An update, or the rejection of its groups.                              *)
(***************************************************************************)
\* What a trainer with a lease knows.
LEMMA AtUpdate ==
  ASSUME TrainerInv, pc = "update"
  PROVE  /\ LearnerInv /\ Leases(buf) /\ Fresh(buf) /\ step < MaxUpdates /\ source = step
         /\ Sound(buf, pipe, working, results, replies, cursor, trained, served)
         /\ Counters /\ Stored /\ cursor \in Nat
<1>1. LearnerInv /\ Leases(buf) /\ Fresh(buf) /\ step < MaxUpdates /\ source = step
  BY DEF TrainerInv, Looping, Leasing, AtBatch, Publishing
<1> QED BY <1>1, AtWork

\* An update learns the leased batch.
LEMMA UpdateKeeps == ASSUME TrainerInv, Update PROVE Advances
<1> DEFINE c == Committed(buf)
           learned == trained \cup {g.record : g \in Batch(buf)}
<1>1. /\ pc = "update" /\ step' = step + 1 /\ trained' = learned /\ Goto(c, "publish")
      /\ UNCHANGED <<pipe, working, results, replies, cursor, discards>>
      /\ UNCHANGED <<open, served, source, disk, cadence, crashes>>
  BY DEF Update, producer, experiment
<1>2. /\ LearnerInv /\ Leases(buf) /\ step < MaxUpdates
      /\ Sound(buf, pipe, working, results, replies, cursor, trained, served)
      /\ Stored /\ cursor \in Nat
  BY <1>1, AtUpdate
<1>3. /\ Sound(c, pipe, working, results, replies, cursor, learned, served)
      /\ ToSet(c.ready) = ToSet(buf.ready) \ Batch(buf) /\ c.selected = {}
  BY <1>2, CommitSound
<1> HIDE DEF c
<1>4. c.fault = FALSE
  BY <1>3, BookFacts DEF Sound
<1>5. buf' = c /\ pc' = "publish"
  BY <1>1, <1>4, GotoIs
<1>6. Counters' /\ step' # 0
  BY <1>1, <1>2, UpdateCounts DEF learned
<1>7. Flying' /\ Stored'
  <2> HIDE DEF learned
  <2> QED BY <1>1, <1>2, <1>3, <1>5 DEF Flying, Stored
<1>8. LearnerInv'
  BY <1>5, <1>6, <1>7, Calm DEF Saving
<1>9. LedgerStep
  <2>1. ToSet(results') \cup ToSet(buf'.ready)
          = (ToSet(buf.ready) \ Batch(buf)) \cup ToSet(results)
    BY <1>1, <1>3, <1>5
  <2> QED BY <1>1, <1>2, <2>1, LedgerLearns DEF learned
<1>10. TrainerInv'
  BY <1>3, <1>5, <1>6, <1>8, PlainMove DEF Plain
<1> QED BY <1>9, <1>10 DEF Advances

\* The leased groups that are rejected leave the buffer, the others are ready
\* again.
LEMMA RejectedIs ==
  ASSUME NEW b, Book(b), Leases(b), NEW ids \in SUBSET b.selected
  PROVE  /\ Book(Rejected(b, ids))
         /\ ToSet(Rejected(b, ids).ready) \subseteq ToSet(b.ready)
         /\ Rejected(b, ids).next = b.next /\ Rejected(b, ids).reserved = b.reserved
         /\ Rejected(b, ids).selected = {}
<1> DEFINE S == {g \in ToSet(b.ready) : g.id \notin ids}
           d == b.dropped + Cardinality(ids)
           c == Sieved(b, S, b.consumed, d)
<1>1. ids \subseteq {g.id : g \in ToSet(b.ready)}
  BY LeasesAre
<1>2. /\ Cardinality(ids) \in Nat /\ Len(Among(b.ready, S)) \in Nat
      /\ Len(Among(b.ready, S)) = Len(b.ready) - Cardinality(ids)
  BY <1>1, LeftOut
<1>3. b \in Buffers /\ b.consumed \in Nat /\ b.dropped \in Nat /\ Len(b.ready) \in Nat
  BY BookFacts
<1>4. Rejected(b, ids) = [b EXCEPT !.ready = Among(b.ready, S), !.dropped = d, !.selected = {}]
  BY DEF Rejected
<1> HIDE DEF S
<1>5. Accounts(b, S, b.consumed, d)
  <2> DEFINE x == Cardinality(ids)
             m == Len(b.ready)
             n == Len(Among(b.ready, S))
  <2>1. x \in Nat /\ m \in Nat /\ n = m - x /\ d = b.dropped + x
    BY <1>2, <1>3
  <2> HIDE DEF x, m, n, d
  <2>2. d \in Nat /\ b.consumed + d = b.consumed + b.dropped + (m - n)
    BY <1>3, <2>1
  <2> QED BY <1>3, <2>2 DEF Accounts, m, n
<1> HIDE DEF d
<1>6. Rejected(b, ids) = c
  BY <1>3, <1>4 DEF Sieved, Buffers
<1>7. Book(c)
  BY <1>5, SievedBook
<1>8. ToSet(c.ready) = ToSet(b.ready) \cap S
  BY <1>5, SievedBook
<1>9. c.next = b.next /\ c.reserved = b.reserved /\ c.selected = {}
  BY <1>5, SievedBook
<1> HIDE DEF c
<1> QED BY <1>6, <1>7, <1>8, <1>9

\* A rejection.
LEMMA RejectGroupsKeeps == ASSUME TrainerInv, RejectGroups PROVE Advances
<1>1. /\ pc = "update"
      /\ UNCHANGED <<pipe, working, results, replies, cursor, discards>>
      /\ UNCHANGED <<open, served, step, source, trained, disk, cadence, crashes>>
  BY DEF RejectGroups, producer, learner, experiment
<1>2. PICK ids \in SUBSET buf.selected, next \in {"exhausted", "resume"} :
        Goto(Rejected(buf, ids), next)
  BY DEF RejectGroups
<1>3. /\ LearnerInv /\ Leases(buf) /\ step < MaxUpdates /\ source = step
      /\ Sound(buf, pipe, working, results, replies, cursor, trained, served)
      /\ Counters /\ Stored
  BY <1>1, AtUpdate
<1> DEFINE c == Rejected(buf, ids)
<1>4. /\ Book(c) /\ ToSet(c.ready) \subseteq ToSet(buf.ready)
      /\ c.next = buf.next /\ c.reserved = buf.reserved /\ c.selected = {}
  BY <1>3, RejectedIs DEF Sound
<1>5. Goto(c, next)
  BY <1>2
<1> HIDE DEF c
<1>6. Flown(c, pipe, working, results, replies)
  BY <1>3, <1>4, FlownFewer DEF Sound
<1>7. Soundly(c, working, results, cursor, trained, served)
  BY <1>3, <1>4, SoundlyFewer DEF Sound
<1>8. Sound(c, pipe, working, results, replies, cursor, trained, served)
  BY <1>3, <1>4, <1>6, <1>7 DEF Sound
<1>9. buf' = c /\ pc' = next
  BY <1>4, <1>5, GotoIs, BookFacts
<1>10. Flying' /\ Counters' /\ Stored'
  BY <1>1, <1>3, <1>8, <1>9 DEF Flying, Counters, Updates, Stored
<1>11. LearnerInv'
  BY <1>9, <1>10, Calm DEF Saving
<1>12. LedgerStep
  <2>1. Held' \subseteq Held
    BY <1>1, <1>4, <1>9 DEF Held
  <2>2. HeldRecords' \subseteq HeldRecords
    BY <2>1 DEF HeldRecords
  <2> QED BY <1>1, <2>2, LedgerDrops
<1>13. TrainerInv'
  BY <1>1, <1>3, <1>4, <1>9, <1>11, PlainMove DEF Plain
<1> QED BY <1>12, <1>13 DEF Advances

----------------------------------------------------------------------------
(***************************************************************************)
(* The server is closed, opened and given a policy.                        *)
(***************************************************************************)
\* The server goes to sleep for an update, for a save or for good.
LEMMA PauseKeeps == ASSUME TrainerInv, Pause PROVE Advances
<1>1. /\ open' = FALSE
      /\ UNCHANGED <<buf, producer, served, step, source, trained, snap, experiment>>
  BY DEF Pause, learner
<1>2. LearnerInv
  BY DEF TrainerInv
<1>3. CASE pc = "pause" /\ pc' = "update"
  <2>1. LearnerInv' /\ LedgerStep
    BY <1>1, <1>2, <1>3, OpensOrCloses DEF Freezing, Saving
  <2>2. /\ step < MaxUpdates /\ source = step /\ Leases(buf) /\ Fresh(buf)
    BY <1>3 DEF TrainerInv, Looping, Leasing, AtBatch, Publishing
  <2>3. Leases(buf)' /\ Fresh(buf)'
    BY <1>1, <2>2 DEF Leases, Fresh
  <2>4. pc' \in Places /\ Looping' /\ Leasing' /\ Publishing' /\ Marking' /\ Waking'
    BY <1>1, <1>3, <2>2, <2>3
    DEF Places, Looping, Leasing, AtBatch, Publishing, Marking, Waking
  <2> QED BY <2>1, <2>4 DEF Advances, TrainerInv
<1>4. CASE pc = "asleep" /\ pc' = "invalidate"
  <2>1. /\ UNCHANGED <<pipe, working, results, replies, cursor, discards>>
        /\ UNCHANGED <<disk, cadence, crashes>>
    BY <1>1 DEF producer, experiment
  <2>2. Exchanging' /\ Stopped' /\ Stored' /\ Staged'
    BY <1>1, <1>2, <1>4, <2>1 DEF LearnerInv, Exchanging, Flying, Stopped, Stored, Staged
  <2>3. Frozen' /\ Snapped'
    BY <1>1, <1>2, <1>4, <2>1 DEF LearnerInv, Frozen, Snapped, Freezing, Saving
  <2>4. Counters'
    BY <1>1, <1>2, <2>1 DEF LearnerInv, Counters, Updates
  <2>5. LedgerStep
    <3>1. HeldRecords' = HeldRecords
      BY <1>1, <2>1 DEF HeldRecords, Held
    <3> QED BY <1>1, <2>1, <3>1, LedgerStays
  <2>6. buf.selected = {} /\ source = step
    BY <1>4 DEF TrainerInv, Leasing, AtBatch, Publishing
  <2>7. pc' \in Places /\ Looping' /\ Leasing' /\ Publishing' /\ Marking' /\ Waking'
    BY <1>1, <1>4, <2>6
    DEF Places, Looping, Leasing, AtBatch, Publishing, Marking, Waking, Saving
  <2> QED BY <2>2, <2>3, <2>4, <2>5, <2>7 DEF Advances, TrainerInv, LearnerInv
<1>5. CASE pc = "close" /\ pc' = "done"
  <2>1. LearnerInv' /\ LedgerStep
    BY <1>1, <1>2, <1>5, OpensOrCloses DEF Freezing, Saving
  <2>2. buf.selected = {} /\ source = step
    BY <1>5 DEF TrainerInv, Leasing, AtBatch, Publishing
  <2>3. TrainerInv'
    BY <1>1, <1>5, <2>1, <2>2, PlainMove DEF Plain
  <2> QED BY <2>1, <2>3 DEF Advances
<1> QED BY <1>3, <1>4, <1>5 DEF Pause

\* After a rejection it samples for the same policy.
LEMMA ResumeUnchangedKeeps == ASSUME TrainerInv, ResumeUnchanged PROVE Advances
<1>1. /\ pc = "resume" /\ pc' = "sample" /\ open' = TRUE
      /\ UNCHANGED <<buf, producer, served, step, source, trained, experiment>>
  BY DEF ResumeUnchanged, learner
<1>2. LearnerInv /\ buf.selected = {} /\ step < MaxUpdates /\ source = step
  BY <1>1 DEF TrainerInv, Looping, Leasing, AtBatch, Publishing
<1>3. LearnerInv' /\ LedgerStep
  BY <1>1, <1>2, OpensOrCloses DEF Freezing, Saving
<1>4. TrainerInv'
  BY <1>1, <1>2, <1>3, PlainMove DEF Plain
<1> QED BY <1>3, <1>4 DEF Advances

\* After an update it gets the policy of that update ...
LEMMA PublishPolicyKeeps == ASSUME TrainerInv, PublishPolicy PROVE Advances
<1>1. /\ pc = "publish" /\ pc' = "reopen" /\ source' = step /\ served' = step
      /\ UNCHANGED <<buf, producer, open, step, trained, snap, experiment>>
  BY DEF PublishPolicy
<1>2. LearnerInv /\ buf.selected = {} /\ step # 0 /\ open \in BOOLEAN
  BY <1>1 DEF TrainerInv, Leasing, AtBatch, Publishing, LearnerInv, Counters
<1>3. LearnerInv' /\ LedgerStep
  BY <1>1, <1>2, PublishKeeps DEF Saving
<1>4. TrainerInv'
  BY <1>1, <1>2, <1>3, PlainMove DEF Plain
<1> QED BY <1>3, <1>4 DEF Advances

\* ... and opens.
LEMMA ReopenKeeps == ASSUME TrainerInv, Reopen PROVE Advances
<1>1. /\ pc = "reopen" /\ pc' = (IF WillSave(step) THEN "drain" ELSE Loop(step)) /\ open' = TRUE
      /\ UNCHANGED <<buf, producer, served, step, source, trained, experiment>>
  BY DEF Reopen, learner
<1>2. LearnerInv /\ buf.selected = {} /\ step # 0 /\ source = step
  BY <1>1 DEF TrainerInv, Leasing, AtBatch, Publishing
<1>3. pc' \in {"drain", "sample", "finish"} /\ (pc' = "sample" => step < MaxUpdates)
  BY <1>1 DEF Loop
<1>4. LearnerInv' /\ LedgerStep
  BY <1>1, <1>2, <1>3, OpensOrCloses DEF Freezing, Saving
<1>5. TrainerInv'
  BY <1>1, <1>2, <1>3, <1>4, PlainMove DEF Plain
<1> QED BY <1>4, <1>5 DEF Advances

----------------------------------------------------------------------------
(***************************************************************************)
(* Drains, saves and the wake-up.                                          *)
(***************************************************************************)
\* The invariant on the way of a save.
LEMMA SaveMove ==
  ASSUME TrainerInv, LearnerInv', pc \in Freezing \cup Saving \cup {"drain"},
         pc' \in Freezing \cup Saving \cup {"drain"},
         buf'.selected = {}, UNCHANGED <<step, source>>,
         pc' = "drain" => step # 0,
         pc' = "state" => disk'[step'].mark
  PROVE  TrainerInv'
<1>1. source = step
  BY DEF TrainerInv, Publishing, Freezing, Saving
<1>2. pc' \in Places /\ Looping' /\ Leasing' /\ Waking'
  BY DEF Places, Looping, Leasing, AtBatch, Waking, Freezing, Saving
<1>3. Publishing' /\ Marking'
  BY <1>1 DEF Publishing, Marking, Freezing, Saving
<1> QED BY <1>2, <1>3 DEF TrainerInv

\* What a trainer in a save knows.
LEMMA AtSave ==
  ASSUME TrainerInv, pc \in Freezing \cup Saving
  PROVE  LearnerInv /\ buf.selected = {}
BY DEF TrainerInv, Leasing, AtBatch, Freezing, Saving

\* The wait for what is in flight.
LEMMA SamplerDrainKeeps == ASSUME TrainerInv, SamplerDrain PROVE Advances
<1>1. CASE pc = "drain" /\ Drain("snapshot")
  <2>1. LearnerInv /\ buf.selected = {} /\ source = step /\ step # 0
    BY <1>1 DEF TrainerInv, Leasing, AtBatch, Publishing
  <2>2. /\ pc \notin Freezing \cup Saving \cup {"down"}
        /\ "snapshot" \notin Saving \cup {"await", "down"}
    BY <1>1 DEF Freezing, Saving
  <2>3. /\ LearnerInv' /\ LedgerStep /\ buf'.selected = {} /\ pc' \in {"drain", "snapshot"}
    BY <1>1, <2>1, <2>2, DrainKeeps
  <2>4. UNCHANGED <<step, source>>
    BY <1>1 DEF Drain, learner
  <2>5. TrainerInv'
    BY <1>1, <2>1, <2>3, <2>4, SaveMove DEF Freezing, Saving
  <2> QED BY <2>3, <2>5 DEF Advances
<1>2. CASE pc = "finish" /\ Drain("close")
  <2>1. LearnerInv /\ buf.selected = {} /\ source = step
    BY <1>2 DEF TrainerInv, Leasing, AtBatch, Publishing
  <2>2. /\ pc \notin Freezing \cup Saving \cup {"down"}
        /\ "close" \notin Saving \cup {"await", "down"}
    BY <1>2 DEF Freezing, Saving
  <2>3. /\ LearnerInv' /\ LedgerStep /\ buf'.selected = {} /\ pc' \in {"finish", "close"}
    BY <1>2, <2>1, <2>2, DrainKeeps
  <2>4. UNCHANGED <<step, source>>
    BY <1>2 DEF Drain, learner
  <2>5. TrainerInv'
    BY <2>1, <2>3, <2>4, PlainMove DEF Plain
  <2> QED BY <2>3, <2>5 DEF Advances
<1> QED BY <1>1, <1>2 DEF SamplerDrain

\* The question for the snapshot ...
LEMMA RequestMoves == ASSUME TrainerInv, RequestSnapshot PROVE Advances
<1>1. pc = "snapshot" /\ UNCHANGED <<step, source>>
  BY DEF RequestSnapshot, learner
<1>2. LearnerInv /\ buf.selected = {}
  BY <1>1, AtSave DEF Freezing
<1>3. LearnerInv' /\ LedgerStep /\ pc' = "await" /\ buf' = buf
  BY <1>2, RequestKeeps
<1>4. TrainerInv'
  BY <1>1, <1>2, <1>3, SaveMove DEF Freezing
<1> QED BY <1>3, <1>4 DEF Advances

\* ... the wait for the answer ...
LEMMA ReceiveMoves == ASSUME TrainerInv, ReceiveSnapshot("asleep") PROVE Advances
<1>1. pc = "await" /\ UNCHANGED <<step, source>>
  BY DEF ReceiveSnapshot
<1>2. LearnerInv /\ buf.selected = {}
  BY <1>1, AtSave DEF Freezing
<1>3. LearnerInv' /\ LedgerStep /\ pc' \in {"await", "asleep"} /\ buf' = buf
  BY <1>2, ReceiveKeeps
<1>4. TrainerInv'
  BY <1>1, <1>2, <1>3, SaveMove DEF Freezing, Saving
<1> QED BY <1>3, <1>4 DEF Advances

\* ... the old commit is hidden ...
LEMMA InvalidateMoves == ASSUME TrainerInv, Invalidate("unmark") PROVE Advances
<1>1. pc = "invalidate" /\ UNCHANGED <<step, source>>
  BY DEF Invalidate, OnDisk
<1>2. LearnerInv /\ buf.selected = {}
  BY <1>1, AtSave DEF Saving
<1>3. LearnerInv' /\ LedgerStep /\ pc' = "unmark" /\ buf' = buf
  BY <1>2, InvalidateKeeps
<1>4. TrainerInv'
  BY <1>1, <1>2, <1>3, SaveMove DEF Saving
<1> QED BY <1>3, <1>4 DEF Advances

\* ... the model is written and marked ...
LEMMA SaveModelMoves == ASSUME TrainerInv, SaveModel PROVE Advances
<1>1. pc \in {"unmark", "overwrite", "persist", "mark"} /\ UNCHANGED <<step, source>>
  BY DEF SaveModel, OnDisk
<1>2. LearnerInv /\ buf.selected = {}
  BY <1>1, AtSave DEF Saving
<1>3. /\ LearnerInv' /\ LedgerStep /\ buf' = buf
      /\ pc' \in {"overwrite", "persist", "mark", "state"}
      /\ pc' = "state" => disk'[step].mark
  BY <1>2, SaveModelKeeps
<1>4. TrainerInv'
  BY <1>1, <1>2, <1>3, SaveMove DEF Saving
<1> QED BY <1>3, <1>4 DEF Advances

\* ... the state, which finds it marked ...
LEMMA CommitStateMoves == ASSUME TrainerInv, CommitState PROVE Advances
<1>1. pc = "state" /\ UNCHANGED <<step, source>>
  BY DEF CommitState, OnDisk
<1>2. LearnerInv /\ buf.selected = {} /\ disk[step].mark
  BY <1>1, AtSave DEF Saving, TrainerInv, Marking
<1>3. LearnerInv' /\ LedgerStep /\ pc' = "seal" /\ buf' = buf
  BY <1>2, CommitStateKeeps
<1>4. TrainerInv'
  BY <1>1, <1>2, <1>3, SaveMove DEF Saving
<1> QED BY <1>3, <1>4 DEF Advances

\* ... and the manifest; then the loop wakes up, unless this was the last step.
LEMMA CommitSealMoves == ASSUME TrainerInv, CommitSeal(AfterSave(step)) PROVE Advances
<1>1. pc = "seal" /\ UNCHANGED <<step, source, cursor, snap>>
  BY DEF CommitSeal, OnDisk, exchange, producer
<1>2. /\ LearnerInv /\ buf.selected = {} /\ source = step
      /\ buf.reserved = {} /\ snap = [step |-> step, async |-> Exported(buf, cursor)]
  BY <1>1, AtSave DEF Saving, TrainerInv, Publishing, LearnerInv, Frozen, Snapped
<1>3. AfterSave(step) \in {"wake", "done"} /\ (AfterSave(step) = "wake" => step < MaxUpdates)
  BY DEF AfterSave
<1>4. AfterSave(step) \notin Freezing \cup Saving \cup {"down"}
  BY <1>3 DEF Freezing, Saving
<1>5. LearnerInv' /\ LedgerStep /\ buf' = buf /\ pc' = AfterSave(step)
  BY <1>2, <1>4, CommitSealKeeps
<1>6. Waking'
  BY <1>1, <1>2, <1>5 DEF Waking
<1>7. pc' \in Places /\ Looping' /\ Leasing' /\ Publishing' /\ Marking'
  BY <1>1, <1>2, <1>3, <1>5 DEF Places, Looping, Leasing, AtBatch, Publishing, Marking
<1> QED BY <1>5, <1>6, <1>7 DEF Advances, TrainerInv

\* All of _save_checkpoint.
LEMMA SaveKeeps == ASSUME TrainerInv, Save PROVE Advances
BY RequestMoves, ReceiveMoves, InvalidateMoves, SaveModelMoves, CommitStateMoves,
   CommitSealMoves DEF Save

\* While the loop is about to wake up, nothing is under way.
LEMMA WakesUpAlone ==
  ASSUME TrainerInv, pc = "wake"
  PROVE  /\ Sound(buf, <<>>, {}, <<>>, <<>>, cursor, trained, served)
         /\ pipe = <<>> /\ working = {} /\ results = <<>> /\ replies = <<>>
<1>1. /\ Sound(buf, pipe, working, results, replies, cursor, trained, served)
      /\ buf.reserved = {}
  BY DEF TrainerInv, LearnerInv, Exchanging, Flying, Waking
<1> QED BY <1>1, SoundAtRest

\* The producer built from the snapshot is the one that was closed.
LEMMA WakeKeeps == ASSUME TrainerInv, Wake PROVE Advances
<1>1. /\ pc = "wake" /\ open' = TRUE
      /\ UNCHANGED <<served, discards, step, source, trained, disk, cadence, crashes>>
  BY DEF Wake, experiment
<1>2. /\ LearnerInv /\ buf.selected = {} /\ buf.reserved = {}
      /\ step < MaxUpdates /\ source = step
      /\ snap = [step |-> step, async |-> Exported(buf, cursor)]
  BY <1>1 DEF TrainerInv, Looping, Leasing, AtBatch, Publishing, Waking
<1>3. /\ Sound(buf, <<>>, {}, <<>>, <<>>, cursor, trained, served) /\ Book(buf)
      /\ pipe = <<>> /\ working = {} /\ results = <<>> /\ replies = <<>>
  BY <1>1, WakesUpAlone DEF Sound
<1>4. Restored(snap.async) = buf /\ snap.async.cursor = cursor
  BY <1>2, <1>3, RestoredExported DEF Exported
<1>5. buf.fault = FALSE
  BY <1>3, BookFacts
<1>6. /\ buf' = buf /\ pc' = "sample" /\ cursor' = cursor
      /\ pipe' = <<>> /\ working' = {} /\ results' = <<>> /\ replies' = <<>>
  <2>1. CASE Handoff
    <3>1. Goto(Restored(snap.async), "sample") /\ Quiet /\ cursor' = snap.async.cursor
      BY <2>1 DEF Wake
    <3>2. Goto(buf, "sample")
      BY <1>4, <3>1
    <3> QED BY <1>4, <1>5, <3>1, <3>2, GotoIs DEF Quiet
  <2>2. CASE ~Handoff
    BY <1>3, <2>2 DEF Wake
  <2> QED BY <2>1, <2>2
<1>7. Counters /\ Stored
  BY <1>2 DEF LearnerInv
<1>8. Flying' /\ Counters' /\ Stored'
  BY <1>1, <1>3, <1>6, <1>7 DEF Flying, Counters, Updates, Stored
<1>9. LearnerInv'
  BY <1>6, <1>8, Calm DEF Saving
<1>10. LedgerStep
  <2>1. HeldRecords' = HeldRecords
    BY <1>3, <1>6 DEF HeldRecords, Held
  <2> QED BY <1>1, <1>6, <2>1, LedgerStays
<1>11. TrainerInv'
  BY <1>1, <1>2, <1>6, <1>9, PlainMove DEF Plain
<1> QED BY <1>10, <1>11 DEF Advances

----------------------------------------------------------------------------
(***************************************************************************)
(* Restarts, the producer, and the theorems.                               *)
(***************************************************************************)
\* A run from the beginning.
LEMMA StartAfreshMoves == ASSUME TrainerInv, StartAfresh(Loop(0)) PROVE Advances
<1>1. LearnerInv /\ source' = 0
  BY DEF StartAfresh, Boot, TrainerInv
<1>2. Loop(0) \in {"sample", "finish"} /\ (Loop(0) = "sample" => 0 < MaxUpdates)
  BY DEF Loop
<1>3. Loop(0) \notin Freezing \cup Saving \cup {"down"}
  BY <1>2 DEF Freezing, Saving
<1>4. LearnerInv' /\ LedgerStep /\ pc' = Loop(0) /\ buf'.selected = {} /\ step' = 0
  BY <1>1, <1>3, StartAfreshKeeps
<1>5. TrainerInv'
  BY <1>1, <1>2, <1>4, PlainMove DEF Plain
<1> QED BY <1>4, <1>5 DEF Advances

\* A run from a complete checkpoint.
LEMMA RecoverMoves ==
  ASSUME TrainerInv, Recover([s \in DOMAIN disk |-> Loop(s)]) PROVE Advances
<1> DEFINE next == [s \in DOMAIN disk |-> Loop(s)]
<1>1. LearnerInv
  BY DEF TrainerInv
<1>2. DOMAIN disk = 1 .. MaxUpdates
  BY <1>1 DEF LearnerInv, Stored
<1>3. \A s \in 1 .. MaxUpdates : /\ next[s] \in {"sample", "finish"}
                                 /\ next[s] = "sample" => s < MaxUpdates
  BY <1>2 DEF Loop
<1>4. pc' = "failed" \/ source' = step'
  BY DEF Recover, Boot
<1>5. Recover(next)
  OBVIOUS
<1> HIDE DEF next
<1>6. \A s \in 1 .. MaxUpdates : next[s] \notin Freezing \cup Saving \cup {"down"}
  BY <1>3 DEF Freezing, Saving
<1>7. /\ LearnerInv' /\ LedgerStep /\ buf'.selected = {}
      /\ step' \in 1 .. MaxUpdates /\ pc' = next[step']
  BY <1>1, <1>5, <1>6, RecoverKeeps
<1>8. pc' \in {"sample", "finish"} /\ (pc' = "sample" => step' < MaxUpdates)
  BY <1>3, <1>7
<1>9. TrainerInv'
  BY <1>4, <1>7, <1>8, PlainMove DEF Plain
<1> QED BY <1>7, <1>9 DEF Advances

\* The job dies.
LEMMA CrashMoves == ASSUME TrainerInv, Crash PROVE Advances
<1>1. LearnerInv /\ step' = 0 /\ source' = 0
  BY DEF TrainerInv, Crash
<1>2. LearnerInv' /\ LedgerStep /\ pc' = "down" /\ buf'.selected = {}
  BY <1>1, CrashKeeps
<1>3. TrainerInv'
  BY <1>1, <1>2, PlainMove DEF Plain
<1> QED BY <1>2, <1>3 DEF Advances

\* The trainer after a step that is not its own, or none.
LEMMA TrainerWaits ==
  ASSUME TrainerInv, LearnerInv', LedgerStep, UNCHANGED <<buf, pc, step, source, disk, snap>>,
         pc = "wake" => cursor' = cursor
  PROVE  Advances
<1>1. pc' \in Places /\ Looping' /\ Leasing'
  BY DEF TrainerInv, Looping, Leasing, Leases, Fresh
<1>2. Publishing' /\ Marking' /\ Waking'
  BY DEF TrainerInv, Publishing, Marking, Waking
<1> QED BY <1>1, <1>2 DEF Advances, TrainerInv

\* The producer goes on by itself, but has nothing to do before a wake-up.
LEMMA SamplingMoves == ASSUME TrainerInv, Sampling \/ GroupFails PROVE Advances
<1>1. LearnerInv' /\ LedgerStep /\ UNCHANGED <<buf, pc, step, source, disk, snap>>
  BY SamplingQuiet DEF TrainerInv, learner, experiment
<1>2. pc = "wake" => cursor' = cursor
  <2> SUFFICES ASSUME pc = "wake" PROVE FALSE
    OBVIOUS
  <2>1. pipe = <<>> /\ working = {}
    BY WakesUpAlone
  <2> QED BY <2>1 DEF Sampling, GroupFails, Produce, TakeTask, TakeSnapshot
<1> QED BY <1>1, <1>2, TrainerWaits

\* A stutter.
LEMMA Stutters == ASSUME TrainerInv, UNCHANGED vars PROVE Advances
<1>1. UNCHANGED <<exchange, pc, learner, experiment>>
  BY DEF vars
<1>2. LearnerInv' /\ LedgerStep
  BY <1>1, LearnerStays DEF TrainerInv
<1>3. UNCHANGED <<buf, pc, step, source, disk, snap, cursor>>
  BY <1>1 DEF exchange, producer, learner, experiment
<1> QED BY <1>2, <1>3, TrainerWaits

\* Every step of the loop.
LEMMA NextAdvances == ASSUME TrainerInv, [Next]_vars PROVE Advances
<1>1. ASSUME Train PROVE Advances
  BY <1>1, SampleBatchKeeps, LeaseBatchKeeps, PauseKeeps, UpdateKeeps, RejectGroupsKeeps,
     ResumeUnchangedKeeps, PublishPolicyKeeps, ReopenKeeps, SamplerDrainKeeps, SaveKeeps,
     WakeKeeps, StartAfreshMoves, RecoverMoves
  DEF Train
<1>2. ASSUME UNCHANGED vars PROVE Advances
  BY <1>2, Stutters
<1> QED BY <1>1, <1>2, SamplingMoves, CrashMoves DEF Next

\* The initial states.
LEMMA InitSound == ASSUME Init PROVE TrainerInv /\ Ledger!Init
<1>1. LearnerInv /\ Ledger!Init /\ pc = "down" /\ buf.selected = {}
  BY StartSound DEF Init
<1>2. source = step
  BY DEF Init, InitLearner
<1>3. pc \in Places /\ Looping /\ Leasing /\ Publishing /\ Marking /\ Waking
  BY <1>1, <1>2 DEF Places, Looping, Leasing, AtBatch, Publishing, Marking, Waking
<1> QED BY <1>1, <1>3 DEF TrainerInv

\* The inductive invariant (train of ColocateAsyncTrainer).
THEOREM TrainerInvariance == Spec => []TrainerInv
<1>1. Init => TrainerInv
  BY InitSound
<1>2. TrainerInv /\ [Next]_vars => TrainerInv'
  BY NextAdvances DEF Advances
<1> QED BY <1>1, <1>2, PTL DEF Spec

\* Every identity ends consumed or dropped or holds exactly one credit, also the
\* groups the correction rejects (ExperienceBuffer, reject_batch_groups).
THEOREM CreditsStayBalanced == Spec => []CreditsBalance
<1>1. TrainerInv => CreditsBalance
  BY Credits DEF TrainerInv
<1> QED BY <1>1, TrainerInvariance, PTL

\* A batch under update is whole and within the lag, although fill accepts
\* results after the eviction of sample_batch (sample_batch, evict_stale).
THEOREM BatchesWithinLag == Spec => []WithinLag
<1>1. TrainerInv => WithinLag
  <2> SUFFICES ASSUME TrainerInv, pc = "update" PROVE WithinLag
    BY DEF WithinLag
  <2>1. LearnerInv /\ Leases(buf) /\ Fresh(buf)
    BY DEF TrainerInv, Leasing, AtBatch
  <2> QED BY <2>1, BatchFresh DEF Fresh
<1> QED BY <1>1, TrainerInvariance, PTL

\* No exception of the protocol is reached, whatever is rejected, fails and
\* dies: this loop always writes the model of a save (accept, discard,
\* evict_stale, commit, state_dict, AsyncCheckpoint.load).
THEOREM NothingFails == Spec => []NothingRaises
<1>1. TrainerInv => NothingRaises
  BY DEF TrainerInv, Places, Freezing, Saving, NothingRaises
<1> QED BY <1>1, TrainerInvariance, PTL

\* The loop implements the ledger, with a producer that is replaced during a
\* save and with batches that are given back (AsyncCheckpoint,
\* _freeze_snapshot).
THEOREM ExperienceKept == Spec => ImplementsLedger
<1>1. Init => Ledger!Init
  BY InitSound
<1>2. TrainerInv /\ [Next]_vars => [Ledger!Next]_<<trained, HeldRecords, cursor, Moments>>
  BY NextAdvances DEF Advances, LedgerStep
<1> QED
  BY <1>1, <1>2, TrainerInvariance, PTL DEF Spec, ImplementsLedger, Ledger!Spec, Moments

=============================================================================
