--------------------------- MODULE SampleExchange ---------------------------
(***************************************************************************)
(* How sampled groups travel in asynchronous RL: the ExperienceBuffer of   *)
(* rank 0 (rl/fully_async/protocol.py), the AsyncRuntime that pumps it and *)
(* the spawned producer FullyAsyncRollouter                                *)
(* (rl/fully_async/fully_async_rollouter.py).  The two trainers that own   *)
(* the buffer are FullyAsyncTrainer and ColocateAsyncTrainer.              *)
(*                                                                         *)
(* Tasks go down a control pipe; finished groups come back on a queue and  *)
(* everything else on the pipe, so that the two are not ordered.  The      *)
(* inference server is what VersionedInference promises: while it is open  *)
(* a segment runs under the one policy it serves.  A policy version is its *)
(* source update plus one and is not kept beside it.                       *)
(***************************************************************************)
EXTENDS Integers, FiniteSets, Sequences, SequencesExt

CONSTANTS Required,      \* groups of one global batch
          MaxBuffer,     \* max_buffer_groups
          MaxInflight,   \* max_inflight_groups
          Lag,           \* max_policy_lag_updates
          MaxDiscards,   \* bound: groups that fail after their retries
          None           \* no value

\* AsyncTrainingConfig.from_mapping and validate_async_config.
ASSUME CapacityAssumption ==
  /\ {Required, MaxBuffer, MaxInflight, Lag} \subseteq Nat \ {0}
  /\ MaxInflight <= MaxBuffer
  /\ Required <= MaxBuffer
  /\ MaxDiscards \in Nat

\* `None' is no position of the source.
ASSUME NoneAssumption == None \notin Nat

VARIABLES
  buf,        \* ExperienceBuffer, and AsyncRuntime.messages as `mail'
  pipe,       \* control pipe towards the producer
  working,    \* FullyAsyncRollouter.groups
  results,    \* queue of finished groups
  replies,    \* control pipe towards the trainer
  cursor,     \* prompt records the source has handed out
  open,       \* the server admits segments
  served,     \* source update of the policy it serves
  discards    \* failed groups so far, over all runs

producer == <<pipe, working, results, replies, cursor, discards>>
exchange == <<buf, producer, open, served>>

NoSource == -1

\* A group carries its task (id, src), the record its prompt was read from
\* and the oldest and the newest update that sampled an action of it.
Task(g) == [id |-> g.id, src |-> g.src]

\* The elements of a sequence that are in S, in their order.
Among(s, S) ==
  LET kept[n \in 0 .. Len(s)] == IF n = 0 THEN <<>>
                                 ELSE IF s[n] \in S THEN Append(kept[n - 1], s[n])
                                 ELSE kept[n - 1]
  IN  kept[Len(s)]

EmptyBuffer == [next |-> 0, reserved |-> {}, ready |-> <<>>, selected |-> {},
                consumed |-> 0, dropped |-> 0, mail |-> None, fault |-> FALSE]

Raise(b) == [b EXCEPT !.fault = TRUE]

----------------------------------------------------------------------------
(***************************************************************************)
(* The buffer.  An operator returns the buffer after the call; `fault' is  *)
(* an exception on its way to the trainer.                                 *)
(***************************************************************************)
\* Faulty variant: a reservation looks at the in-flight limit only.
CapacityInflight(b) == {MaxInflight - Cardinality(b.reserved)}

Capacity(b) == {MaxBuffer - Cardinality(b.reserved) - Len(b.ready),
                MaxInflight - Cardinality(b.reserved)}

\* fill reserves until reserve returns None.
Granted(b, src) ==
  LET room == CHOOSE k \in Capacity(b) : \A j \in Capacity(b) : k <= j
  IN  [i \in 1 .. room |-> [id |-> b.next + i - 1, src |-> src]]

Reserve(b, tasks) == [b EXCEPT !.next = @ + Len(tasks),
                               !.reserved = @ \cup ToSet(tasks)]

\* accept, after the producer's encode: the first action is no older than
\* the task (validate_behavior).
Accept(b, g) ==
  IF Task(g) \notin b.reserved \/ g.old < g.src
  THEN Raise(b)
  ELSE [b EXCEPT !.reserved = @ \ {Task(g)}, !.ready = Append(@, g)]

\* Faulty variant: a failed group keeps its reservation.
DiscardKeepingCredit(b, t) == IF t \notin b.reserved THEN Raise(b)
                              ELSE [b EXCEPT !.dropped = @ + 1]

Discard(b, t) == IF t \notin b.reserved THEN Raise(b)
                 ELSE [b EXCEPT !.reserved = @ \ {t}, !.dropped = @ + 1]

Reply(b, m) == CASE m.kind = "discarded" -> Discard(b, m.task)
                 [] m.kind = "error"     -> Raise(b)
                 [] m.kind = "snapshot"  -> [b EXCEPT !.mail = m.cursor]

\* AsyncRuntime.pump: the queue first, then the pipe.
Pumped(b) ==
  LET accepted[n \in 0 .. Len(results)] ==
        IF n = 0 THEN b ELSE Accept(accepted[n - 1], results[n])
      answered[n \in 0 .. Len(replies)] ==
        IF n = 0 THEN accepted[Len(results)] ELSE Reply(answered[n - 1], replies[n])
  IN  answered[Len(replies)]

\* Faulty variant: the newest action gives a group its age.
StaleByNewest(g, update) == update - g.new > Lag

Stale(g, update) == update - g.old > Lag

Evicted(b, update) ==
  IF b.selected # {} \/ \E i \in 1 .. Len(b.ready) : b.ready[i].new > update
  THEN Raise(b)
  ELSE LET kept == Among(b.ready, {g \in ToSet(b.ready) : ~Stale(g, update)})
       IN  [b EXCEPT !.ready = kept,
                     !.dropped = @ + Len(b.ready) - Len(kept)]

\* The oldest admissions first: a dict keeps the order of insertion.
Leased(b) ==
  IF b.selected # {} \/ Len(b.ready) < Required
  THEN Raise(b)
  ELSE [b EXCEPT !.selected = {b.ready[i].id : i \in 1 .. Required}]

Batch(b) == {g \in ToSet(b.ready) : g.id \in b.selected}

Unleased(b) == Among(b.ready, {g \in ToSet(b.ready) : g.id \notin b.selected})

Committed(b) ==
  IF b.selected = {} THEN Raise(b)
  ELSE [b EXCEPT !.ready = Unleased(b), !.selected = {},
                 !.consumed = @ + Cardinality(b.selected)]

\* state_dict, together with the source cursor of snapshot().
Exported(b, position) == [next |-> b.next, ready |-> b.ready, cursor |-> position,
                          consumed |-> b.consumed, dropped |-> b.dropped]

Restorable(s) ==
  /\ \A i, j \in 1 .. Len(s.ready) : i # j => s.ready[i].id # s.ready[j].id
  /\ \A i \in 1 .. Len(s.ready) : s.ready[i].id < s.next
  /\ Len(s.ready) <= MaxBuffer
  /\ s.next = s.consumed + s.dropped + Len(s.ready)

\* load_state_dict into a new buffer.
Restored(s) == [EmptyBuffer EXCEPT !.next = s.next, !.ready = s.ready,
                                   !.consumed = s.consumed, !.dropped = s.dropped,
                                   !.fault = ~Restorable(s)]

----------------------------------------------------------------------------
(***************************************************************************)
(* The producer.  One iteration of run reads a command and collects the    *)
(* groups whose candidates have all ended; the candidates of a group are   *)
(* one thing, which samples segment after segment.                         *)
(***************************************************************************)
Complaint == [kind |-> "error"]

TakeTask ==
  /\ pipe # <<>> /\ Head(pipe).kind = "task"
  /\ pipe' = Tail(pipe)
  /\ IF Cardinality(working) >= MaxInflight
     THEN replies' = Append(replies, Complaint) /\ UNCHANGED <<working, cursor>>
     ELSE LET t == Head(pipe).task
          IN  /\ working' = working \cup {[id |-> t.id, src |-> t.src, record |-> cursor,
                                           old |-> NoSource, new |-> NoSource]}
              /\ cursor' = cursor + 1
              /\ UNCHANGED replies
  /\ UNCHANGED <<buf, results, open, served, discards>>

TakeSnapshot ==
  /\ pipe # <<>> /\ Head(pipe).kind = "snapshot"
  /\ pipe' = Tail(pipe)
  /\ replies' = Append(replies, IF working # {} THEN Complaint
                                ELSE [kind |-> "snapshot", cursor |-> cursor])
  /\ UNCHANGED <<buf, working, results, cursor, open, served, discards>>

\* A segment under a policy that has sampled nothing of this group yet; more
\* of the same policy change neither age.
Segment(g) ==
  /\ open /\ g.new # served
  /\ working' = (working \ {g}) \cup
       {[g EXCEPT !.old = IF @ = NoSource THEN served ELSE @, !.new = served]}
  /\ UNCHANGED <<buf, pipe, results, replies, cursor, open, served, discards>>

Finish(g) ==
  /\ g.old # NoSource /\ Len(results) < MaxBuffer
  /\ results' = Append(results, g)
  /\ working' = working \ {g}
  /\ UNCHANGED <<buf, pipe, replies, cursor, open, served, discards>>

Fail(g) ==
  /\ discards < MaxDiscards
  /\ discards' = discards + 1
  /\ replies' = Append(replies, [kind |-> "discarded", task |-> Task(g)])
  /\ working' = working \ {g}
  /\ UNCHANGED <<buf, pipe, results, cursor, open, served>>

\* What the producer does of itself.
Produce == TakeTask \/ TakeSnapshot \/ \E g \in working : Segment(g) \/ Finish(g)

----------------------------------------------------------------------------
(***************************************************************************)
(* What a trainer step does to the exchange.                               *)
(***************************************************************************)
Received == results' = <<>> /\ replies' = <<>>

\* fill after its pump: reserve and send.
Fill(b, src) == Reserve(b, Granted(b, src))
Send(b, src) == pipe' = pipe \o [i \in 1 .. Len(Granted(b, src)) |->
                                  [kind |-> "task", task |-> Granted(b, src)[i]]]

\* The processes of the job are gone, or were never started.
Quiet == pipe' = <<>> /\ working' = {} /\ results' = <<>> /\ replies' = <<>>

InitExchange == /\ buf = EmptyBuffer
                /\ pipe = <<>> /\ working = {} /\ results = <<>> /\ replies = <<>>
                /\ cursor = 0 /\ discards = 0
                /\ open = FALSE /\ served = 0

----------------------------------------------------------------------------
\* Groups the producer or the buffer holds.
Held == working \cup ToSet(results) \cup ToSet(buf.ready)
HeldRecords == {g.record : g \in Held}

\* Places of the pipe that hold a task.
Unread == {i \in DOMAIN pipe : pipe[i].kind = "task"}

\* Every identity ends consumed or dropped, or holds exactly one credit, and
\* every identity the producer has taken has read exactly one record
\* (ExperienceBuffer, "Own all admitted identities until consumption or
\* explicit stale eviction").  A failed group in a reply still holds one.  The
\* credits of what is reserved, ready or leased never exceed the capacity.
CreditsBalance ==
  /\ buf.next = buf.consumed + buf.dropped + Len(buf.ready) + Cardinality(buf.reserved)
  /\ buf.next = cursor + Cardinality(Unread)
  /\ Cardinality(HeldRecords) = Cardinality(working) + Len(results) + Len(buf.ready)
  /\ Cardinality(buf.reserved) <= MaxInflight
  /\ Cardinality(buf.reserved) + Len(buf.ready) <= MaxBuffer
=============================================================================
