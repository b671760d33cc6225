---------------------------- MODULE ScheduleOrders ----------------------------
(***************************************************************************)
(* The order in which every rank executes its steps, as the schedule        *)
(* classes construct it: GPipe and 1F1B with their communication written    *)
(* out, interleaved 1F1B as computation and bubbles only (communication is  *)
(* added by ScheduleComms).                                                 *)
(***************************************************************************)
EXTENDS PipelineSteps, FiniteSets, SequencesExt

\* The steps that bring a micro batch to a stage and those that pass it on.
RecvForward(s, m) == <<MetaStep("DATA_RECV", s, m), MetaStep("FWD_RECV", s, m)>>
SendForward(s, m) == <<MetaStep("DATA_SEND", s, m), MetaStep("FWD_SEND", s, m)>>

IsFirst(s) == s = 0
IsLast(shape, s) == s = StageNum(shape) - 1

\* ScheduleGPipe.construct_exec_order: every forward, then every backward.
GPipeOrder(shape, s) ==
  LET forward(m) ==
        <<MetaStep("DATA_LOAD", s, m)>>
          \o When(~IsFirst(s), RecvForward(s, m))
          \o <<MetaStep("FWD", s, m)>>
          \o When(~IsLast(shape, s), SendForward(s, m))
      backward(m) ==
        When(~IsLast(shape, s), <<MetaStep("BWD_RECV", s, m)>>)
          \o <<MetaStep("BWD", s, m)>>
          \o When(~IsFirst(s), <<MetaStep("BWD_SEND", s, m)>>)
  IN FlattenSeq([i \in 1..shape.micros |-> forward(i - 1)])
       \o FlattenSeq([i \in 1..shape.micros |-> backward(i - 1)])

(***************************************************************************)
(* Schedule1F1B.construct_exec_order.  Even stages send a micro batch right *)
(* after its forward, odd ones right before the next forward; the last of   *)
(* the warm-up is sent in the first gap after it.                           *)
(***************************************************************************)

WarmupForwards(shape, s) == LowerOf(shape.ranks - s, shape.micros)
Overfull(shape, s) == shape.ranks - s > shape.micros
WarmStep(shape, s, m) ==
  <<MetaStep("DATA_LOAD", s, m)>>
    \o When(~IsFirst(s), RecvForward(s, m))
    \o (IF s % 2 = 0
        THEN <<MetaStep("FWD", s, m)>>
               \o When(m # WarmupForwards(shape, s) - 1, SendForward(s, m))
        ELSE When(m > 0, SendForward(s, m - 1)) \o <<MetaStep("FWD", s, m)>>)
\* Faulty variant: the gradient is sent before it is computed.
SteadyStepEarlyGradient(shape, s, b, f) ==
  When(~IsLast(shape, s), <<MetaStep("BWD_RECV", s, b)>> \o SendForward(s, f - 1))
    \o When(~IsFirst(s), <<MetaStep("BWD_SEND", s, b)>> \o RecvForward(s, f))
    \o <<MetaStep("BWD", s, b), MetaStep("DATA_LOAD", s, f), MetaStep("FWD", s, f)>>

\* The backward of b and the forward of f; the forward before f is sent here.
SteadyStep(shape, s, b, f) ==
  When(~IsLast(shape, s), <<MetaStep("BWD_RECV", s, b)>> \o SendForward(s, f - 1))
    \o <<MetaStep("BWD", s, b), MetaStep("DATA_LOAD", s, f)>>
    \o When(~IsFirst(s), <<MetaStep("BWD_SEND", s, b)>> \o RecvForward(s, f))
    \o <<MetaStep("FWD", s, f)>>
CoolStep(shape, s, b, sendsLast) ==
  When(~IsLast(shape, s), <<MetaStep("BWD_RECV", s, b)>>
                            \o When(sendsLast, SendForward(s, shape.micros - 1)))
    \o <<MetaStep("BWD", s, b)>>
    \o When(~IsFirst(s), <<MetaStep("BWD_SEND", s, b)>>)
OneFOneBOrder(shape, s) ==
  LET warmup == WarmupForwards(shape, s)
      steady == shape.micros - warmup
  IN FlattenSeq([i \in 1..warmup |-> WarmStep(shape, s, i - 1)])
       \o When(Overfull(shape, s), SendForward(s, warmup - 1))
       \o FlattenSeq([i \in 1..steady |-> SteadyStep(shape, s, i - 1, warmup + i - 1)])
       \o FlattenSeq([i \in 1..warmup |->
            CoolStep(shape, s, steady + i - 1, i = 1 /\ ~Overfull(shape, s))])

-----------------------------------------------------------------------------
(* Interleaved 1F1B.  The forwards of a rank are numbered by op: rounds of   *)
(* RoundSize micro batches, each taken through the chunks one after another. *)

\* _init_round_layout.
RoundCount(shape) == UpperOf(1, shape.micros \div shape.ranks)
RoundExtra(shape) == shape.micros % shape.ranks
RoundSize(shape, i) ==
  IF shape.micros < shape.ranks THEN shape.micros
  ELSE shape.ranks + RoundExtra(shape) \div RoundCount(shape)
         + (IF i < RoundExtra(shape) % RoundCount(shape) THEN 1 ELSE 0)
\* n_microbatch_per_round_accu[i]: ops of the first i rounds.
RoundStart(shape, i) ==
  IF shape.micros < shape.ranks THEN i * shape.micros * shape.chunks
  ELSE shape.chunks * (i * (shape.ranks + RoundExtra(shape) \div RoundCount(shape))
                         + LowerOf(i, RoundExtra(shape) % RoundCount(shape)))

\* forward_stage_index, backward_stage_index: the round by bisection, the
\* chunk by the place of the op in its round.
ChunkOf(shape, op) ==
  LET round == CHOOSE i \in 0..RoundCount(shape) - 1 :
                 RoundStart(shape, i) <= op /\ op < RoundStart(shape, i + 1)
  IN (op - RoundStart(shape, round)) \div RoundSize(shape, round)
\* fwd_stage_micro_index / bwd_stage_micro_index: how many earlier ops were of
\* the same stage.
MicroOf(shape, op) ==
  Cardinality({o \in 0..op - 1 : ChunkOf(shape, o) = ChunkOf(shape, op)})
ForwardOp(shape, rank, op) ==
  MetaStep("FWD", ChunkOf(shape, op) * shape.ranks + rank, MicroOf(shape, op))
BackwardOp(shape, rank, op) ==
  MetaStep("BWD", (shape.chunks - 1 - ChunkOf(shape, op)) * shape.ranks + rank,
           MicroOf(shape, op))

\* Faulty variant: less_memory does not reach the warm-up.
DepthOfClassic(shape, rank) == 2 * (shape.ranks - 1 - rank)

\* The stagger of a rank and warmup_ops.
Depth(shape, rank) ==
  (IF shape.lessMemory THEN 1 ELSE 2) * (shape.ranks - 1 - rank)
WarmupOps(shape, rank) ==
  LowerOf((shape.chunks - 1) * RoundSize(shape, 0) + Depth(shape, rank),
          shape.micros * shape.chunks)

\* With fewer micro batches than ranks a rank waits for the ones that are missing.
Short(shape) == shape.micros < shape.ranks
MissingMicros(shape) == shape.ranks - shape.micros
IsLastMicro(shape, step) == step.micro = shape.micros - 1
IsLastRank(shape, rank) == rank = shape.ranks - 1

\* _emit_warmup_ops
WarmupPhase(shape, rank) ==
  LET warmup == WarmupOps(shape, rank)
      slot(op) ==
        LET step == ForwardOp(shape, rank, op)
            pad == /\ Short(shape) /\ IsLastMicro(shape, step)
                   /\ op # warmup - 1 \/ IsLastRank(shape, rank)
        IN <<step>> \o When(pad, Bubbles(MissingMicros(shape)))
  IN FlattenSeq([i \in 1..warmup |-> slot(i - 1)])

\* _emit_1f1b_ops: a forward and a backward in turn.
SteadyPhase(shape, rank, warmup, count) ==
  LET pair(op) ==
        LET back == BackwardOp(shape, rank, op)
            pad == Short(shape) /\ IsLastMicro(shape, back) /\ IsLastRank(shape, rank)
        IN <<ForwardOp(shape, rank, warmup + op), back>>
             \o When(pad, Bubbles(2 * MissingMicros(shape)))
  IN FlattenSeq([i \in 1..count |-> pair(i - 1)])

\* _emit_1f1b_overlap_ops, _pair_into_overlap_b_f: F1, [B1, F2], ..., Bn.
OverlapPhase(shape, rank, warmup, count) ==
  LET back(op) == BackwardOp(shape, rank, op)
      pairs == [i \in 1..count - 1 |->
                  Composite("OVERLAP_B_F",
                            <<back(i - 1), ForwardOp(shape, rank, warmup + i)>>, <<>>)]
      pad == /\ Short(shape) /\ IsLastRank(shape, rank)
             /\ IsLastMicro(shape, back(count - 1))
  IN When(count > 0, <<ForwardOp(shape, rank, warmup)>> \o pairs \o <<back(count - 1)>>
                       \o When(pad, Bubbles(2 * MissingMicros(shape))))

\* _emit_cooldown_ops: the remaining backwards, a bubble in front of each.
CooldownPhase(shape, rank, warmup, count) ==
  LET slot(op) ==
        LET step == BackwardOp(shape, rank, op)
            pad == Short(shape) /\ IsLastMicro(shape, step)
        IN <<Bubble, step>> \o When(pad, Bubbles(2 * MissingMicros(shape)))
  IN FlattenSeq([i \in 1..warmup |-> slot(count + i - 1)])

\* construct_stage_exec_order
InterleavedOrder(shape, rank) ==
  LET warmup == WarmupOps(shape, rank)
      count == shape.chunks * shape.micros - warmup
  IN Bubbles(rank)
       \o WarmupPhase(shape, rank)
       \o Bubbles(UpperOf(0, Depth(shape, rank) - shape.micros))
       \o Bubbles(shape.ranks - 1 - rank)
       \o (IF shape.overlapBF THEN OverlapPhase(shape, rank, warmup, count)
           ELSE SteadyPhase(shape, rank, warmup, count))
       \o CooldownPhase(shape, rank, warmup, count)

==============================================================================
