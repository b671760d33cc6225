---------------------------- MODULE PipelineSteps ----------------------------
(***************************************************************************)
(* The vocabulary of a pipeline schedule: what a schedule is built for, its *)
(* steps, and the physical rank a virtual stage lives on.                   *)
(*                                                                         *)
(* A shape is a record of the constructor arguments of a schedule:          *)
(*   style       "gpipe", "1f1b" or "interleaved"                           *)
(*   ranks       number of physical ranks          (real_stage_num, P)      *)
(*   chunks      stages per rank                   (n_local_stages, V)      *)
(*   micros      number of micro batches           (micro_batch_num, M)     *)
(*   lessMemory, overlapBF, dxdw                   flags of interleaved     *)
(*   transport   "auto", "plain", "batch", "boundary" or "multi_stream"     *)
(*   overlapP2P  waits of a receive are left to the step that consumes it   *)
(*   dynShape    tensor metadata are exchanged for every micro batch        *)
(*   dataIter    run_with_dataiterator: DATA steps move the micro batches   *)
(*   callback    a registered function runs the two halves of an overlap    *)
(*               concurrently                                               *)
(*   fsdp        the parameters of every stage are fully sharded            *)
(*   swap        activations are swapped to the host                        *)
(* Ranks, stages and micro batches count from 0 as in the code.             *)
(***************************************************************************)
EXTENDS Integers, Sequences

\* Types of the steps that move tensors between ranks, and of their receives.
P2PTypes == {"FWD_SEND", "FWD_RECV", "BWD_SEND", "BWD_RECV"}
RecvTypes == {"FWD_RECV", "BWD_RECV"}

\* MetaStep: a step of one stage and one micro batch ...
MetaStep(type, stage, micro) ==
  [type |-> type, stage |-> stage, micro |-> micro, subs |-> <<>>, boundary |-> <<>>]

\* ... or a composite of other steps; a boundary list may hang on an overlap.
Composite(type, subs, boundary) ==
  [type |-> type, stage |-> -1, micro |-> -1, subs |-> subs, boundary |-> boundary]

\* None in an order: a time slot in which the rank does nothing.
Bubble == MetaStep("BUBBLE", -1, -1)
Bubbles(n) == [i \in 1..n |-> Bubble]

IsP2P(step) == step.type \in P2PTypes
IsOverlap(step) == step.type = "OVERLAP_B_F"

\* A sequence that is there only under a condition.
When(condition, seq) == IF condition THEN seq ELSE <<>>

StageNum(shape) == shape.ranks * shape.chunks
Ranks(shape) == 0..shape.ranks - 1
Stages(shape) == 0..StageNum(shape) - 1
Micros(shape) == 0..shape.micros - 1

\* generate_stage_to_rank_mapping, style "loop": the one every schedule uses.
RankOf(shape, stage) == stage % shape.ranks

LowerOf(a, b) == IF a < b THEN a ELSE b
UpperOf(a, b) == IF a > b THEN a ELSE b

==============================================================================
