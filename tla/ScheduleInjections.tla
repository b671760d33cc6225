------------------------- MODULE ScheduleInjections -------------------------
(***************************************************************************)
(* build_exec_order: what is put into the order of a rank once computation *)
(* and communication are there.  The control steps of fully sharded        *)
(* parameters come first, then the transport rewrites the communication,   *)
(* then the transfers of activation swap are placed around what stands     *)
(* (core/pipeline_parallel/scheduler.py and pipeline_swap.py).             *)
(***************************************************************************)
EXTENDS ScheduleComms

ComputeTypes == {"FWD", "BWD", "BWD_INPUT", "BWD_WEIGHT"}
FsdpTypes == {"FSDP_UNSHARD", "FSDP_RESHARD", "FSDP_REDUCE_GRAD"}
SwapTypes == {"SWAP_LAUNCH_OFFLOAD", "SWAP_WAIT_OFFLOAD", "SWAP_LAUNCH_LOAD", "SWAP_WAIT_LOAD"}

\* The computations of a step: its own, or those of an overlap.
Leaves(step) ==
  IF IsOverlap(step) THEN step.subs ELSE When(step.type \in ComputeTypes, <<step>>)
Chunk(step) == <<step.stage, step.micro>>

-----------------------------------------------------------------------------
(* Fully sharded parameters *)

\* max_active_stages
MaxActiveStages == 3

\* When a stage computes next, from index i on: 0 for never.
NextUse(order, stage, i) ==
  LET uses == {j \in i..Len(order) :
                 \E n \in DOMAIN Leaves(order[j]) : Leaves(order[j])[n].stage = stage}
      j == CHOOSE k \in uses : \A l \in uses : k <= l
  IN IF uses = {} THEN 0
     ELSE 2 * j + (IF Leaves(order[j])[1].stage = stage THEN 0 ELSE 1)

\* _next_active_stage_indices: the next distinct stages to compute, in that
\* order.  Every stage of the rank is managed.
NextActiveStages(order, i) ==
  LET stages == {x.stage : x \in UNION {ToSet(Leaves(order[j])) : j \in DOMAIN order}}
      use == [s \in stages |-> NextUse(order, s, i)]
      next == {s \in DOMAIN use :
                 /\ use[s] # 0
                 /\ Cardinality({t \in DOMAIN use : use[t] # 0 /\ use[t] < use[s]}) < MaxActiveStages}
  IN SetToSortSeq(next, LAMBDA s, t : use[s] < use[t])

FsdpSteps(type, stages) == [i \in DOMAIN stages |-> MetaStep(type, stages[i], -1)]

\* add_fsdp_unshard_reshard: in front of every step the stages that will not
\* compute soon are sharded, and those that will are gathered.  What is
\* gathered in front of a step is what was to be active there.
AddUnshardReshard(order) ==
  LET Active(i) == IF i = 0 THEN <<>> ELSE NextActiveStages(order, i)
      Without(seq, i) == SelectSeq(seq, LAMBDA s : s \notin ToSet(Active(i)))
  IN FlattenSeq([i \in DOMAIN order |->
       FsdpSteps("FSDP_RESHARD", Without(Active(i - 1), i))
         \o FsdpSteps("FSDP_UNSHARD", Without(Active(i), i - 1)) \o <<order[i]>>])
     \o FsdpSteps("FSDP_RESHARD", Active(Len(order)))

\* Faulty variant: behind the backward of the first micro batch.
AddReduceGradFirst(shape, order) ==
  LET ends(step) == SelectSeq(Leaves(step), LAMBDA x :
        x.type \in {"BWD", "BWD_WEIGHT"} /\ x.micro = 0)
  IN FlattenSeq([i \in DOMAIN order |->
       <<order[i]>> \o [j \in DOMAIN ends(order[i]) |->
                          MetaStep("FSDP_REDUCE_GRAD", ends(order[i])[j].stage, -1)]])

\* add_fsdp_reduce_grad: behind the backward of the last micro batch.
AddReduceGrad(shape, order) ==
  LET ends(step) == SelectSeq(Leaves(step), LAMBDA x :
        x.type \in {"BWD", "BWD_WEIGHT"} /\ x.micro = shape.micros - 1)
  IN FlattenSeq([i \in DOMAIN order |->
       <<order[i]>> \o [j \in DOMAIN ends(order[i]) |->
                          MetaStep("FSDP_REDUCE_GRAD", ends(order[i])[j].stage, -1)]])

InjectFsdp(shape, order) ==
  IF shape.fsdp
  THEN After(AddUnshardReshard(order), LAMBDA o : AddReduceGrad(shape, o)) ELSE order

-----------------------------------------------------------------------------
(* Activation swap *)

\* Faulty variant: any chunk with a computation between its forward and backward.
AnySwapGap == 2

MIN_SWAP_GAP == 4

IsComm(step) == IsP2P(step) \/ step.type = "BATCH_SEND_RECV"

\* _collect_compute_leaves: where the computations stand, an overlap once.
Containers(order) == SelectSeq([i \in DOMAIN order |-> i], LAMBDA i : Leaves(order[i]) # <<>>)

\* The slots, among the containers, that compute something for a chunk.
HasLeaf(step, types, chunk) ==
  \E i \in DOMAIN Leaves(step) : /\ Leaves(step)[i].type \in types
                                 /\ Chunk(Leaves(step)[i]) = chunk
SlotsOf(order, containers, types, chunk) ==
  {j \in DOMAIN containers : HasLeaf(order[containers[j]], types, chunk)}

\* _comm_block_anchor: the end of the communication that follows index i.
CommBlockEnd(order, i) ==
  CHOOSE j \in i..Len(order) : /\ \A k \in i + 1..j : IsComm(order[k])
                               /\ j = Len(order) \/ ~IsComm(order[j + 1])

\* _post_compute_anchor: the communication that sends the result of the step
\* at i, alone or in a batch, or else the end of the block.
Sends(step, type, chunk) ==
  LET subs == IF step.type = "BATCH_SEND_RECV" THEN step.subs ELSE <<step>>
  IN \E k \in DOMAIN subs : subs[k].type = type /\ Chunk(subs[k]) = chunk
PostComputeAnchor(order, i) ==
  LET step == order[i]
      block == i + 1..CommBlockEnd(order, i)
      sends == CASE step.type = "FWD" -> {j \in block : Sends(order[j], "FWD_SEND", Chunk(step))}
                 [] step.type \in {"BWD", "BWD_INPUT"} ->
                      {j \in block : Sends(order[j], "BWD_SEND", Chunk(step))}
                 [] OTHER -> {}
  IN IF sends = {} THEN CommBlockEnd(order, i)
     ELSE CHOOSE j \in sends : \A k \in sends : j <= k

\* _load_launch_anchor: one computation ahead of the backward, or in front of
\* the last gathering of its stage's parameters.
LoadLaunchAnchor(order, stage, forward, before, backward) ==
  LET gathers == {i \in forward + 1..backward - 1 :
                    order[i].type = "FSDP_UNSHARD" /\ order[i].stage = stage}
  IN CASE \A i \in DOMAIN order : order[i].type \notin FsdpTypes -> before
       [] gathers # {} -> CHOOSE i \in gathers : \A j \in gathers : j <= i
       [] OTHER -> backward

\* _chunk_swap_actions: behind the forward the offload starts, one computation
\* later its memory is given up, the load starts, and in front of the backward
\* its end is awaited.  The weight half of a split backward is no consumer
\* (_index_compute_leaves).
ChunkSwapActions(order, containers, forward) ==
  LET chunk == Chunk(forward)
      f == CHOOSE j \in SlotsOf(order, containers, {"FWD"}, chunk) : TRUE
      consumers == SlotsOf(order, containers, {"BWD", "BWD_INPUT"}, chunk)
      b == CHOOSE j \in consumers : TRUE
  IN When(consumers # {} /\ b - f >= MIN_SWAP_GAP,
          <<[stage |-> forward.stage, micro |-> forward.micro,
             launchOffload |-> containers[f],
             waitOffload |-> PostComputeAnchor(order, containers[f + 1]),
             launchLoad |-> LoadLaunchAnchor(order, forward.stage, containers[f],
                                             containers[b - 1], containers[b]),
             waitLoad |-> containers[b]]>>)

\* inject_pipeline_swap_steps
InjectSwap(shape, order) ==
  LET containers == Containers(order)
      forwards == SelectSeq(FlattenSeq([j \in DOMAIN containers |-> Leaves(order[containers[j]])]),
                            LAMBDA x : x.type = "FWD")
      place(actions) ==
        LET at(field, type, i) ==
              LET here == SelectSeq(actions, LAMBDA x : x[field] = i)
              IN [n \in DOMAIN here |-> MetaStep(type, here[n].stage, here[n].micro)]
        IN FlattenSeq([i \in DOMAIN order |->
             at("launchLoad", "SWAP_LAUNCH_LOAD", i) \o at("waitLoad", "SWAP_WAIT_LOAD", i)
               \o <<order[i]>>
               \o at("launchOffload", "SWAP_LAUNCH_OFFLOAD", i)
               \o at("waitOffload", "SWAP_WAIT_OFFLOAD", i)])
  IN IF shape.swap
     THEN After(FlattenSeq([n \in DOMAIN forwards |->
                              ChunkSwapActions(order, containers, forwards[n])]), place)
     ELSE order

-----------------------------------------------------------------------------
(* build_exec_order *)

ApplyTransport(shape, order) ==
  CASE Transport(shape) = "boundary" -> AttachBoundary(order)
    [] Transport(shape) \in {"batch", "multi_stream"} -> CoalesceP2P(order)
    [] OTHER -> order

BuildExecOrder(shape) ==
  LET passes(order) ==
        After(After(After(order, LAMBDA o : InjectFsdp(shape, o)),
                    LAMBDA o : ApplyTransport(shape, o)),
              LAMBDA o : InjectSwap(shape, o))
  IN After(ConstructExecOrder(shape), LAMBDA orders :
       PerRank(shape, LAMBDA r : passes(orders[r + 1])))

=============================================================================
