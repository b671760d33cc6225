# hyper_parallel: a verification project

`hyper_parallel` is a distributed training library: schedules that spread the
stages of a network over ranks (pipeline parallelism), windows in which one
micro batch's communication hides behind another's computation, parameter
sharding, activation swapping, checkpoints written in the background, and
reinforcement-learning loops in which sampling and training run side by side.

This directory holds TLA+ models of its concurrent core, the TLC configurations
that check them and the TLAPS proofs about them. Every definition is translated
from the source; `PROJECT.json` names the lines each one stands for, the runs,
the deviations that the properties detect, the hazards and the theorems.

1. [What the system consists of](#1-what-the-system-consists-of)
2. [The plan](#2-the-plan)
3. [The modules and the code](#3-the-modules-and-the-code)
4. [The runs](#4-the-runs)
5. [Where code and documentation disagree](#5-where-code-and-documentation-disagree)
6. [Fairness](#6-fairness)
7. [What is proved](#7-what-is-proved)
8. [What is not modelled](#8-what-is-not-modelled)

Paths below are relative to `src/hyper_parallel/`; `pp/` stands for
`core/pipeline_parallel/`.

## 1. What the system consists of

### Overlap window: `pp/hook_coordinator.py`, `comm_compute_overlap.py`, `_sync_hook.py`

*State.* A `HookCoordinator` shared by two Python threads: the flags `_enabled`
and `_departed`, a `threading.Barrier(2)`, the event of the current round
(`_comm_dispatched`), a thread-local event (`_my_event`), the number of COMM
callers of the round (`_pending_comm`) and whether the round had one
(`_round_had_comm`).

*Operations.* `enable`, `disable`, `depart`, `rendezvous(role)`,
`notify_dispatched(role)`; `CommComputeOverlap.run(fwd_fn, bwd_fn)`, which runs a
forward chunk on the calling thread and a backward chunk on a new one; the
autograd hooks A, B, C, D and D_LAST, which fire the first two calls around
every dispatch and combine of a mixture-of-experts layer.

*Interaction.* Shared memory only. The schedule's overlap step calls `run`; the
hooks call the coordinator from whichever thread executes the layer, including
the backward thread when a checkpointed layer is recomputed there.

*Hard.* The two threads meet at a barrier but publish, read and set the event
outside of it, without a lock; `depart` takes effect in three steps; a chunk may
raise anywhere between two hooks; the two chunks may differ in length.

*Correct when* a COMPUTE op is never launched before the COMM op it is paired
with, no thread waits for an event of another round, no mutual wait is
possible, every op is launched, and `run` always returns and reports what failed.

### Pipeline schedules and runtime: `pp/scheduler.py`, `stage.py`, `_stage.py`, `_p2p.py`, `utils.py`

*State.* Per rank an order of `MetaStep`s, built from the schedule's parameters;
while it is executed: the caches of handles not waited for, and per stage the
caches of outputs, of autograd graphs, of input gradients and of unfinished
weight halves, the buffers tensors are received into, and which metadata have
been exchanged.

*Operations.* Constructing the order (GPipe, 1F1B, interleaved 1F1B; insertion
of communication; split of a backward into an input and a weight half;
coalescing or hoisting of point-to-point operations); executing every kind of
step; draining what is in flight at the end of a run and on the error path.

*Interaction.* Ranks build their orders independently and exchange tensors by
point-to-point operations *without tags*: which send meets which receive is
decided by the two launch orders. An overlap step may run its two halves in an
overlap window.

*Hard.* The two ends of every pair must agree on order and batching although
nobody compares them; blocking waits inline turn a wrong order into a deadlock;
buffers and caches are keyed by micro batch and reused by the next run; a
rank that raises leaves peers behind.

*Correct when* every transfer delivers what the receiver means, no two ends
face each other unfit, every forward and backward happens once and in data-flow order,
nothing is missing, memory is bounded as the schedule says, each run leaves the
caches clean, and an error surfaces.

### Background checkpoint: `core/distributed_checkpoint/`, `components/checkpoint/`, `trainer/callbacks/`

*State.* Per rank the training loop with its pending save (`persist_completion`)
and the step saved last; a child process with a result queue; a thread that
joins the child, completes a future and, on rank 0, writes the latest pointer;
the plan cache. On storage, per step, the files `LOCAL_PLAN_<rank>` and
`STORAGE_DATA_<rank>` through which ranks exchange plans and write results, the
shards and the metadata.

*Operations.* `on_step_end` and `on_train_end` (cadence, waiting, rotation, barrier,
dispatch), `async_save`, `_save_impl` in a child or in place, `gather_all_results_from_storage`
(write the own file, poll for the others'), `resolve_async_persist_result`,
`_publish_latest`, `find_latest_checkpoint` and the load at a restart.

*Interaction.* Ranks through files with a completion flag when a save runs in children,
through collectives when it runs in place; parent and child through a queue;
incarnations of a job through the directory.

*Hard.* Files of an earlier save under the same name, files read while they are
written, a child that dies before or after reporting, a crash between any two
files, rotation that deletes while a save writes, ranks that wait for their own save only.

*Correct when* the pointer names nothing but whole checkpoints and a restart resumes from
no half-written one (section 5 says where the code falls short of both), two saves never
overlap on any rank, rotation deletes nothing that a save or a restart needs,
each future completes once and truthfully, and the job ends or comes down.

### Asynchronous reinforcement learning: `rl/rl/fully_async/`, `colocate_async/`, `weight_sync/`, `checkpoint.py`

*State.* Trainer: optimizer step, published version, the step it was published
at; the `ExperienceBuffer` of credits (reserved, ready, selected); the sampler
process with a control pipe and a bounded result queue; in the inference server
the admission flag, the number of active calls and the committed version.
On disk, the model checkpoint, the asynchronous state and its manifest.

*Operations.* Admit tasks, generate candidates with retries, accept or discard
groups, evict stale ones, select and commit a batch or reject groups of it, publish
weights between `pause` and `resume`, snapshot and commit, resolve and load at a restart.

*Interaction.* Two message channels between trainer and sampler; HTTP requests
to the server; collective steps of all training ranks under `coordinator_call`.

*Hard.* Requests in flight while weights move; clients that give up and handlers that
do not hear of it; groups whose segments come from several versions; capacity shared
between three stages of a group's life; crashes between the parts of a commit;
results and acknowledgements on different channels.

*Correct when* a batch holds only groups within the policy lag, every identity
ends exactly once, no answer is stamped with a version that did not sample it,
weights never move under an active call, a prompt record enters the weights at
most once, the loop makes progress at full capacity, and a restart finds a
whole commit.

### Activation memory: `core/activation_memory/`, `pp/pipeline_swap.py`

*State.* The `PinnedMemoryPool`: its blocks, available, pending behind an event or
in use, and the bytes allocated. Per run of a pipeline a `PipelineSwapSession`; per chunk
(stage and micro batch) a swap group with the events of its offload and of its load
and the tensors the forward saved, each with its state (`device`, `d2h`, `host`,
`h2d`), device memory and host buffer. Two device streams.

*Operations.* `acquire` and `release` of the pool; building: `inject_pipeline_swap_steps`
places a launch and a wait of the offload behind a chunk's forward, a launch and a
wait of the load before its backward; running: the four steps, the forward that collects
tensors in a group, `close` at the end of a run, failed or not.

*Interaction.* The scheduler executes the swap steps between computation and communication. The
host enqueues copies on the copy stream and makes the streams wait for each other by events; the
pool asks the same events before it lends a block again. Layers swapped outside of a
pipeline use the same groups and pool from their own hooks, the pool from several threads.

*Hard.* Host, compute stream and copy stream run apart: memory is freed and reused on the
host while copies on it are still queued; a release takes effect later than its call; the pool gives up its
lock to allocate and to wait; a run may raise between any two steps of a transfer; the places of the steps are
computed from an order that other passes rewrite.

*Correct when* a backward reads what its forward saved, every step finds its tensor in the
state it takes over, no copy works on a buffer that is lent to somebody else, no block is lost or
lent twice, the bound is kept, and every buffer is back after a run.

### Parameter sharding, trainer

- `core/fully_shard/`: parameter groups are unsharded before use, resharded after
  it, prefetched ahead and their gradients reduced; in a pipeline by steps of the
  order (`scheduler.py:2714`, `2740`), otherwise by hooks. Correct when a parameter is
  whole whenever it is used and each gradient is reduced once per step.
- `trainer/runtime/data_iterator.py`: a thread prefetches batches and pairs each
  with the dataloader state after it. Correct when a checkpoint's state is that
  of the last consumed batch and `stop` ends the thread.
- `pp/mpipe/`: a modality encoder's micro batches rotate through the pipeline
  ranks before the main schedule.

### Other parts

Planners of automatic parallelism, graph passes, distributed tensors and operator
rules, tensor/context/expert parallel styles, optimizers, device kernels, model
definitions and tools are numeric or stateless: they compute functions of tensors,
layouts or costs and have no protocol of their own. `PROJECT.json` lists each
with its main files and the reason it is left out.

## 2. The plan

Ordered by how much of the library depends on a component and how little a test
can reach of it.

| step | modules | what for | state |
|------|---------|----------|-------|
| 1 | `HookCoordinator`, `SyncHook`, `CommComputeOverlap`, `CommFirstRendezvous` | the overlap window, and the abstract protocol it implements | checked and proved |
| 2 | `PipelineSteps`, `ScheduleOrders`, `ScheduleComms` | orders as operators | checked through step 3 |
| 3 | `PipelineRuntime`, `PipelineDataflow`, `PipelineProperties` | ranks and communication library executing the orders; the data flow they implement | checked |
| 4 | `PolicyAdmission` | the inference server around a publication; abstract: `VersionedInference` | checked and proved |
| 5 | `CheckpointSave` | a save and its exchange through files, over crashes and restarts; abstract: `CheckpointStore` | checked and proved |
| 6 | `SampleExchange`, `AsyncCheckpoint`, `AsyncLearner`, composed by `FullyAsyncTrainer` and by `ColocateAsyncTrainer` | the two asynchronous training loops and their commits; abstract: `ExperienceLedger` | checked and proved |
| 7 | `PinnedPool` | the pool of host buffers | checked and proved |
| 8 | `ScheduleInjections` | FSDP and swap steps injected into an order; extends step 2, executed by step 3 as far as it sends and receives | checked |
| 9 | `ActivationSwap`, over `PinnedPool` and `ScheduleInjections` | a rank with its streams executing those steps | checked; its host buffers proved |
| 10 | `PrefetchIterator` | the prefetching data iterator, one thread and a queue | planned |
| 11 | `ParameterGroup` | sharded parameter groups under their own hooks | planned |
| 12 | the mpipe rotation | extends steps 2 and 3 | planned |

Theorems, in the order of their worth. Done: every property of the overlap window but
its liveness, with the refinement; those of the inference server; those of the pool; those of the
checkpoints, with the refinement, over whatever a restart finds; that a swapped chunk's host buffer comes back, and, while no run
has failed, is touched by nobody else while a copy from or to it is queued; of both asynchronous training loops the lag of their
batches, the balance of the credits, the absence of exceptions, and the refinement. Planned: that on in-order communicators two mirrored launch
streams deliver each tensor to the receive that means it, for any number of ranks; the type
invariant of `PipelineRuntime`. Modules that are proved about use recursive functions or folds only, and no operator that takes
an operator where a proof would have to look inside: no installed prover can instantiate one.

## 3. The modules and the code

### Overlap window

| module | stands for |
|--------|------------|
| `HookCoordinator` | `hook_coordinator.py`: one action per step that touches what the other thread can see |
| `SyncHook` | `_sync_hook.py`: the sequence of hooks a chunk fires, forward and backward, with tagged last layers and recomputation |
| `CommComputeOverlap` | `comm_compute_overlap.py`: the two threads of a window, their hooks, launches, failures and the end of the window |
| `CommFirstRendezvous` | the abstract protocol: announce a role, launch in lockstep with COMM first, leave |
| `MCOverlap`, `MCOverlapPairs` | the windows that are checked, and which of them are in pairs |
| `CommComputeOverlap_proofs` | the theorems |

`pc[t]` is the place of thread `t` inside the coordinator. A rendezvous is the
sequence *enter* (the tests of the flags), *publish* (a COMM caller creates and
shares an event), *count*, *arrive* and *parked* (the barrier, whose state
`draining` is the time between the trip and the departure of the parked party),
*passed* (the role and `_round_had_comm` are read, the slot is loaded) and
*await*. After it the op is launched (`op` to `run`). `depart` and `disable` are
*flag*, *abort*, *load*, *release*. `_on_barrier_trip` runs inside the barrier and
is part of `ArriveLast`. `_state_lock` makes `enable`, the drop of a flag and
the increment of the counter single actions; `notify_dispatched` is one because
it reads only what belongs to its thread before it sets the event.

A window is a pair of hook sequences and a hook a pair of roles: the tensors are
left out. Recomputation re-fires the forward hooks of a layer on the backward
thread at the point where the first of its saved tensors is unpacked (`cut`),
completely or up to that tensor (`earlyStop`); which tensors an operation saves
is the model's business, so all cuts are allowed. A window is *in pairs* (`InPairs`) when calls of the same number have
different roles on the two threads, the calls of one thread alternate, and a COMM call is notified before the
next call of its thread: what `_sync_hook.py:26` promises of tagged last layers.

`CommComputeOverlap` implements `CommFirstRendezvous`: the variables `trail`, `disp`
and `left` map to themselves, all others are hidden.

### Pipeline

| module | stands for |
|--------|------------|
| `PipelineSteps` | `MetaStep`, step types, the mapping of stages to ranks |
| `ScheduleOrders` | `construct_exec_order` of GPipe and 1F1B, `construct_stage_exec_order` of interleaved 1F1B with its rounds, warm-up, overlap pairs, bubbles and cool-down |
| `ScheduleComms` | `add_send_recv`, `split_overlap_dxdw`, `coalesce_p2p`, `attach_fwd_boundary_p2p` |
| `ScheduleInjections` | `add_fsdp_unshard_reshard`, `add_fsdp_reduce_grad`, `inject_pipeline_swap_steps`, and `build_exec_order`, which applies all of these in turn |
| `PipelineRuntime` | `run_microbatches` and the `_exec_*` handlers over `PipelineStage`, on every rank |
| `PipelineDataflow` | the abstract pipeline: which computation may follow which, run by run |
| `PipelineProperties`, `MCPipeline` | properties; shapes to check |

A *shape* is the record of a schedule's parameters; one behaviour is one shape.
The orders are operators of the shape. Over 704 shapes (interleaved 1F1B on two to four ranks with up to two chunks and six
micro batches, with and without `less_memory`, `overlap_b_f` and the dx/dw split,
under three transports; GPipe and 1F1B on two to five ranks with up to seven micro
batches) these operators were compared with what the Python classes produce: the
orders are equal step by step. So are 204 more with the steps of sharded parameters, of swap, or both.

`PipelineRuntime` passes FSDP and swap steps by, since they touch nothing another rank sees; what matters there is that
they stand between computation and communication, and that a coalesced run or a hoisted
boundary ends at them. `ActivationSwap` executes them.

A rank walks the leaf calls of its order (`LeafCalls`, built once into `program`). A communication call
(`Communicate`, with `ExchangeMeta` before it as often as the stage needs) does
the stage's bookkeeping and builds one group of operations per peer;
`LaunchNext` launches a group and then waits for it inline or leaves the handle
in a cache; a computation first waits for the handle under its key (`Arrived`,
`Consume`). An overlap with a callback forks its backward onto a second thread
(`Fork`, `SideBackward`, `Join`), which is how
`examples/torch/pp_overlap/pp_overlap_moe_example.py` uses it; without one its
halves run one after the other. A missing payload, input or graph makes the rank
raise (`Raise`), and `Drain` is the `finally` of `run`.

The communication library is external (`Launch`, `CanExecute`, `Execute`, mapped
as such). What is assumed is what the comments of `scheduler.py` assume: one
communicator executes its operations in launch order, and the two groups at the heads of both
ends execute together once they are complementary. Plain operations
use the communicator of the pair, batches the one of the pipeline group or, under
`multi_stream`, of the edge; metadata and data use the default group.

Abstractions: a transfer carries one tensor, which requires a gradient; payloads
are not represented, only which micro batch and edge they belong to. There are
at least two ranks: on a single one nothing is sent.

### Inference server around a publication

| module | stands for |
|--------|------------|
| `PolicyAdmission` | `vllm_server.py` (`generate`, `pause`, `resume`, the middleware), its client, the engine, and the trainer's publication |
| `VersionedInference` | the abstract service: a call is served by one policy, and a policy is replaced while none is served |
| `MCAdmission`, `PolicyAdmission_proofs` | the instance; the theorems |

The server is one asyncio thread, so that an action is the code between two awaits and
`lock` is what is held across them. `call[r]` is where the handler in slot `r` stands:
`sent` (waits for the admission), `woken`, `adding` (registered, not yet in the engine),
`collecting`, `failed`. `pub` walks the trainer through a publication: `closing`,
`settling`, `quiesce` are the two halves of `pause`; `commit` to `resume` are
`WeightPublisher.publish` and `update_weights`; a publication in front of a checkpoint goes
through `drain` and leaves the server open. Both runners are in: segments, which hold the
lock while the engine takes them, and chat calls, which a pause lets finish. `ran` is a
ghost: the versions that sampled a token of a call. The transfer of the bytes is one
step, `Fail` is a chat route that raises and keeps its lease.

### Checkpoints in the background

| module | stands for |
|--------|------------|
| `CheckpointSave` | `CheckpointerCallback`, `DistributedCheckpointer`, `_save_impl` and `resolve_async_persist_result` on every rank, over a file system that outlives the job |
| `CheckpointStore` | the abstract store: the checkpoint to resume from is replaced, in one step, by a later one, which comes from one incarnation of the job or is known to be mixed |
| `MCCheckpoint`; `CheckpointSave_proofs` | the instance; the theorems |

Each rank has a loop (`parent`), a writer (`_save_impl`, in a child or in place) and the
thread that joins the child (`joiner`). A file is absent, torn, or holds what an incarnation
`job` wrote; every file but the plan has a step between opening and completing it.
A plan is written in one step: a reader of half a plan comes back, which is all the other
step would add. `Crash` and `Teardown` stop all processes. `Restart` starts them over the directories as they
are, half-written and half-deleted ones and the write results of interrupted saves included: nothing in the
code clears them. It loads what `find_latest_checkpoint` names; where that does not load
(`Loadable`: metadata and shards are complete, whoever wrote them) the job does not start again (`Over`). The ghost `stale` says that the coordinator of
a save has read a write result of an earlier incarnation, and `Mixed` in place of a metadata file that such results went
into it; no action reads either. A child whose parent is killed is taken to be
killed by the launcher. The half hour of `batch_read_worker` is taken to be longer than any
write, so that it runs out only for a file whose owner has exited.

### Asynchronous training loops

| module | stands for |
|--------|------------|
| `SampleExchange` | `ExperienceBuffer`, `AsyncRuntime` with its queue and its pipe, the producer `FullyAsyncRollouter` |
| `AsyncCheckpoint` | the directory of a checkpoint: model files and marker, state and manifest |
| `AsyncLearner` | what both trainers share: counters, the parts of a save, death and restart of the job |
| `FullyAsyncTrainer`, `ColocateAsyncTrainer` | the two loops; each composes the others |
| `ExperienceLedger` | the abstract account of prompt records |
| `AsyncLearner_proofs`; `FullyAsyncTrainer_proofs`, `ColocateAsyncTrainer_proofs` | the invariant both loops share; the theorems of either |

The training ranks move together (`coordinator_call`), so that a trainer is one process,
whose place is `pc`. Operators of the buffer return the buffer after the call; `fault` is
an exception on its way to the trainer. A step of the trainer is one look at the buffer
(`pump` and what is computed from it at once); steps of the producer come in between. The inference server is
what `VersionedInference` promises, which `PolicyAdmission` implements: an open server runs segments under the one
policy it serves. Abstractions: the candidates of a group are one thing; the delay of the
queue's feeder thread is part of the time a group takes to finish; a policy version is its
source update plus one and is not kept beside it; a timeout, the death of the producer and
a failed call are `Crash`; the start of a job is one action, because nothing else runs
before it ends; the evaluation is left out but for the producer it replaces.

Both trainers implement `ExperienceLedger`: `learned` are the records in the weights, `pool` those the
producer or the buffer hold, `read` the position of the source, `saved` what the complete
checkpoints on disk hold of the three.

### Activation memory

| module | stands for |
|--------|------------|
| `PinnedPool` | `pinned_memory_pool.py`: one action per critical section, allocation and wait |
| `ActivationSwap` | one rank in `run`: `PipelineSwapSession`, `SwapGroup`, `SwapTensor`, the FSDP steps, over an instance of `PinnedPool` with one thread |
| `MCPool`, `MCSwap`; `PinnedPool_proofs` and `ActivationSwap_proofs` | the instances; the theorems |

`PinnedPool`: `available`, `pending` and `lent` are the states of a `_Block`; `pc[t]` is where a thread
stands in `acquire`: `reserved` between the reservation and the allocation, `waiting` while it waits
for the event of the block in `hand[t]`. The reclamation is a part of every outcome of the first
critical section. `done` are the events the device has reached, `busy` is a ghost: the blocks
on which a copy is still at work. Buckets are sets, so any of several equal blocks may be taken.

`ActivationSwap`: the host walks `program`, the steps of its order that concern this rank alone, and appends to the two
streams `compute` and `copy`; `ComputeStream` and `CopyStream` execute their heads at any later time, in
order, a wait only once its event is there. `home[c]` is the device memory of what chunk `c`
saved and changes when the host says so, `mem` is what the streams have done to it; `tensor`,
`buffer`, `offloadEvent` and `loadEvent` are the attributes of the same names. An order is *balanced* (`Balanced`) when it
asks for each transfer of a chunk once and awaits the load of all it offloads, which is what `inject_pipeline_swap_steps` makes of it. Between an event of the
compute stream and the copy the host may have to wait for a buffer (`AcquireBuffer`, phases `acquire` and
`copy`). A failed forward, backward, allocation or wait leads to `closing`, where `AbortGroup` is
`abort_group` of one group.

Abstractions: a chunk saves one tensor of one size, so that nothing is packed; tensors kept on the
device because something else owns them take no part; the halves of an overlap run one after the
other; what a rank receives is there when it is needed. The allocator reuses the lowest free address,
which is the most it can reuse; streams, events and the allocator are external. A step whose
tensor is in another state than the step takes over is skipped with a warning or raises in
the code; here it is stuck and violates `StepsInOrder`. The synchronisation in `abort_group` does not fail. What a failed
run still holds on the device is given up when it ends, the earliest the program may do so.

## 4. The runs

Deadlock is checked unless said otherwise. Every property has a faulty variant of a
mapped definition (marked so in the modules), the way a plausible bug
would change the code, under which the property fails in the same run.

### Overlap window

| run | properties | bounds | shows |
|-----|------------|--------|-------|
| `overlap_tagged` | `FreshEvent NoMutualWait StrictPairs EveryOpLaunched ImplementsProtocol` | two windows in a row, each over chunks of one or two tagged layers, equal or not, some recomputed with early stop (`PairedWindows`) | the guarantee of `hook_coordinator.py:63-77` as documented, including what one session leaves to the next |
| `overlap_failures` | `CommFirst FailureSurfaces WindowCloses` | one window over tagged, untagged or recomputed chunks of up to two layers (`AnyWindows`); either chunk may raise after any hook, the thread may fail to start | in these windows, those of unequal and untagged chunks included, COMM goes first, `run` returns and reports. Its module also evaluates which windows are in pairs: `PairedWindows` are, untagged ones and the full recomputation of a tagged layer are not |

Deadlock is not checked in either: after the last window nothing is left to do.
`WindowCloses` says that every window ends; tagged windows are among those of `overlap_failures`. One or two layers give three to eight
rendezvous per thread, which is enough for either thread to be one hook
ahead at every kind of pairing and for a chunk to outlive its partner; two
windows are enough for anything stale to meet a new session.

`WindowCloses` is not claimed of every window. The recomputed windows of `overlap_failures` are those whose
recomputation begins at a tensor saved in front of hook C or behind hook D (cuts 0, 2 and 4). Left out are the tagged layer
recomputed to its end (`FullRecomputeWindows`) and recomputations that begin inside a dispatch or a combine (cuts 1 and 3),
some of which hang: `overlap_recompute_hang` (section 5) shows two.

`FreshEvent`, `NoMutualWait` and `StrictPairs` hold of windows in pairs only (section 7): others
pair equal roles (section 5).

### Pipeline

| run | properties | bounds | shows |
|-----|------------|--------|-------|
| `pipeline_schedules` | `TransfersMatch HeadsComplement NothingRaises PeakActivations CleanRuns KeepsDataflow ErrorsSurface` | GPipe on two ranks, 1F1B and interleaved 1F1B on two or three, one to three chunks, one to seven micro batches; metadata, data and waits in every mode; overlap under `batch` and `multi_stream`, whole and split, with and without callback; some with FSDP and swap steps in between (`AllShapes`). Small shapes of every style are run twice in a row (`RepeatedShapes`); in others any one forward of stages 0 to 3 and micro batches 0 to 2 may raise (`FaultyShapes`) | no interleaving of ranks, threads and links delivers a tensor to the wrong receive, faces two ends that do not fit, deadlocks, raises or holds more activations than the warm-up explains; nothing is read early, late or twice, and every run is completed (`KeepsDataflow`); a run leaves nothing behind, although a fast rank may be a run ahead of a slow one; a rank whose model raised comes back from `run` although its error path waits for operations in flight. Only its peers may stop for good (`Abandoned`) |

Two ranks are the smallest pipeline and three the smallest with a rank that is neither
first nor last and with both parities of the scan (`_process_rank_items`). One to
seven micro batches give fewer than ranks, exactly one round, a remainder spread over
rounds, and several rounds. Two chunks are needed for a rank to meet itself in the
next round, three for a middle chunk. Two runs in a row (`Turns`) are enough because nothing but the
caches passes from a run to the next.

`PeakActivations` is stated for rounds no larger than the number of ranks. With larger
rounds (`P = 2, V = 2, M = 3`) `less_memory` holds more activations than the
`V*P - i` its comment gives (`scheduler.py:2085`).

### Inference server, checkpoints, asynchronous training

| run | properties | bounds | shows |
|-----|------------|--------|-------|
| `policy_admission` | `AnswersOnePolicy QuietWrites PublicationEnds ImplementsPromise` | three slots, three published versions, either runner | an answer somebody waits for comes from the one version it is stamped with; weights are written under no call; a publication reopens the server or fails the run |
| `checkpoint_crashes` | `PointerIsAccounted SavesNeverOverlap DeletesOnlyOld FutureTruthful ImplementsStore JobEnds` | two ranks, two steps, both saved, in place or in the background, one checkpoint kept, two incarnations, the second over the directories as the first left them | a crash or a lost child at any point leaves the pointer on a whole checkpoint, or on one whose metadata were gathered from two incarnations; saves of two steps never overlap; rotation deletes none that matters; only a later save replaces the checkpoint to resume from; nobody waits for good, also when plan caches differ |
| `fully_async` | `WithinLag CreditsBalance NothingRaises ImplementsLedger TrainingFinishes` | batches of one, capacity, lag and the other constants as in `FullyAsync.cfg`, four updates, a save at step 3, one failed group, one crash | batches stay within the lag, credits balance, no protocol error is reachable, records are learned at most once over any restart, training ends |
| `colocate_async` | `ImplementsLedger TrainingFinishes` | batches of two of three buffered groups, lag one, three updates, a save at step 2 whose evaluation replaces the producer, one rejection of part or all of a batch, one refill, one crash | the same of the colocated loop, of which lag, credits and absence of exceptions are theorems (section 7) |

Three slots let one call wait, one be added and one be collected at the same time; with three
versions a call can outlive a publication and meet the next. Two ranks are a coordinator and a peer,
which is all `_save_impl` distinguishes; with two steps a save can follow, precede and
rotate another; two incarnations give one restart over anything a crash left. Once each, all these properties were also checked with a third step that is saved
in place behind two in the background (`MaxStep = 3`: 2,425,420 states, too long for a run), and the safety properties with a restart over what
two incarnations left (`MaxJobs = 3`: 10,034,949 states). The safety theorems are about any number of either. In the
asynchronous runs four (three) updates let a group be leased, stay within and fall out of the
lag around a publication and around a restart. A longer buffer only adds groups
that wait behind these.

Deadlock is not checked in the asynchronous runs, where a finished or failed run stops; the
liveness properties exclude every other stop.

### Activation memory

| run | properties | bounds | shows |
|-----|------------|--------|-------|
| `pinned_pool` | `QuietWhenLent NothingLost Accounted` | two threads, four blocks, sizes 1, 3 and 6, smallest bucket 2, alignment up to 4, 8 bytes, two events | whatever interleaves and fails, no copy touches a block that is lent or available, none is lost or lent twice, the bytes add up within the bound |
| `activation_swap` | `SavedTensorsSurvive StepsInOrder HostBuffersQuiet BuffersReturned GradientsReducedLast` | five ranks of 1F1B (4 ranks, 6 micro batches; 3 and 4, sharded) and interleaved 1F1B (2 ranks, 4 chunks, 1 micro batch; 2 chunks, 3 micro batches, split overlaps; both sharded); two runs, the first may raise; six addresses, three host buffers | the streams may lag behind the host as far as they like and a run may raise between any two steps; still a backward reads what its forward saved, steps come in order, buffers come back, gradients are reduced once and last. `HostBuffersQuiet` speaks of histories without a failed run only; section 5 says what happens in others. Its module also evaluates that the orders of these ranks, and those of every rank of 56 shapes of both schedules, are balanced |

The sizes hit every case of `_aligned_size` (raised to the smallest bucket, rounded to a power of two and cut at the
limit, above the limit); with eight bytes three blocks exhaust the bound, so that every
outcome of `acquire` occurs. Two runs are needed for anything of a failed run to meet the next. A rank of four micro
batches of warm-up swaps several chunks at once and uses a buffer again; four chunks on a rank are more stages than
stay gathered (`max_active_stages`); rank 2 of four has a warm-up too short to swap. With three host
buffers some orders wait for a buffer in `acquire`, and some are refused one, which is a failure of
the run like any other.

## 5. Where code and documentation disagree

Three have a run of their own, which checks one property and in which TLC finds the
counterexample; `PROJECT.json` quotes both sides.

| run | property violated | what happens |
|-----|-------------------|--------------|
| `pipeline_boundary_hang` | `HeadsComplement` | transport `boundary`: DATA steps cut a run of operations in two, only a part is hoisted, and the batches of two ranks stop being complementary |
| `overlap_recompute_hang` | `WindowCloses` | mixed recomputation under `overlap_b_f`, which `docs/guide/pipeline_parallel.md:179` says is handled correctly: a combine recomputed between its own backward hooks (cut 3), or the tagged layer recomputed to its end, fires two COMM hooks in a row on the backward thread; the second replaces the event of the first, which the forward thread waits for, and parks at the barrier |
| `checkpoint_leftovers` | `PointerIsWhole` | `_publish_latest` (`dcp_checkpointer.py:564`) says of rank 0 that "its success already implies every rank's shards" have landed. A job started again saves over the directory of an interrupted save: its coordinator gathers a complete `STORAGE_DATA_<rank>` file of the lost job (`async_persist.py:624`), and the pointer names a checkpoint whose shards come from two: nothing clears the directory and no file names the save it belongs to |

What the code keeps of its promise about checkpoints is checked and proved: the pointer names whole checkpoints or `Mixed` ones,
the latter only after a restart and in the background (`PointerIsAccounted`, `PointerStaysWhole`). `checkpoint_leftovers` begins with a
half-written directory; that is not needed: an incarnation may be lost after the metadata of a save and before its pointer, so
that the save is whole; the next one resumes from an older pointer, saves the same step again and is lost while it
does, and the third gathers what the second left.

The following were met as well. The first six can be reproduced with the modules as they are, by
the instance given; the others are observations of the code.

- `dcp_checkpointer.py:494`: `find_latest_checkpoint` says that resume "never lands on a half-written one". A directory counts as
  complete once `.metadata` exists, also while it is being written under that name (`filesystem_storage.py:347`); a job lost there, without a pointer,
  selects that checkpoint at its restart and fails to load it (`checkpoint_leftovers` with the invariant
  `parent = All("down") /\ FindLatest # 0 => Loadable(FindLatest)`: 19 states).
- `swap.py:954`, `abort_group`, "Synchronize in-flight transfers": it knows of a transfer by its event only. An offload
  whose wait was issued (`_offload_event = None`, `swap.py:761`), or that raised before its event was recorded, is not waited for, and its host buffer is available at
  once while the copy may still be queued (`BuffersQuiet` in `activation_swap` with `Runs = 1`: 15 states). It does no harm as long as every
  later copy goes through the same stream, which `SavedTensorsSurvive` relies on.
- `hook_coordinator.py:230`: the tagged layer recomputed without early stop; the COMM side overwrites
  the slot before the COMPUTE side has read it (`FreshEvent` with `FullRecomputeWindows`). This is the safety side of
  `overlap_recompute_hang`.
- `scheduler.py:2088`: `less_memory` with `overlap_b_f` orders a forward before its receive
  (`NothingRaises`, interleaved, two ranks, one or two chunks, two micro batches, `overlapP2P`).
- `scheduler.py:296`: `less_memory` with transport `batch` on three ranks (two chunks, six micro batches,
  `overlapP2P`): a batch faces single operations (`HeadsComplement`).
- `scheduler.py:2085`: the peak of `less_memory` above (`PeakActivations`, section 4).
- `scheduler.py:195`: under transport `boundary` the hook that should send an overlap's output right
  after its forward is called by no stage; the output still waits when the overlap joins.
- `_stage.py:130`: the last stage builds the sensitivity of a backward from the output of its latest
  forward. Under GPipe that is the last micro batch for every backward, which matters where
  the outputs of micro batches differ in shape.
- `scheduler.py:1557`: the weight half of a split backward lands inside the gap it is meant to follow,
  because DATA steps end the run of operations.
- `docs/guide/pipeline_parallel_overlap_b_f.md:284` warns that chunks of unequal length hang; they do not:
  the shorter one departs, which aborts the barrier (`overlap_tagged` covers them).
- `vllm_server.py:193`: a failed chat call keeps its lease to "fail future publication rather than write
  live weights". The publication in front of a checkpoint drains the producer instead of
  pausing the server, does not look at leases, and writes; it fails at the `resume` afterwards.
  (`QuietWrites` is therefore stated of publications that closed the server.)
- `api.py:350`: on ranks other than the coordinator `persist_completion` completes before the
  metadata are there.
- A child that fails on one rank leaves the plan caches of the ranks different: at the next save one
  plans alone and waits for plan files that the others, who use their cache, do not write. Such a
  save fails after the timeout.
- `AsyncCheckpoint.invalidate` does not sync the directory after its unlink, other than `commit`.

- `fully_async_trainer.py:153`, "Persist quiescent source and buffer state after the model checkpoint": when the last step is
  due by `save_steps` and `save_final` is off, `finalize` returns without saving (`rl/rl/checkpoint.py:285`), the commit that
  follows finds no model checkpoint of the step, raises, and `train` fails after its last update.
- `scheduler.py:656`: `run_with_dataiterator` never makes a `PipelineSwapSession`, so that with `swap` on the first swap
  step raises "Pipeline swap step executed without an active run session".
- `pinned_memory_pool.py:124`: if `event.query()` raises in the middle of a scan, the blocks already moved
  stay in the pending list with no event, and the next scan fails on them.
- `pinned_memory_pool.py:255`: a block in the hand of a thread that waits for its event counts as in
  use, so that a second `release` of its former holder is not noticed.
- `scheduler.py:1446` with sharded parameters: an FSDP step between an overlap and its run of operations ends the run
  before it begins, and nothing is hoisted there.

## 6. Fairness

*Overlap window.* Weak fairness of each thread's step, of the start of the backward
thread and of the join. The operating system keeps scheduling both threads; a
thread that can take its next step can do so until it does, since the partner
never disables it. No fairness is assumed of failures or of opening another window.

*Pipeline.* Weak fairness of the whole next-state relation: as long as some thread
can run or the library can execute something, something happens. Every behaviour of
the model is finite up to stuttering (programs are finite, and so is the
number of runs), so this is implied by fairness of each thread and each link, and
no step can be passed over for ever.

*Inference server.* Weak fairness of each handler's `Added` and `Leave` and of the engine's `Finish`: the
event loop runs every callback that is ready, the engine finishes what it runs. Strong fairness of the three
steps of `pause` and `resume` that take the lock, because handlers take and drop it in between;
`asyncio.Lock` wakes its waiters in order. Weak fairness of the other steps of a publication. None
of clients, of failures, of a publication's beginning.

*Checkpoints.* `JobEnds` is checked under `FairSpec`, which adds to `Spec` the weak fairness of `Work`, which is every step of every process but polling, crashes, restarts and
failures, and of the polling of each thread. Between two starts of a job there is
finitely much work, so that fairness of each process implies it.

*Asynchronous training.* Weak fairness of the trainer and of the producer: the trainer polls, and the
producer's threads run. None of failed groups, of crashes, of rejections. A restart belongs to the
trainer: a job that came down is started again.

*Activation memory.* None: its properties are about safety. That nothing gets stuck is the deadlock check.

## 7. What is proved

### Overlap window

`CommComputeOverlap_proofs` proves eight theorems of `Spec`, for every set of
windows (any two hook sequences, not only those of `SyncHook`), any number of
windows in a row, with and without failures, from the assumptions in
`CommComputeOverlap` that the constants have their types and that `None` is no event. The last three
also suppose `Paired`: every window that may be run is in pairs.

| theorem | statement | checked by |
|---------|-----------|------------|
| `TypeCorrect` | `Spec => []TypeOK` | |
| `CommGoesFirst` | `Spec => []CommFirst`: no COMPUTE caller gets through a rendezvous before its COMM partner has launched | `overlap_failures` |
| `WindowImplementsProtocol` | `Spec => ImplementsProtocol`: every step is a step of `CommFirstRendezvous` or a stutter | `overlap_tagged` |
| `NoOpIsLost` | `Spec => []EveryOpLaunched`: `run` ends well only after every op of both chunks was launched | `overlap_tagged` |
| `FailuresSurface` | `Spec => []FailureSurfaces`: `run` raises what a chunk raised, the backward one first | `overlap_failures` |
| `RoundsArePairs` | `Paired` implies `Spec => []StrictPairs` | `overlap_tagged` |
| `AwaitedEventIsFresh` | `Paired` implies `Spec => []FreshEvent` | `overlap_tagged` |
| `NobodyWaitsForEachOther` | `Paired` implies `Spec => []NoMutualWait` | `overlap_tagged` |

`CommFirst` is not inductive: it says nothing of a thread that is still before the
barrier. The invariant `IInv` counts rounds. `Before(t)` holds while `t` has called a
rendezvous whose barrier has not tripped, `Passed(t)` is the number of rounds
`t` is through. Its conjuncts:

- `PlaceInv`, `LeftInv`, `BarrierInv`: what a thread's place says of its calls and
  launches, what the flags say of who has left, and the barrier's own count.
- `Lockstep`: both threads are through the same number of rounds.
- `CountInv`, `RoundInv`: `_pending_comm` counts the COMM callers of the round that
  has not tripped; `_round_had_comm` says whether the last one had any.
- `EventInv`, `SlotInv`: a set event belongs to an op that was launched; the slot
  holds the event of the only COMM caller of the round in question.
- `AwaitInv`: the event awaited is the partner's, of this round *or a later one*.
  The second half is what makes the theorem hold where `FreshEvent` does not:
  waiting for a later event may be too long (the finding above) but never too short.

The last five hold while nobody has left; from then on rendezvous are skipped and
`CommFirst` follows from `LeftInv` (a thread that left without failing has launched
everything it announced). There is one lemma per conjunct, each with one step
per action; `Invariant` combines them.

The other five theorems follow a window to its end. `TraceInv` says that a thread's trail is the calls of the hooks it has
fired; `StageInv` where each thread may stand while the other one opens, joins or closes the window, and which departure
is the one that resets; `ResultInv` what is known when `run` returns. They give `EveryOpLaunched` and
`FailureSurfaces` of any windows.

Under `Paired` the trails alternate (`Alternates`), which is `StrictPairs`. Then there is one COMM caller per round and the slot that a
COMPUTE caller loads holds that caller's event (`FreshEvent`). That nobody waits for each other takes one more
invariant, `NotifyInv`: a thread that has published an event sets it before it calls again, so that the partner of a thread that
awaits it is not at the barrier. `Paired` is a property of hook sequences that `SyncHook` builds by folds, so that it is
evaluated and not proved; `overlap_failures` does so, and shows that it tells the documented use from the others. It is what
the findings about recomputed layers in section 5 violate.

### Inference server

`PolicyAdmission_proofs` proves four theorems of `Spec`, for any set of slots, any number of publications
and either runner, from the two assumptions of `PolicyAdmission`.

| theorem | statement |
|---------|-----------|
| `TypeCorrect` | `Spec => []TypeOK` |
| `OnePolicyPerAnswer` | `Spec => []AnswersOnePolicy` |
| `WritesAreQuiet` | `Spec => []QuietWrites` |
| `PromiseKept` | `Spec => ImplementsPromise` |

None of the three invariants is inductive: that an answer comes from one version depends on who is counted
while weights move. `IInv` is `TypeOK /\ Calls /\ Phases`. `Calls` says of each call:

- `Counted`: a call that is in the server, at whatever place, is counted in `active`;
- `Untouched`: a call that has not registered has sampled nothing and the engine does not have it;
- `StampIsCurrent`: the stamp of a call in the server that somebody waits for is the version of the weights;
- `AnswersOnePolicy`, `FailedUnheard`: it has sampled under its stamp only; nobody waits for a failed one.

`Phases` says of a publication:

- `NobodyWaits`: while the producer is drained nobody waits for an answer at all;
- `ClosedWhilePaused`, `LeftBeforeWrite`, `DrainIsOpen`: how its place and its path determine whether the
  server is closed and whether calls may still be counted;
- `VersionPhase`: which of `version`, `weights` and `committed` agree at which place;
- `CacheIsCurrent`: a sampler that may call an open server has the committed version.

There is one lemma per action, with steps for the groups of conjuncts it can disturb; `Invariant` combines them. The
refinement follows from the invariant: a write is `Publish` because nobody waits then, a registration is
`Admit`, an end is `End`, everything else a stutter.

### Pool of host buffers

`PinnedPool_proofs` proves four theorems of `Spec`, for any set of threads, blocks, sizes and events and any
bounds, from the assumptions of `PinnedPool`: that no block or event is `None`, and that the bound and aligned sizes are natural numbers.

| theorem | statement |
|---------|-----------|
| `TypeCorrect` | `Spec => []TypeOK` |
| `LentBlocksAreQuiet` | `Spec => []QuietWhenLent` |
| `NoBlockIsLost` | `Spec => []NothingLost` |
| `BytesAreAccounted` | `Spec => []Accounted` |

`NothingLost` and `TypeOK` are inductive together. `QuietWhenLent` is not: a busy block is not lent because it is pending or
in the hand of a thread, and because its event is not done. That is `Watched`; `IInv` is
`TypeOK /\ NothingLost /\ Watched`. There is one lemma per action, with one step per conjunct.

`Accounted` says that `total` is the sum of the capacities of the blocks and of what is being allocated. Its inductive form `Ledger` adds
that there are finitely many of either. A fold over a set cannot be unfolded by the provers from its recursive
definition; the first lemmas of the module prove, from that definition and by induction over the size of the set, what the sum of the empty set is and
what one more element, one less, or a new value of one element does to a sum.

### Swap of activations

`ActivationSwap_proofs` proves two theorems of `Spec`, for any set of ranks (orders), any number of runs, of which any
number may fail, and any number of addresses, blocks and bytes.

| theorem | statement |
|---------|-----------|
| `BuffersComeBack` | `OrdersBalanced` implies `Spec => []BuffersReturned` |
| `HostBuffersStayQuiet` | `OrdersBalanced` implies `Spec => []HostBuffersQuiet`, that is `Spec => [](~failed => BuffersQuiet)` |

`HostBuffersStayQuiet` is about histories without a failed run: once one has failed, nothing is said, and `BuffersQuiet` itself is
violated then (section 5). `BuffersComeBack` holds of failed runs too.

They rest on the assumptions that `None` is no event and no block and that the number of runs is a natural number, and suppose
that the orders that are followed are balanced. How the injection computes an order is a fold over sequences; that the result is balanced
is evaluated by `activation_swap`.

The first invariant, `Lending`, relates the pool to the host: what the pool needs of itself (`PoolInv`, which contains its
`NothingLost`), the step of the order between the parts of `launch_offload` (`AcquireInv`), and
that the lent blocks are the buffers of the chunks, one each, held exactly while the tensor is not on the device alone and only by
chunks that have a group (`HeldInv`), so that a run that has aborted all groups has given back all blocks.

The second, `Streams`, is about what is enqueued and not executed yet:

- `PlanInv`: the step that asked for a buffer is behind the host and no wait for its load is, so that a run that walked its
  whole order holds nothing;
- `ComputeInv`, `EventsInv`: the event behind a transfer is recorded by the copy stream only, once, and is
  not done before. A step asks for an event that no earlier step of the run asked for (`NewEvent`);
- `QuietInv`: every queued copy works on a block that its chunk holds, with the event of its load behind it once that
  is queued (`Held`), or on one that the pool keeps behind such an event (`Parked`).

`wait_load` turns `Held` into `Parked`; the pool lends a parked block no more until the event is done, by which time no
copy is left. There is one lemma per invariant, with lemmas before it for `launch_load`, `wait_load` and the copy
stream. TLC checked every conjunct first. The attempt found that two arms of `Fits` overlapped, so that a forward of a chunk that had
something saved was let through by either; a forward now needs a chunk with nothing saved.

### Checkpoints in the background

`CheckpointSave_proofs` proves theorems of `Spec` for any set of ranks,
any cadence, limit, number of training steps and of restarts, from the two assumptions of `CheckpointSave` and no other: a restart
may find whatever a lost job left.

| theorem | statement |
|---------|-----------|
| `TypeCorrect` | `Spec => []TypeOK` |
| `SavesApart` | `Spec => []SavesNeverOverlap` |
| `PointerSafe` | `Spec => []PointerIsAccounted`: whole, or known to be mixed |
| `PointerStaysWhole` | `Spec => [](job = 1 \/ ~isAsync => PointerIsWhole)`: nothing is mixed before the first restart, nor in a job that saves in place |
| `RotationSafe` | `Spec => []DeletesOnlyOld` |
| `FutureTrue` | `Spec => []FutureTruthful` |
| `StoreImplemented` | `Spec => ImplementsStore` |

`SavesNeverOverlap` does not say why a new save cannot start beside an old one. `SafeInv` does: a rank that waited has no
child left (`Saves`), the step a writer works on is the one its loop stands at or saved last (`Targets`), the ranks are at one step
(`Together`, `Places`), and a save that is in flight on one rank is the one the others write or are about to
dispatch (`OneSave`). It needs nothing of the storage.

What the storage holds is the second invariant, `DurableInv`, in three parts:

- `Gathers`: how a shard gets from its rank to the metadata. A rank past its shard wrote it in this incarnation (`Shards`), a
  complete write result of this incarnation promises such a shard (`Results`). None is of a later one, and in the first, or in place, none but
  these is ever gathered (`Ages`). When the coordinator has gathered all of them, and none of an
  earlier incarnation, every rank has delivered (`Gathering`); what it writes is whole then, and marked otherwise (`Described`).
- `Points`: where the pointer stands. Between two saves it names the step saved last, or that step is the newest
  there is (`Settled`), and the other ranks have at most to report that same save, or, if it is mixed, still to write it (`Others`); while one is in flight, the files still to be
  written lie beyond it (`NotYet`); it moves forward only, to a checkpoint that is whole or mixed (`Publishing`), and what it names, or without it the
  newest there is, is that (`Sound`).
- `Orders`: no step that has to be saved is passed over (`NextSave`), so that nothing on storage is newer than the
  checkpoint in flight (`OneAhead`); without that the checkpoint to go back to might fall back while the pointer is empty. The victim of a rotation is not the
  step saved last (`Spared`).

There is one lemma per action, with lemmas before it for groups of actions that leave the same things alone
(`WritersAdvance`, `ThreadsAdvance`, `LoopMoves`, `FileMoves`); `NextSafe` and `NextDurable` combine them. TLC checked every
conjunct first. In the refinement the checkpoint to go back to stays as it is (`Steady`) in every step but two, where it moves to a later whole one
(`Lands`): the metadata of a save is closed while the pointer names nothing, or the pointer is emptied before it is written.

`Others` and `NotYet` show what a leftover does: the coordinator that gathers one no longer waits for the rank it stands for, and that
rank may still write its shard when the pointer already names the checkpoint. That this reaches no other checkpoint, and not the next save, is
what `SavesApart` and `StoreImplemented` say.

### Asynchronous training loops

`FullyAsyncTrainer_proofs` and `ColocateAsyncTrainer_proofs` prove theorems of the `Spec` of either loop, for any batch
size, capacities, lag and cadences, any number of updates, of failed groups, of rejected batches and of crashes. They rest on the
assumptions of the modules: capacities and lag are positive, a batch and what is in flight fit into the buffer (`CapacityAssumption`,
which the configuration validates), the other bounds are natural numbers, and `None` and `Torn` are no numbers, model files or snapshots
(`NoneAssumption`, `MarksAssumption`).

| theorem | `FullyAsyncTrainer` | `ColocateAsyncTrainer` |
|---------|---------------------|------------------------|
| `TypesCorrect` | `Spec => []TypeOK` | |
| `BatchesWithinLag` | `Spec => []WithinLag` | `Spec => []WithinLag` |
| `CreditsStayBalanced` | `Spec => []CreditsBalance` | `Spec => []CreditsBalance` |
| `NothingFails` | `FinalSaves` implies `Spec => []NothingRaises` | `Spec => []NothingRaises` |
| `ExperienceKept` | `Spec => ImplementsLedger` | `Spec => ImplementsLedger` |

`fully_async` checks all of them, `colocate_async` the refinement; what else holds of the colocated loop is known from the
theorems alone. `FinalSaves` says that no cadence asks for a checkpoint at the last update unless `save_final` is on. Without it the
theorem is false: `finalize` skips the model of that step and the commit fails on the missing marker (section 5). The other
theorems hold of such runs too. The colocated loop writes the model of every save and needs no hypothesis.

None of the properties is inductive: a credit is returned with a message that must belong to a reservation, which depends on all
messages under way and, after a restart, on what was on disk. `AsyncLearner_proofs` states what both loops keep, `LearnerInv`:

- `Sound`, in three parts. `Book`: an identity is consumed, dropped, ready or reserved, within the limits. `Flown`: every task in the pipe,
  group at work, result and reply of a failure holds a reservation, and no two of them hold the same. `Soundly`, with `Dated`: the
  records of groups are read from the source, not learned, and different; the ages of a group are in order and not newer than the policy served.
  It has parameters, so that it can be claimed of the variables, of a buffer between two
  calls of one action, and of what a checkpoint restores.
- `Exchanging`: the exchange is sound; between the request for a snapshot and its answer the pipes carry these instead of tasks and
  nothing is in flight (`Asking`).
- `Counters`, `Stopped`: what the counters say of each other, and that a dead job has nothing in flight.
- `Frozen`, `Snapped`, `Staged`: from the request to the seal the buffer has no reservation and no lease, the snapshot is the picture of the
  state as it still is, and the parts written so far are of this moment.
- `Stored`: a sealed directory is `Whole`: marker, model and state are of one step, and what it restores is sound. A restart
  therefore starts from a sound state whatever the crash left.

What only one loop knows is in `TrainerInv` of its module. Both: updates are left while a batch is being collected (`Looping`), and the buffer is
leased exactly while the batch is prepared and learned, its groups within the lag (`Leasing`). Results may be accepted after the eviction; the fully asynchronous
loop leases the first groups, which the eviction has passed, because a result is appended behind them; the colocated loop evicts again when it leases.
The fully asynchronous one adds that a save is on its way only for a step that asks for it, with nothing in flight once drained
(`Draining`), and whether `finalize` left a model (`Skipping`). The colocated one adds that every update is
published before anything else (`Publishing`), that a save has its model by the time of the state (`Marking`), and that after a save the
buffer is still the one of the snapshot (`Waking`). The last is what makes it safe to build a new producer from the snapshot while
the loop keeps its own counters: restoring what was exported gives the buffer back, since nothing was in flight.

There are lemmas for each operation of the buffer (what `accept`, `discard`, `evict_stale`, `reserve`, `select` and `consume` do to `Sound`),
for each kind of action the loops share, and one per action of either loop; each of these shows at once that
the step keeps the invariant and is a step of the ledger (`Advances`), and of the fully asynchronous loop also who is to blame if it fails.
Filters and scans of the buffer (`Among`, `Pumped`) are recursive functions, whose defining equation is
found by induction over the length (`KeepsExists`, `Induction`). TLC checked the conjuncts first.

### What is only model-checked

- All liveness (`WindowCloses`, `PublicationEnds`, `JobEnds`, `TrainingFinishes`, `ErrorsSurface`, the liveness in `KeepsDataflow`): fairness
  and `ENABLED` are beyond the prover.
- The pipeline. Its orders are computed by folds over sequences, what ranks launch follows from them, and so
  every property needs induction over data, which the installed provers cannot do.
- Of the swap, `SavedTensorsSurvive`, `StepsInOrder` and `GradientsReducedLast`: they depend on where exactly the injection places its
  steps between the computations of all chunks, not only on balance.
- The hypotheses `Paired` and `OrdersBalanced`, which are evaluated for the instances named above.

The type invariants of `CommComputeOverlap`, `PolicyAdmission`, `PinnedPool`, `CheckpointSave` and `FullyAsyncTrainer` are theorems. That of
`PipelineProperties` says what the variables hold; no run has it among its properties.

## 8. What is not modelled

In the modelled components:

- in the pipeline: `sync_shared_parameters_grad`, the barrier and grouping of `prepare_batch_p2p_group`, the offline order validator,
  and the auto-aligned insertion no schedule calls;
- tensors, shapes and losses: only which micro batch and stage they belong to;
- collectives and the internals of HCCL and NCCL beyond in-order execution per
  communicator;
- overlap callbacks other than the fork-and-join of the example;
- in the inference server: the transfer of bytes, tensor layouts, the IPC and HCCL paths; aborts of single requests by
  the engine for reasons of its own;
- in activation memory: several tensors of a chunk, their packing into staging buffers and slices of them; tensors kept on the device
  because parameters or boundary tensors share their memory; buffers outside the pool; the hooks by which single layers
  swap and prefetch outside of a pipeline; recomputation, but for what it does to an overlap window;
- of sharded parameters: everything below the gathering, sharding and reduction of a stage;
- in the checkpoints: the gloo exchange and its process groups, saves without collectives
  (`no_dist`), resharding at load, the time and epoch cadence, HF exports;
- in asynchronous training: candidates one by one and their retries, tool programs, the evaluation, the
  off-policy weights, the numbers of an update.

Parameter groups, the prefetching data iterator and the mpipe
rotation are planned (section 2). The other parts have no state that
outlives a call, or only tensors.
