--------------------------- MODULE ActivationSwap ---------------------------
(***************************************************************************)
(* One rank executes the control steps that ScheduleInjections put into    *)
(* its order: the swap of saved activations to pinned host buffers         *)
(* (core/activation_memory/swap.py, PipelineSwapSession) and the life of   *)
(* sharded parameters.  Three actors work here: the host walks the order   *)
(* and only enqueues; the compute stream and the copy stream execute what  *)
(* was enqueued in their own order, and wait for each other by events.     *)
(*                                                                         *)
(* A chunk is one micro batch on one stage and saves one tensor.  Device   *)
(* memory belongs to an address until the host gives it up, which may be   *)
(* long before the streams get there.  The computation of another rank     *)
(* does not appear: what a chunk receives is there.                        *)
(***************************************************************************)
EXTENDS ScheduleInjections

CONSTANTS Jobs,          \* what is run: [shape |-> ..., rank |-> ...]
          Runs,          \* how many times run() is called
          FailingRuns,   \* in how many of them, from the first on, a computation may raise
          Addresses,     \* device memory, in tensors
          Blocks, MaxHostBytes, None,  \* of the pool
          Host           \* the only thread

Chunks == UNION {Stages(j.shape) \X Micros(j.shape) : j \in Jobs}

\* The events of a chunk in a run: of the compute stream in front of a copy,
\* and of the copy stream behind it.
Events == {"beforeOffload", "offload", "beforeLoad", "load"} \X Chunks \X (1..Runs)

ASSUME NoneAssumption == None \notin Events \cup Blocks
ASSUME RunsAssumption == Runs \in Nat

VARIABLES
  job,        \* the rank that is followed
  program,    \* what concerns this rank alone in its order
  run,        \* number of the run
  at,         \* next step of the order
  phase,      \* "idle", "run", "acquire", "copy" or "closing"
  failed,     \* some run raised
  home,       \* home[c]: address of what chunk c saved, 0 if it has no memory
  tensor,     \* tensor[c]: _state of its SwapTensor, "none" before and after
  buffer,     \* buffer[c]: _cpu_pool_buffer
  groups,     \* chunks with a swap group
  offloadEvent, loadEvent, \* chunks whose group has the event
  gathered,   \* stages whose parameters are not sharded
  reduced,    \* stages whose gradients are reduced in this run
  compute,    \* the compute stream
  copy,       \* the copy stream
  mem,        \* mem[a]: the data at address a
  hostMem,    \* hostMem[b]: the data in block b
  \* the pool, see PinnedPool
  blocks, capacity, available, pending, lent, event, total, pc, want, hand, done, busy

Pool == INSTANCE PinnedPool WITH
          Threads <- {Host}, Sizes <- {1}, MinBucket <- 1, AlignLimit <- 1

poolVars   == <<blocks, capacity, available, pending, lent, event, total, pc, want, hand, done, busy>>
setup      == <<job, program>>
hostVars   == <<setup, run, at, phase, failed>>
chunkVars  == <<home, tensor, buffer, groups, offloadEvent, loadEvent>>
fsdpVars   == <<gathered, reduced>>
streamVars == <<compute, copy, mem, hostMem>>
vars == <<hostVars, chunkVars, fsdpVars, streamVars, poolVars>>

-----------------------------------------------------------------------------
(* What the host executes *)

\* The steps that concern this rank alone, the halves of an overlap one after
\* the other.
LocalSteps(order) ==
  FlattenSeq([i \in DOMAIN order |->
    IF IsOverlap(order[i]) THEN order[i].subs
    ELSE When(order[i].type \in ComputeTypes \cup FsdpTypes \cup SwapTypes, <<order[i]>>)])

ProgramOf(j) == LocalSteps(BuildExecOrder(j.shape)[j.rank + 1])

\* What inject_pipeline_swap_steps makes of an order: it asks for each transfer
\* of a chunk at most once, and waits for the load of all that it offloads.
Balanced(j) ==
  LET p == ProgramOf(j)
      IsSwap(i) == p[i].type \in SwapTypes IN
  /\ p \in Seq(ToSet(p))
  /\ \A i \in DOMAIN p : IsSwap(i) => Chunk(p[i]) \in Stages(j.shape) \X Micros(j.shape)
  /\ \A i, k \in DOMAIN p :
       (IsSwap(i) /\ p[k].type = p[i].type /\ Chunk(p[k]) = Chunk(p[i])) => i = k
  /\ \A i \in DOMAIN p : p[i].type = "SWAP_LAUNCH_OFFLOAD" =>
       \E k \in i + 1..Len(p) : p[k].type = "SWAP_WAIT_LOAD" /\ Chunk(p[k]) = Chunk(p[i])

\* _swap_keys
SwapKeys == {Chunk(s) : s \in {t \in ToSet(program) : t.type = "SWAP_LAUNCH_OFFLOAD"}}

Walking == phase = "run" /\ at <= Len(program)
Step == program[at]
Here == Chunk(Step)
At(types) == Walking /\ Step.type \in types

\* What a step needs: parameters for a computation, and a tensor and a group
\* in the state the step takes over.  Without them the code raises, or skips
\* the tensor with a warning.
HasParameters == job.shape.fsdp => Step.stage \in gathered
Fits ==
  CASE Step.type = "FWD" -> HasParameters /\ tensor[Here] = "none"
    [] Step.type \in ComputeTypes \ {"FWD"} -> HasParameters /\ tensor[Here] = "device"
    [] Step.type = "SWAP_LAUNCH_OFFLOAD" -> Here \in groups /\ tensor[Here] = "device"
    [] Step.type = "SWAP_WAIT_OFFLOAD" -> Here \in offloadEvent /\ tensor[Here] = "d2h"
    [] Step.type = "SWAP_LAUNCH_LOAD" -> Here \in groups /\ tensor[Here] = "host"
    [] Step.type = "SWAP_WAIT_LOAD" -> Here \in loadEvent /\ tensor[Here] = "h2d"
    [] OTHER -> TRUE

Advance == at' = at + 1 /\ UNCHANGED <<setup, run, phase, failed>>

-----------------------------------------------------------------------------
(* Streams.  An operation is <<name, chunk, arguments>>. *)

Value(c) == <<run, c>>
Event(kind, c) == <<kind, c, run>>
Write(c, a)       == <<"write", c, a, Value(c)>>
Read(c, a)        == <<"read", c, a, Value(c)>>
ToHost(c, a, b)   == <<"toHost", c, a, b>>
ToDevice(c, a, b) == <<"toDevice", c, a, b>>
RecordOf(e)       == <<"record", e>>
WaitOf(e)         == <<"wait", e>>

\* Waiting for an event with nothing before it is no wait.
AwaitEvent(stream, e) == IF e \in done THEN stream ELSE Append(stream, WaitOf(e))

\* An event is new and has been recorded, so that it is open from now on.
Recorded(events) ==
  /\ done' = done \ events
  /\ UNCHANGED <<blocks, capacity, available, pending, lent, event, total, pc, want, hand, busy>>

-----------------------------------------------------------------------------
(* Computations *)

\* The caching allocator: memory given up is used first.
FreeAddress == Min(Addresses \ {home[c] : c \in Chunks})

\* execute_fwd_leaf: a chunk of the session collects its tensor in its group.
Entered == groups \cup (SwapKeys \cap {Here})
Forward ==
  /\ At({"FWD"}) /\ Fits
  /\ groups' = Entered
  /\ home' = [home EXCEPT ![Here] = FreeAddress]
  /\ tensor' = [tensor EXCEPT ![Here] = "device"]
  /\ compute' = Append(compute, Write(Here, FreeAddress))
  /\ Advance
  /\ UNCHANGED <<buffer, offloadEvent, loadEvent, fsdpVars, copy, mem, hostMem, poolVars>>

\* The last backward of a chunk gives its memory up, the input half does not.
Backward ==
  /\ At(ComputeTypes \ {"FWD"}) /\ Fits
  /\ compute' = Append(compute, Read(Here, home[Here]))
  /\ IF Step.type = "BWD_INPUT" THEN UNCHANGED <<home, tensor>>
     ELSE /\ home' = [home EXCEPT ![Here] = 0]
          /\ tensor' = [tensor EXCEPT ![Here] = "none"]
  /\ Advance
  /\ UNCHANGED <<buffer, groups, offloadEvent, loadEvent, fsdpVars, copy, mem, hostMem, poolVars>>

\* A computation raises.
Raises ==
  /\ At(ComputeTypes) /\ run <= FailingRuns
  /\ phase' = "closing" /\ failed' = TRUE
  /\ groups' = IF Step.type = "FWD" THEN Entered ELSE groups
  /\ UNCHANGED <<setup, run, at, home, tensor, buffer, offloadEvent, loadEvent, fsdpVars, streamVars, poolVars>>

-----------------------------------------------------------------------------
(* Sharded parameters *)

Shard ==
  /\ At(FsdpTypes)
  /\ gathered' = CASE Step.type = "FSDP_UNSHARD" -> gathered \cup {Step.stage}
                   [] OTHER -> gathered \ {Step.stage}
  /\ reduced' = IF Step.type = "FSDP_REDUCE_GRAD" THEN reduced \cup {Step.stage} ELSE reduced
  /\ Advance
  /\ UNCHANGED <<chunkVars, streamVars, poolVars>>

-----------------------------------------------------------------------------
(* Swap *)

\* launch_offload, first part: the copy stream is to wait for the forward.
LaunchOffload ==
  LET before == Event("beforeOffload", Here) IN
  /\ At({"SWAP_LAUNCH_OFFLOAD"}) /\ Fits
  /\ compute' = Append(compute, RecordOf(before))
  /\ copy' = Append(copy, WaitOf(before))
  /\ offloadEvent' = offloadEvent \cup {Here}
  /\ Recorded({before})
  /\ phase' = "acquire"
  /\ UNCHANGED <<setup, run, at, failed, home, tensor, buffer, groups, loadEvent, fsdpVars, mem, hostMem>>

\* Second part: a host buffer from the pool, for which the host may have to
\* wait.  A refusal, a failed allocation and a failed wait end the run.
AcquireBuffer ==
  /\ phase = "acquire"
  /\ Pool!Acquire(Host, 1) \/ Pool!Resume(Host)
  /\ phase' = CASE lent' # lent -> "copy" [] pc'[Host] # "idle" -> "acquire" [] OTHER -> "closing"
  /\ failed' = (failed \/ phase' = "closing")
  /\ buffer' = [buffer EXCEPT ![Here] = IF lent' = lent THEN @ ELSE CHOOSE b \in lent' \ lent : TRUE]
  /\ UNCHANGED <<setup, run, at, home, tensor, groups, offloadEvent, loadEvent, fsdpVars, streamVars>>

\* Third part: the copy, and the event behind it.
Offload ==
  LET after == Event("offload", Here) IN
  /\ phase = "copy"
  /\ copy' = copy \o <<ToHost(Here, home[Here], buffer[Here]), RecordOf(after)>>
  /\ Recorded({after})
  /\ tensor' = [tensor EXCEPT ![Here] = "d2h"]
  /\ phase' = "run" /\ at' = at + 1
  /\ UNCHANGED <<setup, run, failed, home, buffer, groups, offloadEvent, loadEvent, fsdpVars, compute, mem, hostMem>>

\* Faulty variant: the compute stream does not wait.
WaitOffloadUnordered ==
  /\ At({"SWAP_WAIT_OFFLOAD"}) /\ Fits
  /\ offloadEvent' = offloadEvent \ {Here}
  /\ home' = [home EXCEPT ![Here] = 0]
  /\ tensor' = [tensor EXCEPT ![Here] = "host"]
  /\ Advance
  /\ UNCHANGED <<buffer, groups, loadEvent, fsdpVars, compute, copy, mem, hostMem, poolVars>>

\* wait_offload: the compute stream waits, the host gives the memory up.
WaitOffload ==
  /\ At({"SWAP_WAIT_OFFLOAD"}) /\ Fits
  /\ compute' = AwaitEvent(compute, Event("offload", Here))
  /\ offloadEvent' = offloadEvent \ {Here}
  /\ home' = [home EXCEPT ![Here] = 0]
  /\ tensor' = [tensor EXCEPT ![Here] = "host"]
  /\ Advance
  /\ UNCHANGED <<buffer, groups, loadEvent, fsdpVars, copy, mem, hostMem, poolVars>>

\* launch_load: memory again, whose earlier use the copy stream waits for.
LaunchLoad ==
  LET before == Event("beforeLoad", Here)  after == Event("load", Here) IN
  /\ At({"SWAP_LAUNCH_LOAD"}) /\ Fits
  /\ home' = [home EXCEPT ![Here] = FreeAddress]
  /\ compute' = Append(compute, RecordOf(before))
  /\ copy' = copy \o <<WaitOf(before), ToDevice(Here, FreeAddress, buffer[Here]), RecordOf(after)>>
  /\ Recorded({before, after})
  /\ loadEvent' = loadEvent \cup {Here}
  /\ tensor' = [tensor EXCEPT ![Here] = "h2d"]
  /\ Advance
  /\ UNCHANGED <<buffer, groups, offloadEvent, fsdpVars, mem, hostMem>>

\* Faulty variant: the buffer is available at once.
WaitLoadReleasing ==
  /\ At({"SWAP_WAIT_LOAD"}) /\ Fits
  /\ compute' = AwaitEvent(compute, Event("load", Here))
  /\ tensor' = [tensor EXCEPT ![Here] = "device"]
  /\ Pool!ReleaseNow(buffer[Here])
  /\ buffer' = [buffer EXCEPT ![Here] = None]
  /\ loadEvent' = loadEvent \ {Here}
  /\ Advance
  /\ UNCHANGED <<home, groups, offloadEvent, fsdpVars, copy, mem, hostMem>>

\* wait_load: the buffer goes back to the pool behind the load.
WaitLoad ==
  /\ At({"SWAP_WAIT_LOAD"}) /\ Fits
  /\ compute' = AwaitEvent(compute, Event("load", Here))
  /\ tensor' = [tensor EXCEPT ![Here] = "device"]
  /\ Pool!ReleaseAfter(buffer[Here], Event("load", Here))
  /\ buffer' = [buffer EXCEPT ![Here] = None]
  /\ loadEvent' = loadEvent \ {Here}
  /\ Advance
  /\ UNCHANGED <<home, groups, offloadEvent, fsdpVars, copy, mem, hostMem>>

-----------------------------------------------------------------------------
(* Runs *)

BeginRun ==
  /\ phase = "idle" /\ run < Runs
  /\ run' = run + 1 /\ at' = 1 /\ phase' = "run"
  /\ reduced' = {}
  /\ UNCHANGED <<setup, failed, chunkVars, gathered, streamVars, poolVars>>

Close ==
  /\ phase = "run" /\ at > Len(program)
  /\ phase' = "closing"
  /\ UNCHANGED <<setup, run, at, failed, chunkVars, fsdpVars, streamVars, poolVars>>

\* Faulty variant: the group is dropped with its buffer.
AbortGroupKeeping(c) ==
  /\ phase = "closing" /\ c \in groups
  /\ buffer' = [buffer EXCEPT ![c] = None]
  /\ groups' = groups \ {c}
  /\ offloadEvent' = offloadEvent \ {c} /\ loadEvent' = loadEvent \ {c}
  /\ UNCHANGED <<hostVars, home, tensor, fsdpVars, streamVars, poolVars>>

\* abort_group: the host waits for the transfers whose events the group still
\* has, then gives its buffer back.
Settled(c) == /\ c \in offloadEvent => Event("offload", c) \in done
              /\ c \in loadEvent => Event("load", c) \in done
AbortGroup(c) ==
  /\ phase = "closing" /\ c \in groups
  /\ Settled(c)
  /\ IF buffer[c] = None THEN UNCHANGED poolVars ELSE Pool!ReleaseNow(buffer[c])
  /\ buffer' = [buffer EXCEPT ![c] = None]
  /\ groups' = groups \ {c}
  /\ offloadEvent' = offloadEvent \ {c} /\ loadEvent' = loadEvent \ {c}
  /\ UNCHANGED <<hostVars, home, tensor, fsdpVars, streamVars>>

\* What a failed run still holds is given up at once, the earliest the
\* program may do so.
EndRun ==
  /\ phase = "closing" /\ groups = {}
  /\ phase' = "idle"
  /\ home' = [c \in Chunks |-> 0] /\ tensor' = [c \in Chunks |-> "none"]
  /\ UNCHANGED <<setup, run, at, failed, buffer, groups, offloadEvent, loadEvent, fsdpVars, streamVars, poolVars>>

-----------------------------------------------------------------------------
(* The device *)

\* The head of a stream is executed, once the event it waits for is there.
Execute(head) ==
  /\ head[1] = "wait" => head[2] \in done
  /\ IF head[1] = "record" THEN Pool!Complete(head[2]) ELSE UNCHANGED poolVars
  /\ mem' = CASE head[1] = "write"    -> [mem EXCEPT ![head[3]] = head[4]]
              [] head[1] = "toDevice" -> [mem EXCEPT ![head[3]] = hostMem[head[4]]]
              [] OTHER -> mem
  /\ hostMem' = IF head[1] = "toHost" THEN [hostMem EXCEPT ![head[4]] = mem[head[3]]] ELSE hostMem
  /\ UNCHANGED <<hostVars, chunkVars, fsdpVars>>

ComputeStream ==
  /\ compute # <<>> /\ Execute(Head(compute))
  /\ compute' = Tail(compute) /\ UNCHANGED copy
CopyStream ==
  /\ copy # <<>> /\ Execute(Head(copy))
  /\ copy' = Tail(copy) /\ UNCHANGED compute

\* All runs are over and the streams are empty.
Finished ==
  /\ phase = "idle" /\ run = Runs /\ compute = <<>> /\ copy = <<>>
  /\ UNCHANGED vars

-----------------------------------------------------------------------------
(* Specification *)

Init ==
  /\ job \in Jobs /\ program = ProgramOf(job)
  /\ run = 0 /\ at = 1 /\ phase = "idle" /\ failed = FALSE
  /\ home = [c \in Chunks |-> 0] /\ tensor = [c \in Chunks |-> "none"]
  /\ buffer = [c \in Chunks |-> None]
  /\ groups = {} /\ offloadEvent = {} /\ loadEvent = {}
  /\ gathered = {} /\ reduced = {}
  /\ compute = <<>> /\ copy = <<>>
  /\ mem = [a \in Addresses |-> None] /\ hostMem = [b \in Blocks |-> None]
  /\ Pool!Init

Next ==
  \/ BeginRun \/ Forward \/ Backward \/ Raises \/ Shard
  \/ LaunchOffload \/ AcquireBuffer \/ Offload \/ WaitOffload \/ LaunchLoad \/ WaitLoad
  \/ Close \/ \E c \in Chunks : AbortGroup(c)
  \/ EndRun
  \/ ComputeStream \/ CopyStream
  \/ Finished

Spec == Init /\ [][Next]_vars

-----------------------------------------------------------------------------
(* Properties *)

\* A backward reads what its own forward saved, whatever used the memory or
\* the host buffer in between and however far the streams are behind.
SavedTensorsSurvive ==
  compute # <<>> /\ Head(compute)[1] = "read" => mem[Head(compute)[3]] = Head(compute)[4]

\* The order brings every step to a state it fits: parameters are gathered
\* where they are needed, and a tensor is offloaded, given up, loaded and
\* awaited in that order and before its backward.
StepsInOrder == Walking => Fits

\* A queued copy works on a host buffer that its chunk still holds, or that
\* waits in the pool for the event behind the copy.  abort_group, which promises
\* to "synchronize in-flight transfers", does not keep this.
BuffersQuiet ==
  \A i \in DOMAIN copy : copy[i][1] \in {"toHost", "toDevice"} =>
    LET b == copy[i][4]
    IN \/ b \in lent /\ buffer[copy[i][2]] = b
       \/ b \in pending \cup Pool!Waited /\ event[b] \notin done

\* What holds of it: in histories without a failed run, launch_offload to
\* wait_load hand a buffer over in this way only.
HostBuffersQuiet == ~failed => BuffersQuiet

\* Between two runs every host buffer is back in the pool, also after a run
\* that raised in the middle of its transfers.
BuffersReturned == phase = "idle" => lent = {}

\* The gradients of a stage are reduced once per run, behind its last backward.
GradientsReducedLast ==
  job.shape.fsdp =>
    /\ At(ComputeTypes \ {"FWD"}) => Step.stage \notin reduced
    /\ phase = "run" /\ at > Len(program) =>
         reduced = {s \in Stages(job.shape) : RankOf(job.shape, s) = job.rank}

=============================================================================
