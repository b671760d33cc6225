--------------------------- MODULE PipelineRuntime ---------------------------
(***************************************************************************)
(* Every rank executes its order (PipelineScheduleRuntime.run_microbatches  *)
(* over PipelineStage).  A rank walks its leaf calls on the main thread,    *)
(* except that a registered callback runs the backward of an overlap on a   *)
(* second thread.                                                           *)
(*                                                                         *)
(* A communication call first exchanges tensor metadata when the stage has  *)
(* not done so (blocking), then does the stage's bookkeeping, then launches *)
(* one group of operations per peer and either waits for them or leaves the *)
(* handles to the step that consumes the data and to the end of the run.    *)
(*                                                                         *)
(* The communication library is external.  Operations launched on one       *)
(* communicator execute in launch order: plain ones, metadata and data on   *)
(* the communicator of a pair of ranks, batches on the one of the pipeline  *)
(* group, or of the edge under multi_stream.  The two groups at the heads   *)
(* of both ends execute together when they are complementary, and not       *)
(* before.  Ranks run the schedule several times with no other barrier.      *)
(***************************************************************************)
EXTENDS ScheduleInjections

CONSTANTS Shapes,  \* the shapes to run, see PipelineSteps
          Turns(_),  \* how many times run() is called for a shape
          Faults(_)  \* forwards in which the model may raise, as <<stage, micro>>

ASSUME TurnsAssumption == \A s \in Shapes : Turns(s) \in Nat \ {0}
\* On a single rank nothing is sent, and a stage behind the first has no input.
ASSUME ShapesAssumption == \A s \in Shapes : s.ranks \in Nat \ {0, 1}

VARIABLES
  shape,       \* what the schedule was built for
  program,     \* program[r]: the leaf calls of exec_order[r]
  fault,       \* the forward in which the model raises, NoFault if in none
  turn,        \* turn[r]: the run() rank r is in, one more after the last
  position,    \* position[r]: next leaf call of the main thread of r
  side,        \* side[r]: the call left to the second thread of an overlap
  launches,    \* launches[r]: groups built and not launched yet
  blocked,     \* blocked[r]: operations the main thread waits for inline
  wire,        \* wire[r][c]: groups launched on communicator c and not executed
  done,        \* done[r]: operations of r that are complete
  recvHandles, \* recvHandles[r]: fwd_handle_cache and bwd_handle_cache
  sendHandles, \* sendHandles[r]: _send_handles
  outputs,     \* fwd_outputs_cache of all stages, as <<stage, micro>>
  graphs,      \* fwd_cache
  inputGrads,  \* bwd_cache
  dwState,     \* _dw_cache
  argInfo,     \* args_recv_info
  gradInfo,    \* grad_recv_info
  buffers,     \* receive buffers in args_recv_info and grad_recv_info
  data,        \* data[r]: micro batches the DATA steps have brought to r
  ran,         \* computations done, as <<turn, type, stage, micro>>
  raised       \* ranks whose run() raised

rankVars  == <<turn, position, side>>
commVars  == <<launches, blocked, wire, done, recvHandles, sendHandles>>
cacheVars == <<outputs, graphs, inputGrads, dwState>>
infoVars  == <<argInfo, gradInfo, buffers, data>>
setup == <<shape, program, fault>>
vars == <<setup, rankVars, commVars, cacheVars, infoVars, ran, raised>>

-----------------------------------------------------------------------------
(* Operations *)

\* An operation of a rank: a send or receive of metadata, data, an activation
\* or a gradient of a micro batch over the edge between stages edge, edge + 1.
Op(dir, kind, edge, micro, t) ==
  [dir |-> dir, kind |-> kind, edge |-> edge, micro |-> micro, turn |-> t]
Opposite(dir) == IF dir = "send" THEN "recv" ELSE "send"
Partner(op) == [op EXCEPT !.dir = Opposite(@)]

\* The operation of a communication step.
DirOf(step) ==
  IF step.type \in {"FWD_SEND", "BWD_SEND", "DATA_SEND"} THEN "send" ELSE "recv"
KindOf(step) ==
  CASE step.type \in {"FWD_SEND", "FWD_RECV"} -> "activation"
    [] step.type \in {"BWD_SEND", "BWD_RECV"} -> "gradient"
    [] OTHER -> "data"
EdgeOf(step) ==
  IF step.type \in {"FWD_SEND", "BWD_RECV", "DATA_SEND"} THEN step.stage ELSE step.stage - 1
OpOf(step, t) == Op(DirOf(step), KindOf(step), EdgeOf(step), step.micro, t)
MetaOpOf(step, t) == [OpOf(step, t) EXCEPT !.kind = "metadata"]

\* The rank at the other end: gradients flow from the higher stage.
PeerOf(op) ==
  RankOf(shape, IF (op.dir = "send") = (op.kind # "gradient") THEN op.edge + 1 ELSE op.edge)

\* The communicator a group goes to: _p2p_op for tensors, the default group
\* for the rest.
Communicators ==
  {<<c, q>> : c \in {"pair", "edge"}, q \in Ranks(shape)} \cup {<<"group", -1>>}
CommunicatorOf(kind, peer) ==
  CASE kind \in {"metadata", "data"} \/ Transport(shape) = "plain" -> <<"pair", peer>>
    [] Transport(shape) = "multi_stream" -> <<"edge", peer>>
    [] OTHER -> <<"group", -1>>

\* Operations launched together are with one peer.
Launch(channels, group) ==
  [channels EXCEPT ![CommunicatorOf(group[1].kind, PeerOf(group[1]))] = Append(@, group)]
GroupByPeer(ops) ==
  LET first(i) == \A j \in 1..i - 1 : PeerOf(ops[j]) # PeerOf(ops[i])
      group(i) == SelectSeq(ops, LAMBDA op : PeerOf(op) = PeerOf(ops[i]))
  IN FlattenSeq([i \in DOMAIN ops |-> When(first(i), <<group(i)>>)])

\* Two groups execute together when each sends as many as the other receives.
Only(group, dir) == SelectSeq(group, LAMBDA op : op.dir = dir)
Complementary(g, h) ==
  /\ Len(Only(g, "send")) = Len(Only(h, "recv"))
  /\ Len(Only(g, "recv")) = Len(Only(h, "send"))

-----------------------------------------------------------------------------
(* What a rank executes *)

IsDataStep(step) == step.type \in {"DATA_LOAD", "DATA_SEND", "DATA_RECV"}

\* Data steps do nothing without a data iterator, loads happen on stage 0 only.
\* The control steps of sharded parameters and of activation swap touch no
\* other rank of the pipeline.
IsNoOp(s, step) ==
  \/ step = Bubble
  \/ IsDataStep(step) /\ ~s.dataIter
  \/ step.type = "DATA_LOAD" /\ ~IsFirst(step.stage)
  \/ step.type \in FsdpTypes \cup SwapTypes

\* The leaf calls of a step.  A callback forks the backward, runs the forward
\* and joins; without one the halves run one after the other.  The boundary
\* operations are issued behind both: _init_stages sets an after-forward hook
\* that would issue them earlier, but no stage calls it.
LeafCalls(s, step) ==
  CASE IsOverlap(step) /\ s.callback ->
         <<Composite("FORK", <<step.subs[1]>>, <<>>), step.subs[2],
           Composite("JOIN", <<>>, <<>>)>> \o step.boundary
    [] IsOverlap(step) /\ ~s.callback -> step.subs \o step.boundary
    [] OTHER -> When(~IsNoOp(s, step), <<step>>)

\* The leaf calls of every rank, in the order the schedule's constructor builds.
LeafCallsOf(s, order) == FlattenSeq([i \in DOMAIN order |-> LeafCalls(s, order[i])])
ProgramsOf(s) ==
  LET orders == BuildExecOrder(s)
  IN [r \in Ranks(s) |-> LeafCallsOf(s, orders[r + 1])]

Stopped(r) == turn[r] > Turns(shape) \/ r \in raised
\* The main thread is neither inside a launch nor waiting for one.
Free(r) == ~Stopped(r) /\ launches[r] = <<>> /\ blocked[r] \subseteq done[r]
AtEnd(r) == position[r] > Len(program[r])
Current(r) == program[r][position[r]]
Reaches(r, types) == Free(r) /\ ~AtEnd(r) /\ Current(r).type \in types
Advance(r) == position' = [position EXCEPT ![r] = @ + 1]

NoFault == <<-1, -1>>

\* Where a computation or a communication step belongs in the caches.
At(step) == <<step.stage, step.micro>>
BuffersAt(kind, places) == {<<kind, at[1], at[2]>> : at \in places}

Init ==
  /\ shape \in Shapes /\ program = ProgramsOf(shape) /\ fault \in Faults(shape)
  /\ turn = [r \in Ranks(shape) |-> 1]
  /\ position = [r \in Ranks(shape) |-> 1]
  /\ side = [r \in Ranks(shape) |-> <<>>]
  /\ launches = [r \in Ranks(shape) |-> <<>>]
  /\ blocked = [r \in Ranks(shape) |-> {}]
  /\ wire = [r \in Ranks(shape) |-> [c \in Communicators |-> <<>>]]
  /\ done = [r \in Ranks(shape) |-> {}]
  /\ recvHandles = [r \in Ranks(shape) |-> {}]
  /\ sendHandles = [r \in Ranks(shape) |-> {}]
  /\ outputs = {} /\ graphs = {} /\ inputGrads = {} /\ dwState = {}
  /\ argInfo = {} /\ gradInfo = {} /\ buffers = {}
  /\ data = [r \in Ranks(shape) |-> {}]
  /\ ran = {} /\ raised = {}

-----------------------------------------------------------------------------
(* Communication steps *)

CommTypes == P2PTypes \cup {"BATCH_SEND_RECV"}
Subs(step) == IF step.type = "BATCH_SEND_RECV" THEN step.subs ELSE <<step>>
AtOf(subs, type) == {At(subs[i]) : i \in {j \in DOMAIN subs : subs[j].type = type}}

\* Faulty variant: with dynamic shapes only senders repeat the exchange.
ExchangedOnceByReceivers(r, op) ==
  \E o \in done[r] :
    /\ o.kind = "metadata" /\ o.dir = op.dir /\ o.edge = op.edge
    /\ shape.dynShape /\ op.dir = "send" => o = op
\* _communicate_meta: once per stage and direction, or for every micro batch.
Exchanged(r, op) ==
  \E o \in done[r] :
    /\ o.kind = "metadata" /\ o.dir = op.dir /\ o.edge = op.edge
    /\ shape.dynShape => o = op
NeedsMeta(r, sub) ==
  sub.type \in {"FWD_SEND", "FWD_RECV"} /\ ~Exchanged(r, MetaOpOf(sub, turn[r]))

\* A send whose payload is not in the stage's cache raises.
NoPayload(sub) ==
  \/ sub.type = "FWD_SEND" /\ At(sub) \notin outputs
  \/ sub.type = "BWD_SEND" /\ At(sub) \in argInfo /\ At(sub) \notin inputGrads
Prepared(r, subs, n) ==
  \A i \in 1..n : ~NoPayload(subs[i]) /\ ~NeedsMeta(r, subs[i])

ExchangeMeta(r) ==
  /\ Reaches(r, CommTypes)
  /\ LET subs == Subs(Current(r)) IN
     \E i \in DOMAIN subs :
       /\ Prepared(r, subs, i - 1) /\ ~NoPayload(subs[i]) /\ NeedsMeta(r, subs[i])
       /\ LET op == MetaOpOf(subs[i], turn[r]) IN
            /\ wire' = [wire EXCEPT ![r] = Launch(@, <<op>>)]
            /\ blocked' = [blocked EXCEPT ![r] = {op}]
  /\ UNCHANGED <<setup, rankVars, launches, done, recvHandles, sendHandles,
                 cacheVars, infoVars, ran, raised>>

\* fwd_recv_specs, fwd_send_specs, bwd_recv_specs, bwd_send_specs: a gradient
\* is received only for a forward that was sent, and sent only for one that was
\* received; otherwise the step silently has no operation.
Specs(r, subs) ==
  LET grads(i) == gradInfo \cup AtOf(SubSeq(subs, 1, i - 1), "FWD_SEND")
      expected(i) == /\ subs[i].type = "BWD_RECV" => At(subs[i]) \in grads(i)
                     /\ subs[i].type = "BWD_SEND" => At(subs[i]) \in argInfo
  IN FlattenSeq([i \in DOMAIN subs |-> When(expected(i), <<OpOf(subs[i], turn[r])>>)])

Communicate(r) ==
  /\ Reaches(r, CommTypes)
  /\ LET subs == Subs(Current(r)) IN
       /\ Prepared(r, subs, Len(subs))
       /\ launches' = [launches EXCEPT ![r] = GroupByPeer(Specs(r, subs))]
       /\ outputs' = outputs \ AtOf(subs, "FWD_SEND")
       /\ gradInfo' = gradInfo \cup AtOf(subs, "FWD_SEND")
       /\ argInfo' = argInfo \cup AtOf(subs, "FWD_RECV")
       /\ buffers' = buffers \cup BuffersAt("activation", AtOf(subs, "FWD_RECV"))
                            \cup BuffersAt("gradient", AtOf(subs, "BWD_RECV") \cap gradInfo')
       /\ inputGrads' = inputGrads \ (AtOf(subs, "BWD_SEND") \cap argInfo)
  /\ Advance(r)
  /\ UNCHANGED <<setup, turn, side, blocked, wire, done, recvHandles, sendHandles,
                 graphs, dwState, data, ran, raised>>

\* Faulty variant: the handle caches are keyed without the stage.
KeyByMicro(op) == <<op.kind, -1, op.micro>>
Key(op) == <<op.kind, op.edge, op.micro>>

\* A group is launched once the one before it needs no waiting.  Without
\* overlap_p2p, and for data, the rank waits for it at once; otherwise a group
\* with receives is cached under each of them, one with sends only is deferred.
LaunchNext(r) ==
  /\ ~Stopped(r) /\ launches[r] # <<>> /\ blocked[r] \subseteq done[r]
  /\ LET group == Head(launches[r])
         ops == {group[i] : i \in DOMAIN group}
         keys == {Key(op) : op \in {o \in ops : o.dir = "recv"}}
         inline == ~shape.overlapP2P \/ group[1].kind = "data"
     IN /\ wire' = [wire EXCEPT ![r] = Launch(@, group)]
        /\ blocked' = [blocked EXCEPT ![r] = IF inline THEN ops ELSE {}]
        /\ recvHandles' = [recvHandles EXCEPT ![r] =
             IF inline THEN @
             ELSE {h \in @ : h.key \notin keys} \cup {[key |-> k, group |-> ops] : k \in keys}]
        /\ sendHandles' = [sendHandles EXCEPT ![r] =
             IF inline \/ keys # {} THEN @ ELSE @ \cup ops]
  /\ launches' = [launches EXCEPT ![r] = Tail(@)]
  /\ UNCHANGED <<setup, rankVars, done, cacheVars, infoVars, ran, raised>>

\* The library executes the heads of two communicator ends.
End(class, q) == IF class = "group" THEN <<"group", -1>> ELSE <<class, q>>
CanExecute(class, r, q) ==
  LET mine == wire[r][End(class, q)]
      theirs == wire[q][End(class, r)]
  IN /\ mine # <<>> /\ theirs # <<>>
     /\ PeerOf(mine[1][1]) = q /\ PeerOf(theirs[1][1]) = r
     /\ Complementary(mine[1], theirs[1])
Execute(class, r, q) ==
  /\ CanExecute(class, r, q)
  /\ LET mine == Head(wire[r][End(class, q)])
         theirs == Head(wire[q][End(class, r)])
     IN done' = [done EXCEPT ![r] = @ \cup {mine[i] : i \in DOMAIN mine},
                             ![q] = @ \cup {theirs[i] : i \in DOMAIN theirs}]
  /\ wire' = [wire EXCEPT ![r][End(class, q)] = Tail(@), ![q][End(class, r)] = Tail(@)]
  /\ UNCHANGED <<setup, rankVars, launches, blocked, recvHandles, sendHandles,
                 cacheVars, infoVars, ran, raised>>

-----------------------------------------------------------------------------
(* Computations, data steps, the end of a run *)

\* wait_fwd_recv, wait_bwd_recv: the handle cached for a computation, if any,
\* is waited for with everything that was launched with it.
Handles(r, key) == {h \in recvHandles[r] : h.key = key}
Arrived(r, key) == \A h \in Handles(r, key) : h.group \subseteq done[r]
\* Faulty variant: a handle stays in its cache after the wait.
ConsumeKeeping(r, key) == UNCHANGED recvHandles
Consume(r, key) == recvHandles' = [recvHandles EXCEPT ![r] = @ \ Handles(r, key)]

ActivationOf(step) == <<"activation", step.stage - 1, step.micro>>
GradientOf(step) == <<"gradient", step.stage, step.micro>>

\* forward_one_chunk raises without the buffer of its input, and when the model does.
ForwardReady(r, step) ==
  /\ At(step) # fault
  /\ IsFirst(step.stage) \/ BuffersAt("activation", {At(step)}) \subseteq buffers
  /\ shape.dataIter => step.micro \in data[r]
\* A backward raises without its graph, without the buffer of a gradient where it
\* needs one from the next stage, and in its weight half without the input half.
BackwardTypes == {"BWD", "BWD_INPUT", "BWD_WEIGHT"}
BackwardReady(step) ==
  IF step.type = "BWD_WEIGHT" THEN At(step) \in dwState
  ELSE /\ At(step) \in graphs
       /\ IsLast(shape, step.stage) \/ BuffersAt("gradient", {At(step)}) \subseteq buffers

Forward(r) ==
  /\ Reaches(r, {"FWD"})
  /\ LET step == Current(r) IN
       /\ Arrived(r, ActivationOf(step)) /\ ForwardReady(r, step)
       /\ Consume(r, ActivationOf(step))
       /\ outputs' = outputs \cup {At(step)}
       /\ graphs' = graphs \cup {At(step)}
       /\ ran' = ran \cup {<<turn[r], "FWD", step.stage, step.micro>>}
  /\ Advance(r)
  /\ UNCHANGED <<setup, turn, side, launches, blocked, wire, done, sendHandles,
                 inputGrads, dwState, infoVars, raised>>

\* backward_one_chunk, backward_input_one_chunk, backward_weight_one_chunk.
Backward(r, step) ==
  LET own(types) == IF step.type \in types THEN {At(step)} ELSE {} IN
  /\ Arrived(r, GradientOf(step)) /\ BackwardReady(step)
  /\ Consume(r, GradientOf(step))
  /\ graphs' = graphs \ own({"BWD", "BWD_INPUT"})
  /\ outputs' = outputs \ (IF IsLast(shape, step.stage) THEN own({"BWD", "BWD_WEIGHT"}) ELSE {})
  /\ inputGrads' = inputGrads \cup
       (IF IsFirst(step.stage) THEN {} ELSE own({"BWD", "BWD_INPUT"}))
  /\ dwState' = (dwState \cup own({"BWD_INPUT"})) \ own({"BWD_WEIGHT"})
  /\ buffers' = buffers \ UNION {BuffersAt(kind, own({"BWD", "BWD_WEIGHT"})) :
                                  kind \in {"activation", "gradient"}}
  /\ ran' = ran \cup {<<turn[r], step.type, step.stage, step.micro>>}
  /\ UNCHANGED <<setup, turn, launches, blocked, wire, done, sendHandles,
                 argInfo, gradInfo, data, raised>>

MainBackward(r) ==
  Reaches(r, BackwardTypes) /\ Backward(r, Current(r)) /\ Advance(r) /\ UNCHANGED side

\* The callback of an overlap runs the backward on a thread of its own; when
\* the forward raises the backward is still joined.
Fork(r) ==
  /\ Reaches(r, {"FORK"})
  /\ side' = [side EXCEPT ![r] = Current(r).subs]
  /\ Advance(r)
  /\ UNCHANGED <<setup, turn, commVars, cacheVars, infoVars, ran, raised>>
SideBackward(r) ==
  /\ side[r] # <<>>
  /\ Backward(r, Head(side[r]))
  /\ side' = [side EXCEPT ![r] = <<>>]
  /\ UNCHANGED position
Join(r) ==
  /\ Reaches(r, {"JOIN"}) /\ side[r] = <<>>
  /\ Advance(r)
  /\ UNCHANGED <<setup, turn, side, commVars, cacheVars, infoVars, ran, raised>>

\* _exec_data_load, _exec_data_send, _exec_data_recv: the receiver's argument
\* lists are filled before it waits.
DataStep(r) ==
  /\ Reaches(r, {"DATA_LOAD", "DATA_SEND", "DATA_RECV"})
  /\ LET step == Current(r)
         moves == step.type # "DATA_LOAD"
     IN /\ step.type = "DATA_SEND" => step.micro \in data[r]
        /\ data' = [data EXCEPT ![r] = @ \cup {step.micro}]
        /\ launches' = [launches EXCEPT ![r] = When(moves, << <<OpOf(step, turn[r])>> >>)]
  /\ Advance(r)
  /\ UNCHANGED <<setup, turn, side, blocked, wire, done, recvHandles, sendHandles,
                 cacheVars, argInfo, gradInfo, buffers, ran, raised>>

SideOver(r) ==
  side[r] # <<>> =>
    Arrived(r, GradientOf(Head(side[r]))) /\ ~BackwardReady(Head(side[r]))

\* A rank that finds a payload, an input or a graph missing raises and stops;
\* what the second thread raises comes up at the join.
Fails(r) ==
  \/ /\ Reaches(r, CommTypes)
     /\ LET subs == Subs(Current(r)) IN
        \E i \in DOMAIN subs : Prepared(r, subs, i - 1) /\ NoPayload(subs[i])
  \/ Reaches(r, {"FWD"}) /\ Arrived(r, ActivationOf(Current(r))) /\ ~ForwardReady(r, Current(r))
  \/ Reaches(r, BackwardTypes) /\ Arrived(r, GradientOf(Current(r))) /\ ~BackwardReady(Current(r))
  \/ Reaches(r, {"DATA_SEND"}) /\ Current(r).micro \notin data[r]
  \/ Reaches(r, {"JOIN"}) /\ side[r] # <<>> /\ SideOver(r)
Raise(r) ==
  /\ Fails(r)
  /\ raised' = raised \cup {r}
  /\ UNCHANGED <<setup, rankVars, commVars, cacheVars, infoVars, ran>>

\* Everything launched that no step has waited for yet.
InFlight(r) == sendHandles[r] \cup UNION {h.group : h \in recvHandles[r]}
DropHandles(r) ==
  /\ InFlight(r) \subseteq done[r]
  /\ sendHandles' = [sendHandles EXCEPT ![r] = {}]
  /\ recvHandles' = [recvHandles EXCEPT ![r] = {}]

\* The end of run(): every handle is waited for, then run() is called again;
\* what the stages keep from one run to the next stays.
EndRun(r) ==
  /\ Free(r) /\ AtEnd(r)
  /\ DropHandles(r)
  /\ turn' = [turn EXCEPT ![r] = @ + 1]
  /\ position' = [position EXCEPT ![r] = 1]
  /\ data' = [data EXCEPT ![r] = {}]
  /\ UNCHANGED <<setup, side, launches, blocked, wire, done, cacheVars, argInfo, gradInfo, buffers,
                 ran, raised>>

\* Faulty variant: the drain at the end of the order is the only one.
DrainAtEnd(r) ==
  /\ r \in raised /\ SideOver(r) /\ InFlight(r) # {} /\ AtEnd(r)
  /\ DropHandles(r)
  /\ UNCHANGED <<setup, rankVars, launches, blocked, wire, done, cacheVars, infoVars,
                 ran, raised>>

\* _drain_inflight_p2p on the error path: run() returns after the same waits.
Drain(r) ==
  /\ r \in raised /\ SideOver(r) /\ InFlight(r) # {}
  /\ DropHandles(r)
  /\ UNCHANGED <<setup, rankVars, launches, blocked, wire, done, cacheVars, infoVars,
                 ran, raised>>

-----------------------------------------------------------------------------
MainStep(r) ==
  \/ ExchangeMeta(r) \/ Communicate(r) \/ LaunchNext(r)
  \/ Forward(r) \/ MainBackward(r) \/ Fork(r) \/ Join(r)
  \/ DataStep(r) \/ Raise(r) \/ EndRun(r) \/ Drain(r)

Link(r, q) == \E class \in {"pair", "edge", "group"} : Execute(class, r, q)

Returned(r) == Stopped(r) /\ SideOver(r) /\ InFlight(r) = {}
AllFinished == \A r \in Ranks(shape) : Returned(r)
Terminated == AllFinished /\ UNCHANGED vars
\* The peers of a rank that raised may wait for good.
Abandoned == raised # {} /\ UNCHANGED vars

Next ==
  \/ \E r \in Ranks(shape) : MainStep(r) \/ SideBackward(r)
  \/ \E r, q \in Ranks(shape) : r < q /\ Link(r, q)
  \/ Terminated \/ Abandoned

\* While some thread can run or the library can execute something, something
\* happens: what every thread and every link being fair to itself implies.
\* A rank's steps of its runs are finite, so none can be passed over forever.
Fairness == WF_vars(Next)

Spec == Init /\ [][Next]_vars /\ Fairness

==============================================================================
