---------------------------- MODULE ScheduleComms ----------------------------
(***************************************************************************)
(* From the computation order of every rank to one with communication:     *)
(* add_send_recv inserts that of interleaved 1F1B, split_overlap_dxdw      *)
(* follows.  The transport's rewrites (coalesce_p2p and                    *)
(* attach_fwd_boundary_p2p) are here too; ScheduleInjections applies them. *)
(* The orders of all ranks are a sequence: that of rank r is at r + 1.     *)
(***************************************************************************)
EXTENDS ScheduleOrders

\* What a pass makes of an order, or of the orders of all ranks.
After(order, Pass(_)) == CHOOSE new \in {Pass(o) : o \in {order}} : TRUE
PerRank(shape, Of(_)) == FlattenSeq([i \in 1..shape.ranks |-> <<Of(i - 1)>>])

-----------------------------------------------------------------------------
(* add_send_recv *)

\* _expand_overlap_slots: a composite takes two time slots; it is emitted in
\* the first, and each slot sends what its own half has computed.
Slot(emits, computes) == [emits |-> emits, computes |-> computes]
ExpandOverlapSlots(order) ==
  FlattenSeq([i \in DOMAIN order |->
    IF IsOverlap(order[i])
    THEN <<Slot(<<order[i]>>, order[i].subs[1]), Slot(<<>>, order[i].subs[2])>>
    ELSE <<Slot(<<order[i]>>, order[i])>>])

\* _insert_comms_for_step: what a computation appends to its own rank, and
\* what it appends to the rank of the neighbouring stage.
CrossesRanks(shape, s, t) ==
  t \in Stages(shape) /\ RankOf(shape, s) # RankOf(shape, t)
OwnComms(shape, step) ==
  LET s == step.stage IN
  CASE step.type = "FWD" /\ CrossesRanks(shape, s, s + 1) -> SendForward(s, step.micro)
    [] step.type = "BWD" /\ CrossesRanks(shape, s, s - 1) ->
         <<MetaStep("BWD_SEND", s, step.micro)>>
    [] OTHER -> <<>>
PeerComms(shape, step, rank) ==
  LET s == step.stage IN
  CASE step.type = "FWD" /\ CrossesRanks(shape, s, s + 1) /\ RankOf(shape, s + 1) = rank ->
         RecvForward(s + 1, step.micro)
    [] step.type = "BWD" /\ CrossesRanks(shape, s, s - 1) /\ RankOf(shape, s - 1) = rank ->
         <<MetaStep("BWD_RECV", s - 1, step.micro)>>
    [] OTHER -> <<>>

\* _process_rank_items: even ranks before odd ones.
ScanOrder(shape) ==
  SelectSeq([i \in 1..shape.ranks |-> i - 1], LAMBDA r : r % 2 = 0)
    \o SelectSeq([i \in 1..shape.ranks |-> i - 1], LAMBDA r : r % 2 = 1)

\* What the step of rank q in slot t appends to rank r.
Comms(shape, slots, q, t, r) ==
  IF t > Len(slots[q + 1]) THEN <<>>
  ELSE LET step == slots[q + 1][t].computes
       IN IF q = r THEN OwnComms(shape, step) ELSE PeerComms(shape, step, r)
Emits(slots, t, r) == IF t > Len(slots[r + 1]) THEN <<>> ELSE slots[r + 1][t].emits

\* Faulty variant: a rank's own sends come before what the other ranks append.
ColumnOwnFirst(shape, slots, t, r) ==
  LET others == SelectSeq(ScanOrder(shape), LAMBDA q : q # r)
  IN Emits(slots, t, r) \o Comms(shape, slots, r, t, r)
       \o FlattenSeq([i \in DOMAIN others |-> Comms(shape, slots, others[i], t, r)])

\* _column_scan_insert_comms: slot by slot, a rank gets its own step, then the
\* communication of every rank's step of that slot.
Column(shape, slots, t, r) ==
  LET order == ScanOrder(shape)
  IN Emits(slots, t, r)
       \o FlattenSeq([i \in DOMAIN order |-> Comms(shape, slots, order[i], t, r)])
ColumnScan(shape, slots) ==
  LET length == CHOOSE n \in {Len(slots[i]) : i \in DOMAIN slots} :
                  \A i \in DOMAIN slots : Len(slots[i]) <= n
  IN PerRank(shape, LAMBDA r : FlattenSeq([t \in 1..length |-> Column(shape, slots, t, r)]))

\* _insert_dataload_before_fwd: a load in front of every forward.
LoadsFor(step) ==
  LET forwards == SelectSeq(IF IsOverlap(step) THEN step.subs ELSE <<step>>,
                            LAMBDA x : x.type = "FWD")
  IN [i \in DOMAIN forwards |-> MetaStep("DATA_LOAD", forwards[i].stage, forwards[i].micro)]
InsertDataload(order) ==
  FlattenSeq([i \in DOMAIN order |-> LoadsFor(order[i]) \o <<order[i]>>])

AddSendRecv(shape, orders) ==
  LET slots == PerRank(shape, LAMBDA r : ExpandOverlapSlots(orders[r + 1]))
      scanned == ColumnScan(shape, slots)
  IN PerRank(shape, LAMBDA r : InsertDataload(scanned[r + 1]))

-----------------------------------------------------------------------------
(* Rewrites of one rank's order.  A run is a maximal stretch of P2P steps.  *)

\* _p2p_run_after: the last index of the run that starts behind index i.
RunEnd(order, i) ==
  CHOOSE j \in i..Len(order) :
    /\ \A k \in i + 1..j : IsP2P(order[k])
    /\ j = Len(order) \/ ~IsP2P(order[j + 1])
RunAfter(order, i) == SubSeq(order, i + 1, RunEnd(order, i))
\* The index in front of the run that index i lies in (i itself outside a run).
RunOwner(order, i) ==
  CHOOSE j \in 0..i :
    /\ \A k \in j + 1..i : IsP2P(order[k])
    /\ j = 0 \/ ~IsP2P(order[j])

\* split_overlap_dxdw: the backward of an overlap keeps its input half there;
\* the weight half comes behind the run that follows.
SplitsBackward(step) ==
  /\ IsOverlap(step)
  /\ step.subs[1].type = "BWD" /\ ~IsFirst(step.subs[1].stage)
WithInputHalf(step) ==
  Composite("OVERLAP_B_F",
            <<[step.subs[1] EXCEPT !.type = "BWD_INPUT"], step.subs[2]>>, step.boundary)
SplitDxDw(order) ==
  LET weightHalf(i) ==
        LET owner == RunOwner(order, i) IN
        IF owner > 0 /\ i = RunEnd(order, owner) /\ SplitsBackward(order[owner])
        THEN <<[order[owner].subs[1] EXCEPT !.type = "BWD_WEIGHT"]>> ELSE <<>>
  IN FlattenSeq([i \in DOMAIN order |->
       <<IF SplitsBackward(order[i]) THEN WithInputHalf(order[i]) ELSE order[i]>>
         \o weightHalf(i)])

\* coalesce_p2p: a run of two or more steps becomes one batch.
CoalesceP2P(order) ==
  FlattenSeq([i \in DOMAIN order |->
    IF ~IsP2P(order[i]) THEN <<order[i]>>
    ELSE LET owner == RunOwner(order, i)
             run == RunAfter(order, owner)
         IN IF Len(run) < 2 THEN <<order[i]>>
            ELSE When(i = owner + 1, <<Composite("BATCH_SEND_RECV", run, <<>>)>>)])

\* _split_boundary_run: the send of the overlap's own forward and every
\* receive leave at the boundary, the rest stays behind the overlap.
OwnForwardSend(overlap, step) ==
  step.type = "FWD_SEND" /\ \E i \in DOMAIN overlap.subs :
    /\ overlap.subs[i].type = "FWD"
    /\ overlap.subs[i].stage = step.stage /\ overlap.subs[i].micro = step.micro
BoundaryPart(overlap, run) ==
  SelectSeq(run, LAMBDA x : OwnForwardSend(overlap, x))
    \o SelectSeq(run, LAMBDA x : x.type \in RecvTypes)
LeftoverPart(overlap, run) ==
  SelectSeq(run, LAMBDA x : ~OwnForwardSend(overlap, x) /\ x.type \notin RecvTypes)

\* attach_fwd_boundary_p2p
AttachBoundary(order) ==
  LET hoists(i) == i > 0 /\ IsOverlap(order[i])
                     /\ BoundaryPart(order[i], RunAfter(order, i)) # <<>>
  IN FlattenSeq([i \in DOMAIN order |->
       IF hoists(i)
       THEN LET run == RunAfter(order, i) IN
            <<[order[i] EXCEPT !.boundary = BoundaryPart(order[i], run)]>>
              \o LeftoverPart(order[i], run)
       ELSE When(~(IsP2P(order[i]) /\ hoists(RunOwner(order, i))), <<order[i]>>)])

-----------------------------------------------------------------------------
(* construct_exec_order *)

\* "auto" is batch under overlap_b_f and plain otherwise.
Transport(shape) ==
  IF shape.transport # "auto" THEN shape.transport
  ELSE IF shape.overlapBF THEN "batch" ELSE "plain"

ComputeOrders(shape) ==
  PerRank(shape, LAMBDA r :
    CASE shape.style = "gpipe" -> GPipeOrder(shape, r)
      [] shape.style = "1f1b" -> OneFOneBOrder(shape, r)
      [] shape.style = "interleaved" -> InterleavedOrder(shape, r))

ConstructExecOrder(shape) ==
  LET orders == ComputeOrders(shape)
      scheduled == IF shape.style = "interleaved" THEN AddSendRecv(shape, orders) ELSE orders
  IN IF shape.dxdw THEN PerRank(shape, LAMBDA r : SplitDxDw(scheduled[r + 1])) ELSE scheduled

==============================================================================
