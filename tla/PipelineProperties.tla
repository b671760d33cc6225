-------------------------- MODULE PipelineProperties --------------------------
(***************************************************************************)
(* What the ranks of a pipeline must never do, and what they must get done. *)
(***************************************************************************)
EXTENDS PipelineRuntime

Operation ==
  [dir : {"send", "recv"}, kind : {"metadata", "data", "activation", "gradient"},
   edge : Stages(shape), micro : Micros(shape), turn : 1..Turns(shape)]
Places == Stages(shape) \X Micros(shape)
Keys == {"activation", "gradient"} \X Stages(shape) \X Micros(shape)

\* Every variable has its type; a rank waits inline for at most one group, and
\* the second thread is left at most one call.
TypeOK ==
  /\ shape \in Shapes /\ fault \in Faults(shape)
  /\ turn \in [Ranks(shape) -> 1..Turns(shape) + 1]
  /\ \A r \in Ranks(shape) :
       /\ position[r] \in 1..Len(program[r]) + 1
       /\ Len(side[r]) <= 1
       /\ launches[r] \in Seq(Seq(Operation))
       /\ \A c \in Communicators : wire[r][c] \in Seq(Seq(Operation))
       /\ blocked[r] \subseteq Operation /\ sendHandles[r] \subseteq Operation
       /\ done[r] \subseteq Operation
       /\ \A h \in recvHandles[r] : h.key \in Keys /\ h.group \subseteq Operation
       /\ data[r] \subseteq Micros(shape)
  /\ outputs \cup graphs \cup inputGrads \cup dwState \subseteq Places
  /\ argInfo \cup gradInfo \subseteq Places
  /\ buffers \subseteq Keys
  /\ ran \subseteq (1..Turns(shape)) \X ({"FWD"} \cup BackwardTypes) \X Stages(shape) \X Micros(shape)
  /\ raised \subseteq Ranks(shape)

-----------------------------------------------------------------------------
(* Matching *)

\* When the library executes two groups, every tensor sent is the one the
\* other end means to receive: same kind, edge, micro batch and run.  Sends
\* carry no tag: the two orders alone make it so.
TransfersMatch ==
  \A r, q \in Ranks(shape), class \in {"pair", "edge", "group"} :
    CanExecute(class, r, q) =>
      LET mine == Only(Head(wire[r][End(class, q)]), "send")
          theirs == Only(Head(wire[q][End(class, r)]), "recv")
      IN \A i \in DOMAIN mine : theirs[i] = Partner(mine[i])

\* When the heads of two communicator ends address each other they fit
\* together: no end receives what faces a receive, no batch faces half of itself.
\* scheduler.py states it as the two transport invariants.
HeadsComplement ==
  \A r, q \in Ranks(shape), class \in {"pair", "edge", "group"} :
    LET mine == wire[r][End(class, q)]
        theirs == wire[q][End(class, r)]
    IN mine # <<>> /\ theirs # <<>> /\ PeerOf(mine[1][1]) = q /\ PeerOf(theirs[1][1]) = r
         => Complementary(mine[1], theirs[1])

\* No rank raises but the one whose model does.  None finds a payload, an input,
\* a graph or a gradient missing: no send of an output that is not there, no
\* forward before its receive, no weight half before its input half.
NothingRaises == \A r \in raised : fault # NoFault /\ RankOf(shape, fault[1]) = r

-----------------------------------------------------------------------------
(* What the computations see *)

\* The ranks together implement the data flow of a pipeline, run by run; in
\* particular every computation is done once in every run, unless one raises.
Dataflow == INSTANCE PipelineDataflow WITH shape <- shape, ran <- ran, failed <- raised # {}
KeepsDataflow == Dataflow!Spec

-----------------------------------------------------------------------------
(* Resources *)

Owns(r, at) == RankOf(shape, at[1]) = r
Activations(r) == {at \in graphs \cup dwState : Owns(r, at)}

\* A rank leaves a run with nothing cached, no receive buffer held and every
\* receive consumed: the next run, over the same micro indices, starts clean.
CleanRuns ==
  [][\A r \in Ranks(shape) : turn'[r] # turn[r] =>
       /\ \A at \in outputs \cup graphs \cup inputGrads \cup dwState : ~Owns(r, at)
       /\ \A b \in buffers : RankOf(shape, b[2]) # r
       /\ recvHandles[r] = {}]_vars

\* Activations a rank may hold: the warm-up of the schedule and the forward in
\* hand, one more while an overlap has two micro batches in hand.
PeakOf(r) ==
  CASE shape.style = "gpipe" -> shape.micros
    [] shape.style = "1f1b" -> shape.ranks - r
    [] OTHER -> shape.chunks * shape.ranks
                  + (IF shape.lessMemory THEN 0 - r ELSE shape.ranks - 1 - 2 * r)
                  + (IF shape.overlapBF THEN 1 ELSE 0)
\* A rank never holds more than that when the micro batches fill whole rounds.
PeakActivations ==
  (shape.style = "interleaved" => RoundSize(shape, 0) <= shape.ranks)
    => \A r \in Ranks(shape) : Cardinality(Activations(r)) <= PeakOf(r)

-----------------------------------------------------------------------------
(* Progress *)

\* A run() that raised returns: the waits of its error path come to an end.
ErrorsSurface == (raised # {}) ~> (\A r \in raised : Returned(r))
==============================================================================
