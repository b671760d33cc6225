------------------------------ MODULE MCPipeline ------------------------------
(***************************************************************************)
(* Shapes of pipelines to check, small enough that every interleaving of    *)
(* their ranks and links is explored.                                       *)
(***************************************************************************)
EXTENDS PipelineProperties

Shape(style, ranks, chunks, micros) ==
  [style |-> style, ranks |-> ranks, chunks |-> chunks, micros |-> micros,
   lessMemory |-> FALSE, overlapBF |-> FALSE, dxdw |-> FALSE, transport |-> "auto",
   overlapP2P |-> FALSE, dynShape |-> FALSE, dataIter |-> FALSE, callback |-> FALSE,
   fsdp |-> FALSE, swap |-> FALSE]

Grid(style, ranks, chunks, micros) ==
  {Shape(style, p, v, m) : p \in ranks, v \in chunks, m \in micros}
\* Every way to exchange metadata, data and to wait.
Modes(shapes) ==
  {[s EXCEPT !.overlapP2P = o, !.dynShape = d, !.dataIter = i] :
     s \in shapes, o \in BOOLEAN, d \in BOOLEAN, i \in BOOLEAN}
Overlapped(shapes, transports) ==
  {[s EXCEPT !.overlapBF = TRUE, !.callback = c, !.dxdw = x, !.overlapP2P = TRUE, !.transport = t] :
     s \in shapes, c \in BOOLEAN, x \in BOOLEAN, t \in transports}

\* 1F1B with every number of micro batches around the number of ranks.
OneFOneBShapes == Modes(Grid("1f1b", {2, 3}, {1}, {1, 2, 4}))

\* Interleaved 1F1B: fewer micro batches than ranks, whole and uneven rounds,
\* deep and shallow warm-up, with and without a data iterator.
InterleavedShapes ==
  {[s EXCEPT !.lessMemory = l, !.dataIter = i] :
     s \in Grid("interleaved", {2, 3}, {1, 2}, {1, 2, 4, 5}), l \in BOOLEAN, i \in BOOLEAN}
  \cup Grid("interleaved", {2, 3}, {3}, {4, 7})

\* Overlap of backward and forward: batched transports, sequential or in two
\* threads, the backward whole or split.
OverlapShapes ==
  Overlapped(Grid("interleaved", {2}, {2}, {3, 4}) \cup Grid("interleaved", {3}, {2}, {2}),
             {"batch", "multi_stream"})

\* The control steps of sharded parameters and of swap stand between the
\* communication and may not tear it apart on one rank only.
InjectedShapes ==
  {[s EXCEPT !.fsdp = TRUE, !.swap = w] :
     s \in Grid("1f1b", {3}, {1}, {4}) \cup Grid("interleaved", {2}, {2}, {4})
            \cup {[Shape("interleaved", 2, 2, 4) EXCEPT
                    !.overlapBF = TRUE, !.dxdw = x, !.overlapP2P = TRUE] : x \in BOOLEAN},
     w \in BOOLEAN}

\* Shapes of every style and transport, to be run twice over the same caches.
RepeatedShapes ==
  Modes(Grid("gpipe", {2}, {1}, {2}) \cup Grid("1f1b", {2}, {1}, {3})
          \cup Grid("interleaved", {2}, {2}, {2}))
  \cup Grid("1f1b", {3}, {1}, {2, 4}) \cup Grid("interleaved", {3}, {2}, {2})
  \cup Overlapped(Grid("interleaved", {2}, {2}, {3}), {"batch", "multi_stream"})

\* One forward raises, any of them.
FaultyShapes ==
  {[s EXCEPT !.overlapP2P = o] : s \in Grid("1f1b", {3}, {1}, {2}), o \in BOOLEAN}
  \cup {[s EXCEPT !.overlapP2P = TRUE, !.overlapBF = b, !.callback = b] :
           s \in Grid("interleaved", {2}, {2}, {3}), b \in BOOLEAN}
AnyFault == (0..3) \X (0..2)

\* All of them, and what is done with each.
AllShapes == OneFOneBShapes \cup InterleavedShapes \cup OverlapShapes \cup InjectedShapes
               \cup RepeatedShapes \cup FaultyShapes
TwiceIfRepeated(s) == IF s \in RepeatedShapes THEN 2 ELSE 1
AnyIfFaulty(s) == {NoFault} \cup (IF s \in FaultyShapes THEN AnyFault ELSE {})

\* The transport whose batches do not stay complementary.
BoundaryShapes ==
  {[Shape("interleaved", 2, 2, 4) EXCEPT
      !.overlapBF = TRUE, !.overlapP2P = TRUE, !.callback = TRUE, !.transport = "boundary"]}

Once(s) == 1
NoFaults(s) == {NoFault}
==============================================================================
