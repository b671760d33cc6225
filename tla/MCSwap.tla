------------------------------- MODULE MCSwap -------------------------------
(***************************************************************************)
(* Ranks whose activations are swapped, for TLC.                           *)
(***************************************************************************)
EXTENDS ActivationSwap

Swapped(style, ranks, chunks, micros) ==
  [style |-> style, ranks |-> ranks, chunks |-> chunks, micros |-> micros,
   lessMemory |-> FALSE, overlapBF |-> FALSE, dxdw |-> FALSE, transport |-> "auto",
   overlapP2P |-> FALSE, dynShape |-> FALSE, dataIter |-> FALSE, callback |-> FALSE,
   fsdp |-> FALSE, swap |-> TRUE]

\* Warm-up deep enough to swap, a steady phase in which a buffer is used
\* again, split overlaps, and more stages on a rank than stay gathered.
SwapShapes ==
  {Swapped("1f1b", 4, 1, 6),
   [Swapped("1f1b", 3, 1, 4) EXCEPT !.fsdp = TRUE],
   [Swapped("interleaved", 2, 4, 1) EXCEPT !.fsdp = TRUE],
   [Swapped("interleaved", 2, 2, 3) EXCEPT !.fsdp = TRUE, !.overlapBF = TRUE,
                                           !.overlapP2P = TRUE, !.dxdw = TRUE]}

\* Rank 0 has the longest warm-up; rank 2 has one too short to swap.
SwapJobs ==
  {[shape |-> s, rank |-> 0] : s \in SwapShapes}
    \cup {[shape |-> Swapped("1f1b", 4, 1, 6), rank |-> 2]}

\* The orders of these ranks and of many more are balanced.
BalancedShapes ==
  {[Swapped("1f1b", r, 1, m) EXCEPT !.fsdp = f] : r \in 2..3, m \in 1..6, f \in BOOLEAN}
    \cup {[Swapped("interleaved", 2, v, m) EXCEPT !.fsdp = f, !.overlapBF = o, !.overlapP2P = o, !.dxdw = f] :
           v \in 1..2, m \in 1..4, f \in BOOLEAN, o \in BOOLEAN}
AllJobs == SwapJobs \cup UNION {{[shape |-> s, rank |-> r] : r \in 0..s.ranks - 1} : s \in BalancedShapes}
ASSUME OrdersAreBalanced == \A j \in AllJobs : Balanced(j)

Symmetry == Permutations(Blocks)

=============================================================================
