------------------------------- MODULE MCPool -------------------------------
(***************************************************************************)
(* Instances of PinnedPool for TLC.                                        *)
(***************************************************************************)
EXTENDS PinnedPool, TLC

\* threads, allocations and events are interchangeable
Symmetry == Permutations(Threads) \cup Permutations(Blocks) \cup Permutations(Events)

=============================================================================
