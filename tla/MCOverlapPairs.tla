---------------------------- MODULE MCOverlapPairs ----------------------------
(* MCOverlap, and what the hooks of SyncHook make of its windows: the       *)
(* hypothesis of theorems of CommComputeOverlap_proofs, evaluated.          *)
EXTENDS MCOverlap

\* Tagged last layers give windows in pairs, an early-stop recomputation of
\* other layers included.
ASSUME TaggedWindowsArePaired == \A w \in PairedWindows : InPairs(w)

\* Without the tag, or with a tagged layer recomputed to its end, they are not.
ASSUME OthersAreNot == \A w \in UntaggedWindows \cup FullRecomputeWindows : ~ InPairs(w)

==============================================================================
