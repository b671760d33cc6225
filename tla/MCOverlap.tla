------------------------------ MODULE MCOverlap ------------------------------
(* Instances of CommComputeOverlap for TLC. *)
EXTENDS CommComputeOverlap, SyncHook

\* The documented set-up: the last layer of each chunk is tagged, no layer
\* that fires hooks is recomputed, the chunks may differ in length.
TaggedWindows ==
  {ChunkPair(n, [i \in 1..m |-> 0], TRUE, TRUE) : n, m \in 1..2}

\* Tags missing (the default of wrap_combine), chunks of one layer and of two.
UntaggedWindows ==
  {ChunkPair(n, [i \in 1..m |-> 0], FALSE, TRUE) : n, m \in 1..2}

\* The tagged layer recomputed from a tensor saved in front of hook C and
\* without early stop: the recomputed C is followed by the D_LAST that only
\* notifies, then by the backward B, while the forward chunk is in its second layer.
FullRecomputeWindows ==
  {ChunkPair(2, <<c, 2>>, TRUE, FALSE) : c \in {0, 2, 4}}

\* Layers recomputed from a tensor saved behind hook D (cut 4) or in front of
\* hook C (cut 2), with and without early stop, beside layers that are not,
\* next to a shorter forward chunk or one as long.  Left out, because some of them
\* hang: FullRecomputeWindows, and layers recomputed from a tensor that a dispatch
\* or a combine saved itself (cuts 1 and 3).
RecomputedWindows ==
  {ChunkPair(n, cuts, TRUE, early) : n \in 1..2, cuts \in [1..2 -> {0, 2, 4}], early \in BOOLEAN}
  \ FullRecomputeWindows

\* Mixed recomputation, one layer recomputed beside one that is not, where it
\* pairs equal roles: a combine that saves a tensor itself (cut 3) is run again
\* between its own backward hooks, or the tagged layer without early stop.
MixedRecomputeWindows ==
  {ChunkPair(2, <<3, 0>>, TRUE, TRUE), ChunkPair(2, <<0, 2>>, TRUE, FALSE)}

\* Tagged windows, and those whose backward recomputes layers and stops early,
\* the last layer in front of hook C or not at all.
PairedWindows ==
  TaggedWindows \cup {ChunkPair(n, <<c, d>>, TRUE, TRUE) : n \in 1..2, c \in {0, 2, 4}, d \in {0, 2}}

\* Any of these, one of whose chunks may raise.
AnyWindows == TaggedWindows \cup UntaggedWindows \cup RecomputedWindows

==============================================================================
