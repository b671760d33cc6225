------------------------------- MODULE SyncHook -------------------------------
(***************************************************************************)
(* core/pipeline_parallel/_sync_hook.py and the wrap_dispatch/wrap_combine  *)
(* of comm_compute_overlap.py: which hooks a chunk of MoE layers fires, in  *)
(* which order, and with which roles.                                      *)
(***************************************************************************)
EXTENDS HookCoordinator, SequencesExt

\* _FWD_ROLES and _BWD_ROLES: <<role notified, role of the next op>>.
FwdRoles == [A |-> <<Compute, Comm>>, B |-> <<Comm, Compute>>,
             C |-> <<Compute, Comm>>, D |-> <<Comm, Compute>>]
BwdRoles == [D |-> <<Compute, Comm>>, C |-> <<Comm, Compute>>,
             B |-> <<Compute, Comm>>, A |-> <<Comm, Compute>>]

\* forward(): D_LAST notifies as D does but has no rendezvous.
FwdHook(name) ==
  IF name = "D_LAST" THEN [prev |-> FwdRoles["D"][1], next |-> NoRole]
  ELSE [prev |-> FwdRoles[name][1], next |-> FwdRoles[name][2]]

\* Faulty variant: backward() that treats D_LAST as an ordinary D.
BwdHookAtEveryD(name) ==
  LET hook == IF name = "D_LAST" THEN "D" ELSE name
  IN [prev |-> BwdRoles[hook][1], next |-> BwdRoles[hook][2]]

\* backward(): D_LAST does nothing at all.
BwdHook(name) ==
  IF name = "D_LAST" THEN [prev |-> NoRole, next |-> NoRole]
  ELSE [prev |-> BwdRoles[name][1], next |-> BwdRoles[name][2]]

\* wrap_dispatch brackets the dispatch with A/B, wrap_combine the combine
\* with C/D, D_LAST when the layer was wrapped with is_last_layer.
LayerHooks(isLastLayer) ==
  <<"A", "B", "C", IF isLastLayer THEN "D_LAST" ELSE "D">>

FwdLayer(names) == [i \in DOMAIN names |-> FwdHook(names[i])]
BwdLayer(names) == [i \in DOMAIN names |-> BwdHook(Reverse(names)[i])]

(***************************************************************************)
(* Activation checkpointing re-runs a layer's forward in the backward       *)
(* thread when the first saved tensor of the layer is unpacked, which is    *)
(* the last one its forward saved.  cut is the number of hooks that precede *)
(* that tensor in forward order: backward first fires the hooks behind it,  *)
(* then the recomputation fires the forward hooks again (only those before  *)
(* the tensor when it stops early), then backward fires the rest.  cut = 0  *)
(* is a layer whose hooks are not recomputed.                               *)
(***************************************************************************)
BwdLayerRecomputed(names, cut, earlyStop) ==
  LET again == IF cut = 0 THEN <<>> ELSE IF earlyStop THEN SubSeq(names, 1, cut) ELSE names
  IN BwdLayer(SubSeq(names, cut + 1, Len(names)))
       \o FwdLayer(again)
       \o BwdLayer(SubSeq(names, 1, cut))

\* The hooks of a chunk of n layers; tagged says whether the last layer was
\* wrapped with is_last_layer=True.
FwdChunk(n, tagged) ==
  FlattenSeq([l \in 1..n |-> FwdLayer(LayerHooks(tagged /\ l = n))])

BwdChunk(cuts, tagged, earlyStop) ==
  LET n == Len(cuts)
  IN FlattenSeq([k \in 1..n |->
       LET l == n + 1 - k
       IN BwdLayerRecomputed(LayerHooks(tagged /\ l = n), cuts[l], earlyStop)])

\* An overlap window: a forward chunk of n layers beside a backward chunk
\* with one recomputation cut per layer.
ChunkPair(n, cuts, tagged, earlyStop) ==
  [fwd |-> FwdChunk(n, tagged), bwd |-> BwdChunk(cuts, tagged, earlyStop)]

===============================================================================
