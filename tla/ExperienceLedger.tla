-------------------------- MODULE ExperienceLedger --------------------------
(***************************************************************************)
(* What asynchronous RL training promises about prompt records.  A record  *)
(* is read once, waits in the pool, and enters the weights at most once,   *)
(* with a complete batch; a checkpoint keeps weights, pool and source      *)
(* position of one moment; a restart goes back to such a moment as a whole.*)
(***************************************************************************)
EXTENDS Naturals, FiniteSets

CONSTANT Required   \* records of one batch

VARIABLES learned,  \* records in the weights
          pool,     \* records that wait for a batch
          read,     \* records the source has handed out
          saved     \* moments a restart may go back to

Start  == [learned |-> {}, pool |-> {}, read |-> 0]
Moment == [learned |-> learned, pool |-> pool, read |-> read]

Init == Moment = Start /\ saved = {}

Read == /\ read' = read + 1 /\ pool' = pool \cup {read}
        /\ UNCHANGED <<learned, saved>>

Drop == pool' \subseteq pool /\ UNCHANGED <<learned, read, saved>>

Learn == \E batch \in SUBSET pool :
           /\ Cardinality(batch) = Required /\ batch \cap learned = {}
           /\ learned' = learned \cup batch
           /\ pool' \subseteq pool \ batch
           /\ UNCHANGED <<read, saved>>

Keep == saved' \subseteq saved \cup {Moment} /\ UNCHANGED <<learned, pool, read>>

GoBack == Moment' \in saved \cup {Start} /\ UNCHANGED saved

Next == Read \/ Drop \/ Learn \/ Keep \/ GoBack

Spec == Init /\ [][Next]_<<learned, pool, read, saved>>
=============================================================================
