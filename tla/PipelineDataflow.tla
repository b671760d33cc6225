--------------------------- MODULE PipelineDataflow ---------------------------
(***************************************************************************)
(* What a pipeline promises, without ranks, orders or messages: in every    *)
(* run each stage computes the forward and the backward of each micro batch *)
(* once, a forward after the forward of the stage before, a backward after  *)
(* its own forward and the backward of the stage behind; and a stage starts *)
(* a run only when its last one is complete.  A backward may be split into  *)
(* an input half, which the stage before waits for, and a weight half.      *)
(***************************************************************************)
EXTENDS PipelineSteps

CONSTANTS Shapes,  \* the shapes a schedule may have
          Turns(_) \* how many runs there are of a shape

VARIABLES shape,   \* what the schedule was built for
          ran,     \* the computations done, as <<turn, type, stage, micro>>
          failed   \* whether a computation has raised

vars == <<shape, ran, failed>>

Ran(t, types, s, m) == \E type \in types : <<t, type, s, m>> \in ran
Gradient(t, s, m) == Ran(t, {"BWD", "BWD_INPUT"}, s, m)
Complete(t, s) ==
  \A m \in Micros(shape) : Ran(t, {"FWD"}, s, m) /\ Ran(t, {"BWD", "BWD_WEIGHT"}, s, m)

MayForward(t, s, m) ==
  /\ ~Ran(t, {"FWD"}, s, m)
  /\ s > 0 => Ran(t, {"FWD"}, s - 1, m)
  /\ t > 1 => Complete(t - 1, s)
MayBackward(t, s, m) ==
  /\ Ran(t, {"FWD"}, s, m) /\ ~Gradient(t, s, m)
  /\ s < StageNum(shape) - 1 => Gradient(t, s + 1, m)
MayBackwardWeight(t, s, m) ==
  Ran(t, {"BWD_INPUT"}, s, m) /\ ~Ran(t, {"BWD_WEIGHT"}, s, m)

Compute(t, type, s, m) ==
  /\ ran' = ran \cup {<<t, type, s, m>>}
  /\ CASE type = "FWD" -> MayForward(t, s, m)
       [] type \in {"BWD", "BWD_INPUT"} -> MayBackward(t, s, m)
       [] type = "BWD_WEIGHT" -> MayBackwardWeight(t, s, m)
  /\ UNCHANGED <<shape, failed>>

Fail == ~failed /\ failed' /\ UNCHANGED <<shape, ran>>

Init == shape \in Shapes /\ ran = {} /\ ~failed
Step == \E t \in 1..Turns(shape), s \in Stages(shape), m \in Micros(shape) :
          \E type \in {"FWD", "BWD", "BWD_INPUT", "BWD_WEIGHT"} : Compute(t, type, s, m)

\* In the end every run is complete, unless a computation raises.
Finished == \A s \in Stages(shape) : Complete(Turns(shape), s)
Spec == Init /\ [][Step \/ Fail]_vars /\ <>(failed \/ Finished)

==============================================================================
