------------------------- MODULE VersionedInference -------------------------
(***************************************************************************)
(* What the inference service of asynchronous reinforcement learning       *)
(* promises to the learner: the answer to a call was sampled by one policy *)
(* version, the one the answer is stamped with, although new policies are  *)
(* published all the time.  The learner needs it to know the behaviour     *)
(* probabilities of the tokens it trains on.                               *)
(*                                                                         *)
(* A call is served by the policy it was admitted under until it ends, and *)
(* a policy is replaced only while no call is served.                      *)
(***************************************************************************)
EXTENDS Naturals

CONSTANT Calls              \* the calls of the sampling clients

VARIABLES policy,           \* the version of the policy in the engine
          serving           \* serving[c]: the version that answers c, or 0

Init == /\ policy = 0
        /\ serving = [c \in Calls |-> 0]

\* A call is admitted: whatever it returns is sampled by the present policy.
Admit(c) == /\ serving[c] = 0
            /\ policy > 0
            /\ serving' = [serving EXCEPT ![c] = policy]
            /\ UNCHANGED policy

\* A call ends: it is answered by the policy that served it, or given up.
End(c) == /\ serving[c] = policy
          /\ serving' = [serving EXCEPT ![c] = 0]
          /\ UNCHANGED policy

\* The next policy replaces the present one when nothing is being served.
Publish == /\ \A c \in Calls : serving[c] = 0
           /\ policy' = policy + 1
           /\ UNCHANGED serving

Next == Publish \/ \E c \in Calls : Admit(c) \/ End(c)

Spec == Init /\ [][Next]_<<policy, serving>>
=============================================================================
