------------------------- MODULE CommFirstRendezvous -------------------------
(***************************************************************************)
(* What hook_coordinator.py promises, without saying how: two parties       *)
(* announce the role of their next op, in lockstep, and a COMPUTE op is not *)
(* launched before the COMM op it is paired with.  A party that has left is *)
(* not waited for.                                                          *)
(***************************************************************************)
EXTENDS Naturals, Sequences

CONSTANTS Threads, Other(_), Comm, Compute

VARIABLES
  trail,  \* roles announced by each party in this session
  disp,   \* ops launched by each party
  left    \* parties that have left

pvars == <<trail, disp, left>>

PInit ==
  /\ trail = [t \in Threads |-> <<>>]
  /\ disp = [t \in Threads |-> 0]
  /\ left = {}

\* A party says what it launches next, once its last op is launched.
Announce(t, role) ==
  /\ disp[t] = Len(trail[t])
  /\ trail' = [trail EXCEPT ![t] = Append(@, role)]
  /\ UNCHANGED <<disp, left>>

\* The partner stands at the same rendezvous, and has launched its own op
\* already if that one is communication and this one is not.
Paired(t) ==
  LET i == Len(trail[t])
      o == Other(t)
  IN /\ i <= Len(trail[o])
     /\ (trail[t][i] = Compute /\ trail[o][i] = Comm) => i <= disp[o]

Launch(t) ==
  /\ disp[t] < Len(trail[t])
  /\ Other(t) \in left \/ Paired(t)
  /\ disp' = [disp EXCEPT ![t] = @ + 1]
  /\ UNCHANGED <<trail, left>>

Leave(t) ==
  /\ left' = left \cup {t}
  /\ UNCHANGED <<trail, disp>>

\* A new session starts after a party has left the old one.
NewSession ==
  /\ left # {}
  /\ PInit'

PNext ==
  \/ \E t \in Threads : Launch(t) \/ Leave(t)
  \/ \E t \in Threads, role \in {Comm, Compute} : Announce(t, role)
  \/ NewSession

PSpec == PInit /\ [][PNext]_pvars

==============================================================================
