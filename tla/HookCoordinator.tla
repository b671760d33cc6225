--------------------------- MODULE HookCoordinator ---------------------------
(***************************************************************************)
(* core/pipeline_parallel/hook_coordinator.py: the two-party rendezvous    *)
(* that orders a communication op of one Python thread before the compute  *)
(* op its partner launches.                                                *)
(*                                                                         *)
(* One action per step that touches state the other thread can see.  pc[t] *)
(* is the place of thread t inside the coordinator; "run" and "op" are     *)
(* outside of it: "op" right after a rendezvous returned (the op it is     *)
(* about has not been launched yet), "run" everywhere else.                *)
(***************************************************************************)
EXTENDS Integers, Sequences

CONSTANT None

Threads == {"fwd", "bwd"}

\* The partner of a thread.
Other(t) == IF t = "fwd" THEN "bwd" ELSE "fwd"

\* HookRole, and the absence of a role (a hook that skips its rendezvous).
Comm    == "comm"
Compute == "compute"
NoRole  == "none"
Roles   == {Comm, Compute}

VARIABLES
  enabled,       \* _enabled
  departed,      \* _departed
  barrier,       \* _barrier: a threading.Barrier(2)
  slot,          \* _comm_dispatched: the event both threads see
  isSet,         \* the events whose flag is set
  myEvent,       \* _my_event.evt of each thread, None when absent
  pendingComm,   \* _pending_comm
  roundHadComm,  \* _round_had_comm
  pc,            \* control state of each thread
  ref,           \* event a thread loaded from the slot and is about to use
  trail,         \* roles each thread called rendezvous with, in this window
  left           \* threads that have raised _departed or dropped _enabled

coordVars == <<enabled, departed, barrier, slot, isSet, myEvent, pendingComm,
               roundHadComm, pc, ref, trail, left>>

\* An event is named by the thread that created it and the number of the
\* rendezvous it was created for; the one enable() makes is nobody's.
InitialEvent == <<"enable", 0>>
Active == enabled /\ ~departed
Role(t) == trail[t][Len(trail[t])]

Goto(t, place) == pc' = [pc EXCEPT ![t] = place]

(***************************************************************************)
(* threading.Barrier(2).  "draining" is the state between the trip and the *)
(* moment the parked party has left; a new arrival waits it out.           *)
(***************************************************************************)
NewBarrier == [state |-> "filling", count |-> 0]

\* Faulty variant: enable() that leaves _departed as the last session left it.
ResetKeepingDeparted ==
  /\ enabled' = TRUE
  /\ UNCHANGED departed
  /\ barrier' = NewBarrier
  /\ slot' = InitialEvent
  /\ isSet' = {}
  /\ myEvent' = [t \in Threads |-> None]
  /\ pendingComm' = 0
  /\ roundHadComm' = FALSE

(***************************************************************************)
(* enable(): everything a new session starts from.                         *)
(***************************************************************************)
ResetCoordinator ==
  /\ enabled' = TRUE
  /\ departed' = FALSE
  /\ barrier' = NewBarrier
  /\ slot' = InitialEvent
  /\ isSet' = {}
  /\ myEvent' = [t \in Threads |-> None]
  /\ pendingComm' = 0
  /\ roundHadComm' = FALSE

(***************************************************************************)
(* notify_dispatched(role): sets the event of this thread's last COMM      *)
(* rendezvous and forgets it; a no-op for COMPUTE and after a departure.   *)
(***************************************************************************)
NotifyDispatched(t, role) ==
  IF Active /\ role = Comm /\ myEvent[t] # None
  THEN /\ isSet' = isSet \cup {myEvent[t]}
       /\ myEvent' = [myEvent EXCEPT ![t] = None]
  ELSE UNCHANGED <<isSet, myEvent>>

(***************************************************************************)
(* rendezvous(role).  The two flags are read one after the other; as each  *)
(* moves only once in a session, reading them together loses no outcome.   *)
(***************************************************************************)
CallRendezvous(t, role) ==
  /\ trail' = [trail EXCEPT ![t] = Append(@, role)]
  /\ Goto(t, "enter")

Enter(t) ==
  /\ pc[t] = "enter"
  /\ Goto(t, IF ~Active THEN "op" ELSE IF Role(t) = Comm THEN "publish" ELSE "arrive")
  /\ UNCHANGED <<enabled, departed, barrier, slot, isSet, myEvent, pendingComm,
                 roundHadComm, ref, trail, left>>

\* Faulty variant: one long-lived event per thread instead of one per rendezvous.
PublishReusedEvent(t) ==
  /\ pc[t] = "publish"
  /\ slot' = <<t, 0>>
  /\ myEvent' = [myEvent EXCEPT ![t] = <<t, 0>>]
  /\ Goto(t, "count")
  /\ UNCHANGED <<enabled, departed, barrier, isSet, pendingComm, roundHadComm,
                 ref, trail, left>>

\* Faulty variant: the fresh event is remembered but not shared.
PublishUnshared(t) ==
  /\ pc[t] = "publish"
  /\ myEvent' = [myEvent EXCEPT ![t] = <<t, Len(trail[t])>>]
  /\ Goto(t, "count")
  /\ UNCHANGED <<enabled, departed, barrier, slot, isSet, pendingComm, roundHadComm,
                 ref, trail, left>>

\* A COMM caller makes a fresh event, shared and remembered.
Publish(t) ==
  /\ pc[t] = "publish"
  /\ slot' = <<t, Len(trail[t])>>
  /\ myEvent' = [myEvent EXCEPT ![t] = <<t, Len(trail[t])>>]
  /\ Goto(t, "count")
  /\ UNCHANGED <<enabled, departed, barrier, isSet, pendingComm, roundHadComm,
                 ref, trail, left>>

Count(t) ==
  /\ pc[t] = "count"
  /\ pendingComm' = pendingComm + 1
  /\ Goto(t, "arrive")
  /\ UNCHANGED <<enabled, departed, barrier, slot, isSet, myEvent, roundHadComm,
                 ref, trail, left>>

\* barrier.wait() on a broken barrier raises, and rendezvous returns.
ArriveBroken(t) ==
  /\ pc[t] = "arrive"
  /\ barrier.state = "broken"
  /\ Goto(t, "op")
  /\ UNCHANGED <<enabled, departed, barrier, slot, isSet, myEvent, pendingComm,
                 roundHadComm, ref, trail, left>>

ArriveFirst(t) ==
  /\ pc[t] = "arrive"
  /\ barrier.state = "filling"
  /\ barrier.count = 0
  /\ barrier' = [barrier EXCEPT !.count = 1]
  /\ Goto(t, "parked")
  /\ UNCHANGED <<enabled, departed, slot, isSet, myEvent, pendingComm,
                 roundHadComm, ref, trail, left>>

\* The second party trips the barrier: _on_barrier_trip runs, the party
\* itself is through, the parked one still has to wake.
ArriveLast(t) ==
  /\ pc[t] = "arrive"
  /\ barrier.state = "filling"
  /\ barrier.count = 1
  /\ barrier' = [state |-> "draining", count |-> 1]
  /\ roundHadComm' = (pendingComm > 0)
  /\ pendingComm' = 0
  /\ Goto(t, "passed")
  /\ UNCHANGED <<enabled, departed, slot, isSet, myEvent, ref, trail, left>>

\* The parked party leaves a tripped barrier, or is thrown out of a broken one.
Wake(t) ==
  /\ pc[t] = "parked"
  /\ \/ /\ barrier.state = "draining"
        /\ barrier' = NewBarrier
        /\ Goto(t, "passed")
     \/ /\ barrier.state = "broken"
        /\ barrier' = [barrier EXCEPT !.count = @ - 1]
        /\ Goto(t, "op")
  /\ UNCHANGED <<enabled, departed, slot, isSet, myEvent, pendingComm,
                 roundHadComm, ref, trail, left>>

\* Past the barrier: a COMPUTE caller whose round had a COMM party loads the
\* shared event; every other caller returns.
Pass(t) ==
  /\ pc[t] = "passed"
  /\ IF Role(t) = Compute /\ roundHadComm
     THEN ref' = [ref EXCEPT ![t] = slot] /\ Goto(t, "await")
     ELSE Goto(t, "op") /\ UNCHANGED ref
  /\ UNCHANGED <<enabled, departed, barrier, slot, isSet, myEvent, pendingComm,
                 roundHadComm, trail, left>>

Await(t) ==
  /\ pc[t] = "await"
  /\ ref[t] \in isSet
  /\ Goto(t, "op")
  /\ UNCHANGED <<enabled, departed, barrier, slot, isSet, myEvent, pendingComm,
                 roundHadComm, ref, trail, left>>

(***************************************************************************)
(* disable() and depart() are the same three effects, in this order, around *)
(* a different flag: drop the flag, abort the barrier, set the event the    *)
(* slot holds (loading it is a step of its own).                            *)
(***************************************************************************)
DropFlag(t, departing) ==
  /\ pc[t] = "flag"
  /\ IF departing THEN departed' = TRUE /\ UNCHANGED enabled
                  ELSE enabled' = FALSE /\ UNCHANGED departed
  /\ left' = left \cup {t}
  /\ Goto(t, "abort")
  /\ UNCHANGED <<barrier, slot, isSet, myEvent, pendingComm, roundHadComm, ref, trail>>

AbortBarrier(t) ==
  /\ pc[t] = "abort"
  /\ barrier' = [barrier EXCEPT !.state = "broken"]
  /\ Goto(t, "load")
  /\ UNCHANGED <<enabled, departed, slot, isSet, myEvent, pendingComm,
                 roundHadComm, ref, trail, left>>

LoadSlot(t) ==
  /\ pc[t] = "load"
  /\ ref' = [ref EXCEPT ![t] = slot]
  /\ Goto(t, "release")
  /\ UNCHANGED <<enabled, departed, barrier, slot, isSet, myEvent, pendingComm,
                 roundHadComm, trail, left>>

\* Faulty variant: a waiter past the barrier is not released.
ReleaseNobody(t, place) ==
  /\ pc[t] = "release"
  /\ Goto(t, place)
  /\ UNCHANGED <<enabled, departed, barrier, slot, isSet, myEvent, pendingComm,
                 roundHadComm, ref, trail, left>>

ReleaseWaiter(t, place) ==
  /\ pc[t] = "release"
  /\ isSet' = isSet \cup {ref[t]}
  /\ Goto(t, place)
  /\ UNCHANGED <<enabled, departed, barrier, slot, myEvent, pendingComm,
                 roundHadComm, ref, trail, left>>

\* The steps of a rendezvous that take no decision outside the coordinator.
RendezvousStep(t) ==
  \/ Enter(t)
  \/ Publish(t)
  \/ Count(t)
  \/ ArriveBroken(t)
  \/ ArriveFirst(t)
  \/ ArriveLast(t)
  \/ Wake(t)
  \/ Pass(t)
  \/ Await(t)

------------------------------------------------------------------------------

InRendezvous == {"enter", "publish", "count", "arrive", "parked", "passed", "await", "op"}
Leaving == {"flag", "abort", "load", "release"}
Places == InRendezvous \cup Leaving \cup {"idle", "off", "start", "run", "join", "done"}
EventNames == {InitialEvent} \cup (Threads \X Nat)

CoordTypeOK ==
  /\ enabled \in BOOLEAN
  /\ departed \in BOOLEAN
  /\ barrier \in [state : {"filling", "draining", "broken"}, count : 0..1]
  /\ slot \in EventNames
  /\ isSet \in SUBSET EventNames
  /\ myEvent \in [Threads -> (Threads \X Nat) \cup {None}]
  /\ pendingComm \in 0..2
  /\ roundHadComm \in BOOLEAN
  /\ pc \in [Threads -> Places]
  /\ ref \in [Threads -> EventNames]
  /\ trail \in [Threads -> Seq(Roles)]
  /\ left \in SUBSET Threads

=============================================================================
