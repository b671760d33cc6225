---------------------- MODULE CommComputeOverlap_proofs ----------------------
(***************************************************************************)
(* Proofs about CommComputeOverlap, for every set of windows, tagged or    *)
(* not, recomputed or not, with failures or without.                       *)
(*                                                                         *)
(* The inductive invariant counts rounds.  Before(t) holds while t has     *)
(* called a rendezvous whose barrier has not tripped; Passed(t) is the     *)
(* number of rounds t is through.  Both threads are always through the     *)
(* same number (Lockstep), which is what ties a role, the event of the     *)
(* slot and the counter of COMM callers to one round.                      *)
(*                                                                         *)
(* The second half says how a window ends, and what the documented tagging *)
(* of last layers gives: a trail is the calls of the hooks that were fired *)
(* (TraceInv); where the windows are in pairs (InPairs), the rounds are a  *)
(* COMM beside a COMPUTE and alternate, the event in the slot is the one   *)
(* of the round (FreshEvent), and an event is notified before its thread   *)
(* calls again (NotifyInv), so that no thread waits for one that waits for *)
(* it.                                                                     *)
(***************************************************************************)
EXTENDS CommComputeOverlap, FiniteSetTheorems, TLAPS

Parked(t) == pc[t] = "parked" /\ barrier.state = "filling"
Before(t) == pc[t] \in {"enter", "publish", "count", "arrive"} \/ Parked(t)
Passed(t) == IF Before(t) THEN Len(trail[t]) - 1 ELSE Len(trail[t])

\* t's event of the round that has not tripped yet is the one it published.
Shared(t) == (pc[t] \in {"count", "arrive"} \/ Parked(t)) /\ Role(t) = Comm

\* t is counted in _pending_comm, exactly or at most.
Counted(t)   == IF (pc[t] = "arrive" \/ Parked(t)) /\ Role(t) = Comm THEN 1 ELSE 0
MayCount(t)  == IF \/ pc[t] = "arrive"
                   \/ pc[t] = "parked" /\ barrier.state # "draining"
                   \/ ~Active /\ pc[t] \notin {"publish", "count"}
                THEN 1 ELSE 0
InBarrier(t) == IF pc[t] = "parked" THEN 1 ELSE 0

\* What the place of a thread says of its calls and its launches.
PlaceInv ==
  \A t \in Threads :
    /\ pc[t] \in InRendezvous => Len(trail[t]) >= 1 /\ disp[t] = Len(trail[t]) - 1
    /\ pc[t] = "run" => disp[t] = Len(trail[t])
    /\ pc[t] \in {"publish", "count"} => Role(t) = Comm
    /\ pc[t] = "await" => Role(t) = Compute

\* Who has left, and what the flags say of it.
LeftInv ==
  /\ opened > 0 => (Active <=> left = {})
  /\ (opened = 0 \/ pc["fwd"] = "start") =>
       /\ left = {}
       /\ pc["bwd"] = "off"
       /\ \A t \in Threads : trail[t] = <<>> /\ disp[t] = 0
  /\ opened = 0 => pc["fwd"] = "idle"
  /\ (pc["fwd"] = "idle" /\ opened > 0) => left # {}
  /\ \A t \in Threads :
       /\ pc[t] \in {"abort", "load", "release"} => t \in left
       /\ t \in left => pc[t] \in Leaving \cup {"join", "done", "idle"}
       /\ (failed = {} /\ pc[t] \in Leaving \cup {"join", "done", "idle"})
            => disp[t] = Len(trail[t])

\* The barrier's own counter, and the callers counted in _pending_comm.
BarrierInv ==
  /\ barrier.count = InBarrier("fwd") + InBarrier("bwd")
  /\ barrier.state = "draining" => barrier.count = 1
  /\ barrier.state = "broken" => left # {}
  /\ pendingComm <= MayCount("fwd") + MayCount("bwd")

\* What holds of the round while nobody has left.
Lockstep == Passed("fwd") = Passed("bwd")

CountInv == pendingComm = Counted("fwd") + Counted("bwd")

RoundInv ==
  \A t \in Threads :
    (pc[t] = "passed" \/ (pc[t] = "parked" /\ barrier.state = "draining")) =>
      (roundHadComm <=> \E u \in Threads : trail[u][Len(trail[t])] = Comm)

EventInv ==
  /\ \A e \in isSet : e \in Threads \X Nat /\ e[2] <= disp[e[1]]
  /\ \A t \in Threads : myEvent[t] # None => /\ myEvent[t][1] = t
                                            /\ myEvent[t][2] <= Len(trail[t])

SlotInv ==
  \A t \in Threads :
    LET o == Other(t)
    IN /\ (Shared(o) /\ ~Shared(t)) => slot = <<o, Len(trail[o])>>
       /\ (/\ ~Shared(o) /\ ~Shared(t) /\ Passed(t) >= 1
           /\ trail[t][Passed(t)] = Compute /\ trail[o][Passed(t)] = Comm)
             => slot = <<o, Passed(t)>>

\* The event awaited is the partner's, of this round or a later one, and a
\* COMPUTE caller gets past its rendezvous only after the COMM launch.
AwaitInv ==
  \A t \in Threads :
    LET o == Other(t)
        i == Len(trail[t])
    IN /\ pc[t] = "await" => ref[t][1] = o /\ ref[t][2] >= i
       /\ (pc[t] = "op" /\ Role(t) = Compute /\ trail[o][i] = Comm) => disp[o] >= i

RoundsInv == left = {} => /\ Lockstep
                          /\ CountInv
                          /\ RoundInv
                          /\ EventInv
                          /\ SlotInv
                          /\ AwaitInv

IInv == TypeOK /\ PlaceInv /\ LeftInv /\ BarrierInv /\ RoundsInv

------------------------------------------------------------------------------
(* Facts about single steps that several of the proofs below use. *)

\* A flag is dropped only by a thread that leaves.
LEMMA DropLeaves ==
  ASSUME NEW t \in Threads, DropCoordination(t)
  PROVE  left' # {}
  BY DEF DropCoordination, DropFlag

\* While nobody has left, a caller finds the coordinator active.
LEMMA StillActive ==
  ASSUME TypeOK, LeftInv, left = {}, NEW t \in Threads, pc[t] = "enter"
  PROVE  Active
  BY DEF TypeOK, LeftInv, Threads

\* What a hook does to the trails: nothing, or one more call of its thread.
LEMMA HookTrail ==
  ASSUME TypeOK, NEW t \in Threads, FireHook(t)
  PROVE  /\ \A u \in Threads : \A n \in 1..Len(trail[u]) : trail'[u][n] = trail[u][n]
         /\ \A u \in Threads : u # t => trail'[u] = trail[u] /\ pc'[u] = pc[u]
         /\ pc[t] = "run"
         /\ trail' \in [Threads -> Seq(Roles)]
         /\ \A u \in Threads : Len(trail[u]) \in Nat /\ Len(trail'[u]) \in Nat
         /\ \A u \in Threads : Len(trail[u]) <= Len(trail'[u])
         /\ \/ pc' = pc /\ trail' = trail
            \/ pc'[t] = "enter" /\ Len(trail'[t]) = Len(trail[t]) + 1
  <1> DEFINE role == window[t][pos[t] + 1].next
  <1>1. role \in Roles \cup {NoRole} /\ pos[t] + 1 \in 1..Len(window[t])
    <2>1. pos[t] + 1 \in 1..Len(window[t]) /\ window[t] \in Seq(Hooks)
      <3>1. pos[t] < Len(window[t])
        BY DEF FireHook
      <3>2. pos[t] \in Nat /\ window[t] \in Seq(Hooks)
        BY DEF TypeOK
      <3> QED
        BY <3>1, <3>2
    <2>2. window[t][pos[t] + 1] \in Hooks
      BY <2>1
    <2> QED
      BY <2>1, <2>2 DEF Hooks
  <1>2. CASE role = NoRole
    <2>1. trail' = trail /\ pc' = pc /\ pc[t] = "run"
      BY <1>2 DEF FireHook
    <2> QED
      BY <2>1 DEF TypeOK, CoordTypeOK
  <1>3. CASE role # NoRole
    <2>1. /\ trail' = [trail EXCEPT ![t] = Append(@, role)]
          /\ pc' = [pc EXCEPT ![t] = "enter"]
          /\ pc[t] = "run"
      BY <1>3 DEF FireHook, CallRendezvous, Goto
    <2> QED
      BY <1>1, <1>3, <2>1 DEF TypeOK, CoordTypeOK, Places
  <1> QED
    BY <1>2, <1>3

\* A hook starts a new round for its thread: the rounds it is through, and
\* the event it shares of the last one, stay what they were.
LEMMA HookRounds ==
  ASSUME TypeOK, PlaceInv, NEW t \in Threads, FireHook(t)
  PROVE  \A u \in Threads : /\ Passed(u)' = Passed(u)
                            /\ Shared(u)' <=> Shared(u)
                            /\ Shared(u) => trail'[u] = trail[u]
  <1>1. barrier' = barrier
    BY DEF FireHook
  <1>2. ASSUME NEW u \in Threads, u # t \/ (pc' = pc /\ trail' = trail)
        PROVE  /\ Passed(u)' = Passed(u)
               /\ Shared(u)' <=> Shared(u)
               /\ Shared(u) => trail'[u] = trail[u]
    <2>1. trail'[u] = trail[u] /\ pc'[u] = pc[u]
      BY <1>2, HookTrail
    <2> QED
      BY <1>1, <2>1 DEF Passed, Shared, Before, Parked, Role
  <1>3. ASSUME pc'[t] = "enter", Len(trail'[t]) = Len(trail[t]) + 1
        PROVE  Passed(t)' = Passed(t) /\ ~Shared(t)' /\ ~Shared(t)
    <2>1. pc[t] = "run" /\ Len(trail[t]) \in Nat
      BY HookTrail DEF TypeOK, CoordTypeOK
    <2> QED
      BY <1>3, <2>1 DEF Passed, Shared, Before, Parked
  <1> QED
    BY <1>2, <1>3, HookTrail

\* SlotInv is about rounds and the slot; a step that keeps both keeps it.
LEMMA SlotFrame ==
  ASSUME TypeOK, PlaceInv, Lockstep, SlotInv, slot' = slot,
         \A u \in Threads : /\ Passed(u)' = Passed(u)
                            /\ Shared(u)' <=> Shared(u)
                            /\ Shared(u) => trail'[u] = trail[u]
                            /\ \A n \in 1..Len(trail[u]) : trail'[u][n] = trail[u][n]
  PROVE  SlotInv'
  <1>1. \A u \in Threads : Passed(u) \in 0..Len(trail[u]) /\ Passed(u) = Passed(Other(u)) /\ Other(u) \in Threads
    BY DEF TypeOK, CoordTypeOK, PlaceInv, InRendezvous, Lockstep, Passed, Before, Parked, Other, Threads
  <1> QED
    BY <1>1 DEF SlotInv

LEMMA SlotSame ==
  ASSUME TypeOK, PlaceInv, Lockstep, SlotInv, slot' = slot, trail' = trail,
         \A u \in Threads : Passed(u)' = Passed(u) /\ (Shared(u)' <=> Shared(u))
  PROVE  SlotInv'
  BY SlotFrame

------------------------------------------------------------------------------

(* One lemma for each conjunct of IInv, one step for each action. *)

LEMMA TypeStep ==
  ASSUME IInv, [Next]_vars
  PROVE  TypeOK'
  <1> USE DEF IInv, TypeOK, CoordTypeOK, Goto, Places, InRendezvous, Leaving
  <1>1. ASSUME NEW w \in Windows, OpenWindow(w) PROVE TypeOK'
    <2>1. window' \in [Threads -> Seq(Hooks)]
      BY <1>1, WindowsAssumption DEF OpenWindow
    <2>2. pos' \in [Threads -> Nat] /\ disp' \in [Threads -> Nat]
      BY <1>1 DEF OpenWindow
    <2>3. trail' \in [Threads -> Seq(Roles)]
      <3>1. <<>> \in Seq(Roles)
        OBVIOUS
      <3> QED
        BY <1>1, <3>1 DEF OpenWindow
    <2>4. /\ barrier' \in [state : {"filling", "draining", "broken"}, count : 0..1]
          /\ slot' \in EventNames
          /\ isSet' \in SUBSET EventNames
          /\ myEvent' \in [Threads -> (Threads \X Nat) \cup {None}]
          /\ pendingComm' \in 0..2
      BY <1>1 DEF OpenWindow, ResetCoordinator, NewBarrier, EventNames
    <2>5. pc' \in [Threads -> Places]
      BY <1>1 DEF OpenWindow, Threads
    <2>6. CoordTypeOK'
      BY <1>1, <2>3, <2>4, <2>5 DEF OpenWindow, ResetCoordinator
    <2> QED
      BY SMTT(30), <1>1, <2>1, <2>2, <2>6 DEF OpenWindow, Results
  <1>2. ASSUME StartBwd PROVE TypeOK'
    BY <1>2 DEF StartBwd
  <1>3. ASSUME StartFails PROVE TypeOK'
    BY <1>3 DEF StartFails, Modes, Results, Threads
  <1>4. ASSUME JoinBwd PROVE TypeOK'
    BY <1>4 DEF JoinBwd, Modes, Threads
  <1>5. ASSUME NEW t \in Threads, FireHook(t) PROVE TypeOK'
    <2>1. trail' \in [Threads -> Seq(Roles)]
      BY <1>5, HookTrail
    <2>2. pc' \in [Threads -> Places]
      BY ZenonT(40), <1>5 DEF FireHook, CallRendezvous
    <2>3. isSet' \in SUBSET EventNames
      BY <1>5 DEF FireHook, NotifyDispatched, EventNames
    <2>4. myEvent' \in [Threads -> (Threads \X Nat) \cup {None}]
      BY <1>5 DEF FireHook, NotifyDispatched
    <2>5. pos' \in [Threads -> Nat]
      BY <1>5 DEF FireHook
    <2> QED
      BY <1>5, <2>1, <2>2, <2>3, <2>4, <2>5 DEF FireHook
  <1>6. ASSUME NEW t \in Threads, LaunchOp(t) PROVE TypeOK'
    BY SMTT(30), <1>6 DEF LaunchOp
  <1>7. ASSUME NEW t \in Threads, FinishChunk(t) PROVE TypeOK'
    BY <1>7 DEF FinishChunk, Modes
  <1>8. ASSUME NEW t \in Threads, RaiseInChunk(t) PROVE TypeOK'
    BY <1>8 DEF RaiseInChunk, Modes
  <1>9. ASSUME NEW t \in Threads, DropCoordination(t) PROVE TypeOK'
    BY <1>9 DEF DropCoordination, DropFlag
  <1>10. ASSUME NEW t \in Threads, Release(t) PROVE TypeOK'
    <2>1. pc' \in [Threads -> Places]
      BY <1>10 DEF Release, ReleaseWaiter, Modes
    <2>2. isSet' \in SUBSET EventNames
      BY <1>10 DEF Release, ReleaseWaiter
    <2>3. mode' \in [Threads -> Modes] /\ result' \in Results
      BY <1>10 DEF Release, Modes, Results
    <2> QED
      BY <1>10, <2>1, <2>2, <2>3 DEF Release, ReleaseWaiter
  <1>11. ASSUME NEW t \in Threads, Coordinate(t) PROVE TypeOK'
    <2> USE DEF RendezvousStep
    <2>1. CASE Enter(t)
      BY <1>11, <2>1 DEF Coordinate, Enter
    <2>2. CASE Publish(t)
      BY SMTT(30), <1>11, <2>2 DEF Coordinate, Publish, EventNames
    <2>3. CASE Count(t)
      BY <1>11, <2>3 DEF Coordinate, Count, BarrierInv, MayCount, Threads
    <2>4. CASE ArriveBroken(t)
      BY <1>11, <2>4 DEF Coordinate, ArriveBroken
    <2>5. CASE ArriveFirst(t)
      <3>1. barrier' = [barrier EXCEPT !.count = 1] /\ 1 \in 0..1
        BY <2>5 DEF ArriveFirst
      <3>2. barrier' \in [state : {"filling", "draining", "broken"}, count : 0..1]
        BY <3>1, Zenon
      <3> QED
        BY <1>11, <2>5, <3>2 DEF Coordinate, ArriveFirst
    <2>6. CASE ArriveLast(t)
      BY SMTT(30), <1>11, <2>6 DEF Coordinate, ArriveLast
    <2>7. CASE Wake(t)
      <3>1. barrier' \in [state : {"filling", "draining", "broken"}, count : 0..1]
        BY <2>7 DEF Wake, NewBarrier, BarrierInv, InBarrier, Threads
      <3> QED
        BY <1>11, <2>7, <3>1 DEF Coordinate, Wake
    <2>8. CASE Pass(t)
      <3>1. ref' \in [Threads -> EventNames]
        BY ZenonT(40), <2>8 DEF Pass
      <3> QED
        BY <1>11, <2>8, <3>1 DEF Coordinate, Pass
    <2>9. CASE Await(t)
      BY <1>11, <2>9 DEF Coordinate, Await
    <2>10. CASE AbortBarrier(t)
      BY <1>11, <2>10 DEF Coordinate, AbortBarrier
    <2>11. CASE LoadSlot(t)
      BY <1>11, <2>11 DEF Coordinate, LoadSlot
    <2> QED
      BY <1>11, <2>1, <2>2, <2>3, <2>4, <2>5, <2>6, <2>7, <2>8, <2>9, <2>10, <2>11
      DEF Coordinate
  <1>12. CASE UNCHANGED vars
    BY <1>12 DEF vars, coordVars
  <1> QED
    BY <1>1, <1>2, <1>3, <1>4, <1>5, <1>6, <1>7, <1>8, <1>9, <1>10, <1>11, <1>12
    DEF Next, ThreadStep

LEMMA PlaceStep ==
  ASSUME IInv, [Next]_vars
  PROVE  PlaceInv'
  <1> USE DEF IInv, TypeOK, CoordTypeOK, PlaceInv, LeftInv
  <1> USE DEF Modes, Threads, Roles, Comm, Compute, NoRole, Goto, NewBarrier, InitialEvent, InRendezvous, Leaving, Active, Role
  <1>1. ASSUME NEW w \in Windows, OpenWindow(w) PROVE PlaceInv'
    BY <1>1 DEF OpenWindow, ResetCoordinator
  <1>2. ASSUME StartBwd PROVE PlaceInv'
    BY <1>2 DEF StartBwd
  <1>3. ASSUME StartFails PROVE PlaceInv'
    BY <1>3 DEF StartFails
  <1>4. ASSUME JoinBwd PROVE PlaceInv'
    BY <1>4 DEF JoinBwd
  <1>5. ASSUME NEW t \in Threads, FireHook(t) PROVE PlaceInv'
    BY SMTT(30), <1>5 DEF FireHook, NotifyDispatched, CallRendezvous
  <1>6. ASSUME NEW t \in Threads, LaunchOp(t) PROVE PlaceInv'
    BY SMTT(30), <1>6 DEF LaunchOp
  <1>7. ASSUME NEW t \in Threads, FinishChunk(t) PROVE PlaceInv'
    BY SMTT(30), <1>7 DEF FinishChunk
  <1>8. ASSUME NEW t \in Threads, RaiseInChunk(t) PROVE PlaceInv'
    BY SMTT(30), <1>8 DEF RaiseInChunk
  <1>9. ASSUME NEW t \in Threads, DropCoordination(t) PROVE PlaceInv'
    BY <1>9 DEF DropCoordination, DropFlag
  <1>10. ASSUME NEW t \in Threads, Release(t) PROVE PlaceInv'
    BY <1>10 DEF Release, ReleaseWaiter
  <1>11. ASSUME NEW t \in Threads, Coordinate(t) PROVE PlaceInv'
    <2> USE DEF Coordinate
    <2>1. CASE Enter(t)
      BY ZenonT(40), <1>11, <2>1 DEF Enter
    <2>2. CASE Publish(t)
      BY ZenonT(40), <1>11, <2>2 DEF Publish
    <2>3. CASE Count(t)
      BY SMTT(30), <1>11, <2>3 DEF Count
    <2>4. CASE ArriveBroken(t)
      BY <1>11, <2>4 DEF ArriveBroken
    <2>5. CASE ArriveFirst(t)
      BY SMTT(30), <1>11, <2>5 DEF ArriveFirst
    <2>6. CASE ArriveLast(t)
      BY SMTT(30), <1>11, <2>6 DEF ArriveLast
    <2>7. CASE Wake(t)
      BY ZenonT(40), <1>11, <2>7 DEF Wake
    <2>8. CASE Pass(t)
      BY SMTT(30), <1>11, <2>8 DEF Pass
    <2>9. CASE Await(t)
      BY SMTT(30), <1>11, <2>9 DEF Await
    <2>10. CASE AbortBarrier(t)
      BY <1>11, <2>10 DEF AbortBarrier
    <2>11. CASE LoadSlot(t)
      BY SMTT(30), <1>11, <2>11 DEF LoadSlot
    <2> QED
      BY <1>11, <2>1, <2>2, <2>3, <2>4, <2>5, <2>6, <2>7, <2>8, <2>9, <2>10, <2>11
      DEF RendezvousStep
  <1>12. CASE UNCHANGED vars
    BY <1>12 DEF vars, coordVars
  <1> QED
    BY <1>1, <1>2, <1>3, <1>4, <1>5, <1>6, <1>7, <1>8, <1>9, <1>10, <1>11, <1>12
    DEF Next, ThreadStep

LEMMA LeftStep ==
  ASSUME IInv, [Next]_vars
  PROVE  LeftInv'
  <1> USE DEF IInv, TypeOK, CoordTypeOK, LeftInv, PlaceInv
  <1> USE DEF Modes, Threads, Roles, Comm, Compute, NoRole, Goto, NewBarrier, InitialEvent, InRendezvous, Leaving, Active, Role
  <1>1. ASSUME NEW w \in Windows, OpenWindow(w) PROVE LeftInv'
    BY <1>1 DEF OpenWindow, ResetCoordinator
  <1>2. ASSUME StartBwd PROVE LeftInv'
    BY <1>2 DEF StartBwd
  <1>3. ASSUME StartFails PROVE LeftInv'
    BY <1>3 DEF StartFails
  <1>4. ASSUME JoinBwd PROVE LeftInv'
    BY <1>4 DEF JoinBwd
  <1>5. ASSUME NEW t \in Threads, FireHook(t) PROVE LeftInv'
    BY SMTT(30), <1>5 DEF FireHook, NotifyDispatched, CallRendezvous
  <1>6. ASSUME NEW t \in Threads, LaunchOp(t) PROVE LeftInv'
    BY <1>6 DEF LaunchOp
  <1>7. ASSUME NEW t \in Threads, FinishChunk(t) PROVE LeftInv'
    BY <1>7 DEF FinishChunk
  <1>8. ASSUME NEW t \in Threads, RaiseInChunk(t) PROVE LeftInv'
    BY <1>8 DEF RaiseInChunk
  <1>9. ASSUME NEW t \in Threads, DropCoordination(t) PROVE LeftInv'
    BY <1>9 DEF DropCoordination, DropFlag
  <1>10. ASSUME NEW t \in Threads, Release(t) PROVE LeftInv'
    BY <1>10 DEF Release, ReleaseWaiter
  <1>11. ASSUME NEW t \in Threads, Coordinate(t) PROVE LeftInv'
    <2> USE DEF Coordinate
    <2>1. CASE Enter(t)
      BY <1>11, <2>1 DEF Enter
    <2>2. CASE Publish(t)
      BY <1>11, <2>2 DEF Publish
    <2>3. CASE Count(t)
      BY <1>11, <2>3 DEF Count
    <2>4. CASE ArriveBroken(t)
      BY <1>11, <2>4 DEF ArriveBroken
    <2>5. CASE ArriveFirst(t)
      BY <1>11, <2>5 DEF ArriveFirst
    <2>6. CASE ArriveLast(t)
      BY <1>11, <2>6 DEF ArriveLast
    <2>7. CASE Wake(t)
      BY SMTT(30), <1>11, <2>7 DEF Wake
    <2>8. CASE Pass(t)
      BY SMTT(30), <1>11, <2>8 DEF Pass
    <2>9. CASE Await(t)
      BY <1>11, <2>9 DEF Await
    <2>10. CASE AbortBarrier(t)
      BY <1>11, <2>10 DEF AbortBarrier
    <2>11. CASE LoadSlot(t)
      BY <1>11, <2>11 DEF LoadSlot
    <2> QED
      BY <1>11, <2>1, <2>2, <2>3, <2>4, <2>5, <2>6, <2>7, <2>8, <2>9, <2>10, <2>11
      DEF RendezvousStep
  <1>12. CASE UNCHANGED vars
    BY <1>12 DEF vars, coordVars
  <1> QED
    BY <1>1, <1>2, <1>3, <1>4, <1>5, <1>6, <1>7, <1>8, <1>9, <1>10, <1>11, <1>12
    DEF Next, ThreadStep

LEMMA BarrierStep ==
  ASSUME IInv, [Next]_vars
  PROVE  BarrierInv'
  <1> USE DEF IInv, TypeOK, CoordTypeOK, BarrierInv, InBarrier, MayCount
  <1> USE DEF Modes, Threads, Roles, Comm, Compute, NoRole, Goto, NewBarrier, InitialEvent, InRendezvous, Leaving, Active, Role
  <1>1. ASSUME NEW w \in Windows, OpenWindow(w) PROVE BarrierInv'
    BY <1>1 DEF OpenWindow, ResetCoordinator
  <1>2. ASSUME StartBwd PROVE BarrierInv'
    BY <1>2 DEF StartBwd, LeftInv
  <1>3. ASSUME StartFails PROVE BarrierInv'
    BY <1>3 DEF StartFails
  <1>4. ASSUME JoinBwd PROVE BarrierInv'
    BY <1>4 DEF JoinBwd
  <1>5. ASSUME NEW t \in Threads, FireHook(t) PROVE BarrierInv'
    BY ZenonT(40), <1>5 DEF FireHook, NotifyDispatched, CallRendezvous
  <1>6. ASSUME NEW t \in Threads, LaunchOp(t) PROVE BarrierInv'
    BY <1>6 DEF LaunchOp
  <1>7. ASSUME NEW t \in Threads, FinishChunk(t) PROVE BarrierInv'
    BY <1>7 DEF FinishChunk
  <1>8. ASSUME NEW t \in Threads, RaiseInChunk(t) PROVE BarrierInv'
    BY <1>8 DEF RaiseInChunk
  <1>9. ASSUME NEW t \in Threads, DropCoordination(t) PROVE BarrierInv'
    BY <1>9 DEF DropCoordination, DropFlag
  <1>10. ASSUME NEW t \in Threads, Release(t) PROVE BarrierInv'
    BY ZenonT(40), <1>10 DEF Release, ReleaseWaiter
  <1>11. ASSUME NEW t \in Threads, Coordinate(t) PROVE BarrierInv'
    <2> USE DEF Coordinate
    <2>1. CASE Enter(t)
      BY <1>11, <2>1 DEF Enter
    <2>2. CASE Publish(t)
      BY <1>11, <2>2 DEF Publish
    <2>3. CASE Count(t)
      BY SMTT(30), <1>11, <2>3 DEF Count
    <2>4. CASE ArriveBroken(t)
      <3> USE DEF LeftInv
      <3>1. left # {} /\ opened > 0 /\ pc[t] = "arrive"
        BY <1>11, <2>4 DEF ArriveBroken
      <3>2. ~Active
        BY <3>1
      <3> QED
        BY <1>11, <2>4, <3>1, <3>2 DEF ArriveBroken
    <2>5. CASE ArriveFirst(t)
      BY SMTT(30), <1>11, <2>5 DEF ArriveFirst
    <2>6. CASE ArriveLast(t)
      BY <1>11, <2>6 DEF ArriveLast
    <2>7. CASE Wake(t)
      <3> USE DEF LeftInv
      <3>1. pc[t] = "parked" /\ barrier.state \in {"draining", "broken"}
        BY <1>11, <2>7 DEF Wake
      <3>2. barrier.state = "broken" => left # {} /\ opened > 0
        BY <3>1
      <3>3. barrier.state = "broken" => ~Active
        BY <3>2
      <3>4. CASE barrier.state = "draining"
        BY SMTT(30), <1>11, <2>7, <3>1, <3>4 DEF Wake
      <3>5. CASE barrier.state = "broken"
        <4> HIDE DEF LeftInv
        <4>1. /\ pc' = [pc EXCEPT ![t] = "op"] /\ barrier' = [barrier EXCEPT !.count = barrier.count - 1]
              /\ pendingComm' = pendingComm /\ enabled' = enabled /\ departed' = departed
              /\ left' = left
          BY <1>11, <2>7, <3>5 DEF Wake
        <4> QED
          BY SMTT(30), <3>1, <3>3, <3>5, <4>1
      <3> QED
        BY <3>1, <3>4, <3>5
    <2>8. CASE Pass(t)
      BY SMTT(30), <1>11, <2>8 DEF Pass
    <2>9. CASE Await(t)
      BY <1>11, <2>9 DEF Await
    <2>10. CASE AbortBarrier(t)
      BY SMTT(30), <1>11, <2>10 DEF AbortBarrier, LeftInv
    <2>11. CASE LoadSlot(t)
      BY <1>11, <2>11 DEF LoadSlot
    <2> QED
      BY <1>11, <2>1, <2>2, <2>3, <2>4, <2>5, <2>6, <2>7, <2>8, <2>9, <2>10, <2>11
      DEF RendezvousStep
  <1>12. CASE UNCHANGED vars
    BY <1>12 DEF vars, coordVars
  <1> QED
    BY <1>1, <1>2, <1>3, <1>4, <1>5, <1>6, <1>7, <1>8, <1>9, <1>10, <1>11, <1>12
    DEF Next, ThreadStep

LEMMA LockstepStep ==
  ASSUME IInv, [Next]_vars, left' = {}
  PROVE  Lockstep'
  <1> USE DEF IInv, TypeOK, CoordTypeOK, RoundsInv, Lockstep, Passed, Before, Parked
  <1> USE DEF Modes, Threads, Roles, Comm, Compute, NoRole, Goto, NewBarrier, InitialEvent, InRendezvous, Leaving, Active, Role
  <1>1. ASSUME NEW w \in Windows, OpenWindow(w) PROVE Lockstep'
    BY <1>1 DEF OpenWindow, ResetCoordinator
  <1>2. ASSUME StartBwd PROVE Lockstep'
    BY <1>2 DEF StartBwd, LeftInv
  <1>3. ASSUME StartFails PROVE Lockstep'
    BY <1>3 DEF StartFails, LeftInv
  <1>4. ASSUME JoinBwd PROVE Lockstep'
    BY <1>4 DEF JoinBwd
  <1>5. ASSUME NEW t \in Threads, FireHook(t) PROVE Lockstep'
    <2> HIDE DEF Passed, Before, Parked
    <2> QED
      BY <1>5, HookRounds DEF FireHook
  <1>6. ASSUME NEW t \in Threads, LaunchOp(t) PROVE Lockstep'
    BY <1>6 DEF LaunchOp
  <1>7. ASSUME NEW t \in Threads, FinishChunk(t) PROVE Lockstep'
    BY <1>7 DEF FinishChunk
  <1>8. ASSUME NEW t \in Threads, RaiseInChunk(t) PROVE Lockstep'
    BY <1>8 DEF RaiseInChunk
  <1>9. ASSUME NEW t \in Threads, DropCoordination(t) PROVE Lockstep'
    BY <1>9, DropLeaves
  <1>10. ASSUME NEW t \in Threads, Release(t) PROVE Lockstep'
    BY <1>10 DEF Release, ReleaseWaiter, LeftInv
  <1>11. ASSUME NEW t \in Threads, Coordinate(t) PROVE Lockstep'
    <2> USE DEF Coordinate
    <2>1. CASE Enter(t)
      <3>1. left = {} /\ pc[t] = "enter" /\ TypeOK /\ LeftInv
        BY <1>11, <2>1 DEF Enter
      <3>2. Active
        BY <3>1, StillActive
      <3> QED
        BY <1>11, <2>1, <3>2 DEF Enter
    <2>2. CASE Publish(t)
      BY <1>11, <2>2 DEF Publish
    <2>3. CASE Count(t)
      BY <1>11, <2>3 DEF Count
    <2>4. CASE ArriveBroken(t)
      BY <1>11, <2>4 DEF ArriveBroken, BarrierInv, InBarrier
    <2>5. CASE ArriveFirst(t)
      BY <1>11, <2>5 DEF ArriveFirst, BarrierInv, InBarrier
    <2>6. CASE ArriveLast(t)
      BY SMTT(30), <1>11, <2>6 DEF ArriveLast, BarrierInv, InBarrier
    <2>7. CASE Wake(t)
      BY SMTT(30), <1>11, <2>7 DEF Wake, BarrierInv, InBarrier
    <2>8. CASE Pass(t)
      BY SMTT(30), <1>11, <2>8 DEF Pass
    <2>9. CASE Await(t)
      BY <1>11, <2>9 DEF Await
    <2>10. CASE AbortBarrier(t)
      BY <1>11, <2>10 DEF AbortBarrier, LeftInv
    <2>11. CASE LoadSlot(t)
      BY <1>11, <2>11 DEF LoadSlot
    <2> QED
      BY <1>11, <2>1, <2>2, <2>3, <2>4, <2>5, <2>6, <2>7, <2>8, <2>9, <2>10, <2>11
      DEF RendezvousStep
  <1>12. CASE UNCHANGED vars
    BY <1>12 DEF vars, coordVars
  <1> QED
    BY <1>1, <1>2, <1>3, <1>4, <1>5, <1>6, <1>7, <1>8, <1>9, <1>10, <1>11, <1>12
    DEF Next, ThreadStep

LEMMA CountStep ==
  ASSUME IInv, [Next]_vars, left' = {}
  PROVE  CountInv'
  <1> USE DEF IInv, TypeOK, CoordTypeOK, RoundsInv, CountInv, Counted, Parked
  <1> USE DEF Modes, Threads, Roles, Comm, Compute, NoRole, Goto, NewBarrier, InitialEvent, InRendezvous, Leaving, Active, Role
  <1>1. ASSUME NEW w \in Windows, OpenWindow(w) PROVE CountInv'
    BY <1>1 DEF OpenWindow, ResetCoordinator
  <1>2. ASSUME StartBwd PROVE CountInv'
    BY <1>2 DEF StartBwd, LeftInv
  <1>3. ASSUME StartFails PROVE CountInv'
    BY <1>3 DEF StartFails
  <1>4. ASSUME JoinBwd PROVE CountInv'
    BY <1>4 DEF JoinBwd
  <1>5. ASSUME NEW t \in Threads, FireHook(t) PROVE CountInv'
    BY ZenonT(40), <1>5, HookTrail DEF FireHook
  <1>6. ASSUME NEW t \in Threads, LaunchOp(t) PROVE CountInv'
    BY <1>6 DEF LaunchOp
  <1>7. ASSUME NEW t \in Threads, FinishChunk(t) PROVE CountInv'
    BY <1>7 DEF FinishChunk
  <1>8. ASSUME NEW t \in Threads, RaiseInChunk(t) PROVE CountInv'
    BY <1>8 DEF RaiseInChunk
  <1>9. ASSUME NEW t \in Threads, DropCoordination(t) PROVE CountInv'
    BY <1>9, DropLeaves
  <1>10. ASSUME NEW t \in Threads, Release(t) PROVE CountInv'
    BY SMTT(30), <1>10 DEF Release, ReleaseWaiter
  <1>11. ASSUME NEW t \in Threads, Coordinate(t) PROVE CountInv'
    <2> USE DEF Coordinate
    <2>1. CASE Enter(t)
      BY <1>11, <2>1 DEF Enter, LeftInv
    <2>2. CASE Publish(t)
      BY <1>11, <2>2 DEF Publish, PlaceInv
    <2>3. CASE Count(t)
      BY SMTT(30), <1>11, <2>3 DEF Count, PlaceInv
    <2>4. CASE ArriveBroken(t)
      BY <1>11, <2>4 DEF ArriveBroken, BarrierInv, InBarrier
    <2>5. CASE ArriveFirst(t)
      BY <1>11, <2>5 DEF ArriveFirst, BarrierInv, InBarrier
    <2>6. CASE ArriveLast(t)
      BY <1>11, <2>6 DEF ArriveLast, BarrierInv, InBarrier
    <2>7. CASE Wake(t)
      BY SMTT(30), <1>11, <2>7 DEF Wake, BarrierInv, InBarrier
    <2>8. CASE Pass(t)
      BY <1>11, <2>8 DEF Pass
    <2>9. CASE Await(t)
      BY <1>11, <2>9 DEF Await
    <2>10. CASE AbortBarrier(t)
      BY <1>11, <2>10 DEF AbortBarrier, LeftInv
    <2>11. CASE LoadSlot(t)
      BY <1>11, <2>11 DEF LoadSlot
    <2> QED
      BY <1>11, <2>1, <2>2, <2>3, <2>4, <2>5, <2>6, <2>7, <2>8, <2>9, <2>10, <2>11
      DEF RendezvousStep
  <1>12. CASE UNCHANGED vars
    BY <1>12 DEF vars, coordVars
  <1> QED
    BY <1>1, <1>2, <1>3, <1>4, <1>5, <1>6, <1>7, <1>8, <1>9, <1>10, <1>11, <1>12
    DEF Next, ThreadStep

LEMMA RoundStep ==
  ASSUME IInv, [Next]_vars, left' = {}
  PROVE  RoundInv'
  <1> USE DEF IInv, TypeOK, CoordTypeOK, RoundsInv, RoundInv
  <1> USE DEF Modes, Threads, Roles, Comm, Compute, NoRole, Goto, NewBarrier, InitialEvent, InRendezvous, Leaving, Active, Role
  <1>1. ASSUME NEW w \in Windows, OpenWindow(w) PROVE RoundInv'
    BY <1>1 DEF OpenWindow, ResetCoordinator
  <1>2. ASSUME StartBwd PROVE RoundInv'
    BY <1>2 DEF StartBwd
  <1>3. ASSUME StartFails PROVE RoundInv'
    BY <1>3 DEF StartFails
  <1>4. ASSUME JoinBwd PROVE RoundInv'
    BY <1>4 DEF JoinBwd
  <1>5. ASSUME NEW t \in Threads, FireHook(t) PROVE RoundInv'
    <2> USE DEF PlaceInv, Lockstep, Passed, Before, Parked
    <2>1. left = {} /\ barrier' = barrier /\ roundHadComm' = roundHadComm
      BY <1>5 DEF FireHook
    <2>2. \A u \in Threads : Len(trail[u]) \in Nat /\ Passed(u) <= Len(trail[u])
      OBVIOUS
    <2> SUFFICES ASSUME NEW u \in Threads,
                        pc'[u] = "passed" \/ (pc'[u] = "parked" /\ barrier.state = "draining")
                 PROVE  roundHadComm <=> \E v \in Threads : trail'[v][Len(trail'[u])] = Comm
      BY <2>1
    <2>3. pc'[u] = pc[u] /\ trail'[u] = trail[u]
      BY <1>5, HookTrail
    <2>4. Passed(u) = Len(trail[u]) /\ Len(trail[u]) >= 1
      BY <2>1, <2>3
    <2>5. \A v \in Threads : Len(trail[u]) \in 1..Len(trail[v])
      BY SMTT(30), <2>1, <2>2, <2>4
    <2>6. \A v \in Threads : trail'[v][Len(trail[u])] = trail[v][Len(trail[u])]
      BY SMTT(30), <1>5, <2>5, HookTrail
    <2> QED
      BY SMTT(30), <2>1, <2>3, <2>6
  <1>6. ASSUME NEW t \in Threads, LaunchOp(t) PROVE RoundInv'
    BY <1>6 DEF LaunchOp
  <1>7. ASSUME NEW t \in Threads, FinishChunk(t) PROVE RoundInv'
    BY <1>7 DEF FinishChunk
  <1>8. ASSUME NEW t \in Threads, RaiseInChunk(t) PROVE RoundInv'
    BY <1>8 DEF RaiseInChunk
  <1>9. ASSUME NEW t \in Threads, DropCoordination(t) PROVE RoundInv'
    BY <1>9, DropLeaves
  <1>10. ASSUME NEW t \in Threads, Release(t) PROVE RoundInv'
    BY <1>10 DEF Release, ReleaseWaiter
  <1>11. ASSUME NEW t \in Threads, Coordinate(t) PROVE RoundInv'
    <2> USE DEF Coordinate
    <2>1. CASE Enter(t)
      BY <1>11, <2>1 DEF Enter
    <2>2. CASE Publish(t)
      BY <1>11, <2>2 DEF Publish
    <2>3. CASE Count(t)
      BY <1>11, <2>3 DEF Count
    <2>4. CASE ArriveBroken(t)
      BY <1>11, <2>4 DEF ArriveBroken
    <2>5. CASE ArriveFirst(t)
      BY <1>11, <2>5 DEF ArriveFirst, BarrierInv, InBarrier
    <2>6. CASE ArriveLast(t)
      <3> DEFINE o == Other(t)
                 n == Len(trail[t])
      <3>1. /\ left = {} /\ trail' = trail /\ pc[t] = "arrive" /\ barrier.state = "filling"
            /\ barrier.count = 1 /\ roundHadComm' = (pendingComm > 0)
            /\ o \in Threads /\ Threads = {t, o} /\ o # t
        BY <1>11, <2>6 DEF ArriveLast, Other
      <3>2. pc[o] = "parked"
        BY <3>1 DEF BarrierInv, InBarrier
      <3>3. Len(trail[o]) = n
        BY <3>1, <3>2 DEF Lockstep, Passed, Before, Parked
      <3>4. pendingComm > 0 <=> Role(t) = Comm \/ Role(o) = Comm
        BY <3>1, <3>2 DEF CountInv, Counted, Parked
      <3>5. \A u \in Threads : Len(trail'[u]) = n
        BY <3>1, <3>3
      <3>6. (pendingComm > 0) <=> \E u \in Threads : trail[u][n] = Comm
        BY <3>1, <3>3, <3>4
      <3> HIDE DEF IInv
      <3> QED
        BY <3>1, <3>5, <3>6
    <2>7. CASE Wake(t)
      <3> USE DEF BarrierInv, InBarrier
      <3>1. barrier.state = "draining" /\ pc'[t] = "passed" /\ pc[t] = "parked"
        BY <1>11, <2>7 DEF Wake
      <3>2. trail' = trail /\ roundHadComm' = roundHadComm /\ left = {}
        BY <1>11, <2>7 DEF Wake
      <3>3. pc' = [pc EXCEPT ![t] = "passed"] /\ \A u \in Threads : u # t => pc[u] # "parked"
        BY <1>11, <2>7, <3>1 DEF Wake
      <3> QED
        BY SMTT(30), <3>1, <3>2, <3>3
    <2>8. CASE Pass(t)
      BY SMTT(30), <1>11, <2>8 DEF Pass
    <2>9. CASE Await(t)
      BY <1>11, <2>9 DEF Await
    <2>10. CASE AbortBarrier(t)
      BY <1>11, <2>10 DEF AbortBarrier, LeftInv
    <2>11. CASE LoadSlot(t)
      BY <1>11, <2>11 DEF LoadSlot
    <2> QED
      BY <1>11, <2>1, <2>2, <2>3, <2>4, <2>5, <2>6, <2>7, <2>8, <2>9, <2>10, <2>11
      DEF RendezvousStep
  <1>12. CASE UNCHANGED vars
    BY <1>12 DEF vars, coordVars
  <1> QED
    BY <1>1, <1>2, <1>3, <1>4, <1>5, <1>6, <1>7, <1>8, <1>9, <1>10, <1>11, <1>12
    DEF Next, ThreadStep

LEMMA EventStep ==
  ASSUME IInv, [Next]_vars, left' = {}
  PROVE  EventInv'
  <1> USE DEF IInv, TypeOK, CoordTypeOK, RoundsInv, EventInv
  <1> USE DEF Modes, Threads, Roles, Comm, Compute, NoRole, Goto, NewBarrier, InitialEvent, InRendezvous, Leaving, Active, Role
  <1>1. ASSUME NEW w \in Windows, OpenWindow(w) PROVE EventInv'
    BY <1>1 DEF OpenWindow, ResetCoordinator, LeftInv
  <1>2. ASSUME StartBwd PROVE EventInv'
    BY <1>2 DEF StartBwd
  <1>3. ASSUME StartFails PROVE EventInv'
    BY <1>3 DEF StartFails
  <1>4. ASSUME JoinBwd PROVE EventInv'
    BY <1>4 DEF JoinBwd
  <1>5. ASSUME NEW t \in Threads, FireHook(t) PROVE EventInv'
    <2> USE DEF PlaceInv
    <2>1. left = {} /\ disp' = disp
      BY <1>5 DEF FireHook
    <2>2. \A u \in Threads : /\ Len(trail[u]) \in Nat /\ Len(trail'[u]) \in Nat
                             /\ Len(trail[u]) <= Len(trail'[u])
      BY <1>5, HookTrail
    <2>3. CASE UNCHANGED <<isSet, myEvent>>
      BY SMTT(30), <2>1, <2>2, <2>3
    <2>4. CASE /\ myEvent[t] # None
               /\ isSet' = isSet \cup {myEvent[t]}
               /\ myEvent' = [myEvent EXCEPT ![t] = None]
      <3>1. /\ myEvent[t] \in Threads \X Nat
            /\ myEvent[t][1] = t
            /\ myEvent[t][2] <= disp[t]
        BY <1>5, <2>1, <2>4, HookTrail
      <3>2. \A e \in isSet' : e \in Threads \X Nat /\ e[2] <= disp'[e[1]]
        BY <2>1, <2>4, <3>1
      <3>3. \A u \in Threads : myEvent'[u] # None => /\ myEvent'[u][1] = u
                                                    /\ myEvent'[u][2] <= Len(trail'[u])
        BY SMTT(30), <2>1, <2>2, <2>4
      <3> QED
        BY <3>2, <3>3
    <2> QED
      BY <1>5, <2>3, <2>4 DEF FireHook, NotifyDispatched
  <1>6. ASSUME NEW t \in Threads, LaunchOp(t) PROVE EventInv'
    BY SMTT(30), <1>6 DEF LaunchOp, PlaceInv
  <1>7. ASSUME NEW t \in Threads, FinishChunk(t) PROVE EventInv'
    BY <1>7 DEF FinishChunk
  <1>8. ASSUME NEW t \in Threads, RaiseInChunk(t) PROVE EventInv'
    BY <1>8 DEF RaiseInChunk
  <1>9. ASSUME NEW t \in Threads, DropCoordination(t) PROVE EventInv'
    BY <1>9, DropLeaves
  <1>10. ASSUME NEW t \in Threads, Release(t) PROVE EventInv'
    BY <1>10 DEF Release, ReleaseWaiter, LeftInv
  <1>11. ASSUME NEW t \in Threads, Coordinate(t) PROVE EventInv'
    <2> USE DEF Coordinate
    <2>1. CASE Enter(t)
      BY <1>11, <2>1 DEF Enter
    <2>2. CASE Publish(t)
      BY <1>11, <2>2 DEF Publish
    <2>3. CASE Count(t)
      BY <1>11, <2>3 DEF Count
    <2>4. CASE ArriveBroken(t)
      BY <1>11, <2>4 DEF ArriveBroken
    <2>5. CASE ArriveFirst(t)
      BY <1>11, <2>5 DEF ArriveFirst
    <2>6. CASE ArriveLast(t)
      BY <1>11, <2>6 DEF ArriveLast
    <2>7. CASE Wake(t)
      BY <1>11, <2>7 DEF Wake
    <2>8. CASE Pass(t)
      BY <1>11, <2>8 DEF Pass
    <2>9. CASE Await(t)
      BY <1>11, <2>9 DEF Await
    <2>10. CASE AbortBarrier(t)
      BY <1>11, <2>10 DEF AbortBarrier
    <2>11. CASE LoadSlot(t)
      BY <1>11, <2>11 DEF LoadSlot
    <2> QED
      BY <1>11, <2>1, <2>2, <2>3, <2>4, <2>5, <2>6, <2>7, <2>8, <2>9, <2>10, <2>11
      DEF RendezvousStep
  <1>12. CASE UNCHANGED vars
    BY SMTT(30), <1>12 DEF vars, coordVars
  <1> QED
    BY <1>1, <1>2, <1>3, <1>4, <1>5, <1>6, <1>7, <1>8, <1>9, <1>10, <1>11, <1>12
    DEF Next, ThreadStep

LEMMA SlotStep ==
  ASSUME IInv, [Next]_vars, left' = {}
  PROVE  SlotInv'
  <1> USE DEF IInv, TypeOK, CoordTypeOK, RoundsInv, Lockstep, Passed, Before, Parked, SlotInv, Shared, Other
  <1> USE DEF Modes, Threads, Roles, Comm, Compute, NoRole, Goto, NewBarrier, InitialEvent, InRendezvous, Leaving, Active, Role
  <1>1. ASSUME NEW w \in Windows, OpenWindow(w) PROVE SlotInv'
    BY <1>1 DEF OpenWindow, ResetCoordinator
  <1>2. ASSUME StartBwd PROVE SlotInv'
    BY <1>2 DEF StartBwd, LeftInv
  <1>3. ASSUME StartFails PROVE SlotInv'
    BY SMTT(30), <1>3 DEF StartFails
  <1>4. ASSUME JoinBwd PROVE SlotInv'
    BY SMTT(30), <1>4 DEF JoinBwd
  <1>5. ASSUME NEW t \in Threads, FireHook(t) PROVE SlotInv'
    <2>1. slot' = slot /\ left = {}
      BY <1>5 DEF FireHook
    <2> HIDE DEF Passed, Shared, SlotInv, Lockstep, PlaceInv, TypeOK, CoordTypeOK
    <2> QED
      BY <1>5, <2>1, HookTrail, HookRounds, SlotFrame
  <1>6. ASSUME NEW t \in Threads, LaunchOp(t) PROVE SlotInv'
    <2>1. slot' = slot /\ trail' = trail /\ left = {}
      BY <1>6 DEF LaunchOp
    <2>2. \A u \in Threads : Passed(u)' = Passed(u) /\ (Shared(u)' <=> Shared(u))
      BY <1>6 DEF LaunchOp, Passed, Shared
    <2>3. TypeOK /\ PlaceInv /\ Lockstep /\ SlotInv
      BY <2>1
    <2> HIDE DEF Passed, Shared, SlotInv, Lockstep, PlaceInv, TypeOK, CoordTypeOK, IInv
    <2> QED
      BY <2>1, <2>2, <2>3, SlotSame
  <1>7. ASSUME NEW t \in Threads, FinishChunk(t) PROVE SlotInv'
    <2>1. slot' = slot /\ trail' = trail /\ left = {}
      BY <1>7 DEF FinishChunk
    <2>2. \A u \in Threads : Passed(u)' = Passed(u) /\ (Shared(u)' <=> Shared(u))
      BY <1>7 DEF FinishChunk, Passed, Shared
    <2>3. TypeOK /\ PlaceInv /\ Lockstep /\ SlotInv
      BY <2>1
    <2> HIDE DEF Passed, Shared, SlotInv, Lockstep, PlaceInv, TypeOK, CoordTypeOK, IInv
    <2> QED
      BY <2>1, <2>2, <2>3, SlotSame
  <1>8. ASSUME NEW t \in Threads, RaiseInChunk(t) PROVE SlotInv'
    <2>1. slot' = slot /\ trail' = trail /\ left = {}
      BY <1>8 DEF RaiseInChunk
    <2>2. \A u \in Threads : Passed(u)' = Passed(u) /\ (Shared(u)' <=> Shared(u))
      BY <1>8 DEF RaiseInChunk, Passed, Shared
    <2>3. TypeOK /\ PlaceInv /\ Lockstep /\ SlotInv
      BY <2>1
    <2> HIDE DEF Passed, Shared, SlotInv, Lockstep, PlaceInv, TypeOK, CoordTypeOK, IInv
    <2> QED
      BY <2>1, <2>2, <2>3, SlotSame
  <1>9. ASSUME NEW t \in Threads, DropCoordination(t) PROVE SlotInv'
    BY <1>9, DropLeaves
  <1>10. ASSUME NEW t \in Threads, Release(t) PROVE SlotInv'
    BY SMTT(30), <1>10 DEF Release, ReleaseWaiter, LeftInv
  <1>11. ASSUME NEW t \in Threads, Coordinate(t) PROVE SlotInv'
    <2> USE DEF Coordinate
    <2>1. CASE Enter(t)
      <3> USE DEF LeftInv
      <3>1. slot' = slot /\ trail' = trail /\ left = {}
        BY <1>11, <2>1 DEF Enter
      <3>2. \A u \in Threads : Passed(u)' = Passed(u) /\ (Shared(u)' <=> Shared(u))
        BY SMTT(30), <1>11, <2>1 DEF Enter, Passed, Shared
      <3>3. TypeOK /\ PlaceInv /\ Lockstep /\ SlotInv
        BY <3>1
      <3> HIDE DEF Passed, Shared, SlotInv, Lockstep, PlaceInv, TypeOK, CoordTypeOK, IInv
      <3> QED
        BY <3>1, <3>2, <3>3, SlotSame
    <2>2. CASE Publish(t)
      BY SMTT(30), <1>11, <2>2 DEF Publish, PlaceInv
    <2>3. CASE Count(t)
      BY SMTT(30), <1>11, <2>3 DEF Count, PlaceInv
    <2>4. CASE ArriveBroken(t)
      BY <1>11, <2>4 DEF ArriveBroken, BarrierInv, InBarrier
    <2>5. CASE ArriveFirst(t)
      BY SMTT(30), <1>11, <2>5 DEF ArriveFirst, BarrierInv, InBarrier
    <2>6. CASE ArriveLast(t)
      BY SMTT(30), <1>11, <2>6 DEF ArriveLast, PlaceInv, BarrierInv, InBarrier
    <2>7. CASE Wake(t)
      <3> USE DEF BarrierInv, InBarrier
      <3>1. slot' = slot /\ trail' = trail /\ left = {}
        BY <1>11, <2>7 DEF Wake
      <3>2. \A u \in Threads : Passed(u)' = Passed(u) /\ (Shared(u)' <=> Shared(u))
        BY SMTT(30), <1>11, <2>7 DEF Wake, Passed, Shared
      <3>3. TypeOK /\ PlaceInv /\ Lockstep /\ SlotInv
        BY <3>1
      <3> HIDE DEF Passed, Shared, SlotInv, Lockstep, PlaceInv, TypeOK, CoordTypeOK, IInv
      <3> QED
        BY <3>1, <3>2, <3>3, SlotSame
    <2>8. CASE Pass(t)
      <3>1. slot' = slot /\ trail' = trail /\ left = {}
        BY <1>11, <2>8 DEF Pass
      <3>2. \A u \in Threads : Passed(u)' = Passed(u) /\ (Shared(u)' <=> Shared(u))
        BY SMTT(30), <1>11, <2>8 DEF Pass, Passed, Shared
      <3>3. TypeOK /\ PlaceInv /\ Lockstep /\ SlotInv
        BY <3>1
      <3> HIDE DEF Passed, Shared, SlotInv, Lockstep, PlaceInv, TypeOK, CoordTypeOK, IInv
      <3> QED
        BY <3>1, <3>2, <3>3, SlotSame
    <2>9. CASE Await(t)
      <3>1. slot' = slot /\ trail' = trail /\ left = {}
        BY <1>11, <2>9 DEF Await
      <3>2. \A u \in Threads : Passed(u)' = Passed(u) /\ (Shared(u)' <=> Shared(u))
        BY <1>11, <2>9 DEF Await, Passed, Shared
      <3>3. TypeOK /\ PlaceInv /\ Lockstep /\ SlotInv
        BY <3>1
      <3> HIDE DEF Passed, Shared, SlotInv, Lockstep, PlaceInv, TypeOK, CoordTypeOK, IInv
      <3> QED
        BY <3>1, <3>2, <3>3, SlotSame
    <2>10. CASE AbortBarrier(t)
      BY <1>11, <2>10 DEF AbortBarrier, LeftInv
    <2>11. CASE LoadSlot(t)
      BY <1>11, <2>11 DEF LoadSlot, LeftInv
    <2> QED
      BY <1>11, <2>1, <2>2, <2>3, <2>4, <2>5, <2>6, <2>7, <2>8, <2>9, <2>10, <2>11
      DEF RendezvousStep
  <1>12. CASE UNCHANGED vars
    <2>1. slot' = slot /\ trail' = trail /\ left = {}
      BY <1>12 DEF vars, coordVars
    <2>2. \A u \in Threads : Passed(u)' = Passed(u) /\ (Shared(u)' <=> Shared(u))
      BY <1>12 DEF vars, coordVars, Passed, Shared
    <2>3. TypeOK /\ PlaceInv /\ Lockstep /\ SlotInv
      BY <2>1
    <2> HIDE DEF Passed, Shared, SlotInv, Lockstep, PlaceInv, TypeOK, CoordTypeOK, IInv
    <2> QED
      BY <2>1, <2>2, <2>3, SlotSame
  <1> QED
    BY <1>1, <1>2, <1>3, <1>4, <1>5, <1>6, <1>7, <1>8, <1>9, <1>10, <1>11, <1>12
    DEF Next, ThreadStep

LEMMA AwaitStep ==
  ASSUME IInv, [Next]_vars, left' = {}
  PROVE  AwaitInv'
  <1> USE DEF IInv, TypeOK, CoordTypeOK, RoundsInv, AwaitInv, Other
  <1> USE DEF Modes, Threads, Roles, Comm, Compute, NoRole, Goto, NewBarrier, InitialEvent, InRendezvous, Leaving, Active, Role
  <1>1. ASSUME NEW w \in Windows, OpenWindow(w) PROVE AwaitInv'
    BY <1>1 DEF OpenWindow, ResetCoordinator
  <1>2. ASSUME StartBwd PROVE AwaitInv'
    BY <1>2 DEF StartBwd, LeftInv
  <1>3. ASSUME StartFails PROVE AwaitInv'
    BY ZenonT(40), <1>3 DEF StartFails
  <1>4. ASSUME JoinBwd PROVE AwaitInv'
    BY <1>4 DEF JoinBwd
  <1>5. ASSUME NEW t \in Threads, FireHook(t) PROVE AwaitInv'
    <2> USE DEF PlaceInv, Lockstep, Passed, Before, Parked
    <2>1. left = {} /\ disp' = disp /\ ref' = ref
      BY <1>5 DEF FireHook
    <2>2. \A u \in Threads : Len(trail[u]) \in Nat /\ Passed(u) <= Len(trail[u]) /\ Other(u) \in Threads
      OBVIOUS
    <2> SUFFICES ASSUME NEW u \in Threads, pc'[u] \in {"await", "op"}
                 PROVE  LET o == Other(u)
                            i == Len(trail'[u])
                        IN /\ pc'[u] = "await" => ref[u][1] = o /\ ref[u][2] >= i
                           /\ (pc'[u] = "op" /\ trail'[u][i] = Compute /\ trail'[o][i] = Comm)
                                => disp[o] >= i
      BY <2>1
    <2>3. pc'[u] = pc[u] /\ trail'[u] = trail[u]
      BY <1>5, HookTrail
    <2>4. Passed(u) = Len(trail[u]) /\ Len(trail[u]) >= 1
      BY <2>1, <2>3
    <2>5. \A v \in Threads : Len(trail[u]) \in 1..Len(trail[v])
      BY SMTT(30), <2>1, <2>2, <2>4
    <2>6. \A v \in Threads : trail'[v][Len(trail[u])] = trail[v][Len(trail[u])]
      BY SMTT(30), <1>5, <2>5, HookTrail
    <2>7. pc'[u] = "await" => ref[u][1] = Other(u) /\ ref[u][2] >= Len(trail[u])
      BY ZenonT(40), <2>1, <2>3
    <2>8. (pc'[u] = "op" /\ Role(u) = Compute /\ trail[Other(u)][Len(trail[u])] = Comm)
            => disp[Other(u)] >= Len(trail[u])
      BY ZenonT(40), <2>1, <2>3
    <2> HIDE DEF IInv
    <2> QED
      BY <2>2, <2>3, <2>6, <2>7, <2>8
  <1>6. ASSUME NEW t \in Threads, LaunchOp(t) PROVE AwaitInv'
    <2>1. /\ left = {} /\ trail' = trail /\ ref' = ref
          /\ \A u \in Threads : pc'[u] = pc[u] \/ pc'[u] = "run"
      BY <1>6 DEF LaunchOp
    <2>2. \A u \in Threads : /\ disp[u] \in Nat /\ disp'[u] \in Nat /\ disp'[u] >= disp[u]
                             /\ Other(u) \in Threads /\ Len(trail[u]) \in Nat
      BY SMTT(30), <1>6 DEF LaunchOp
    <2>3. AwaitInv
      BY <2>1
    <2> HIDE DEF IInv
    <2> QED
      BY SMTT(30), <2>1, <2>2, <2>3
  <1>7. ASSUME NEW t \in Threads, FinishChunk(t) PROVE AwaitInv'
    BY <1>7 DEF FinishChunk
  <1>8. ASSUME NEW t \in Threads, RaiseInChunk(t) PROVE AwaitInv'
    BY <1>8 DEF RaiseInChunk
  <1>9. ASSUME NEW t \in Threads, DropCoordination(t) PROVE AwaitInv'
    BY <1>9, DropLeaves
  <1>10. ASSUME NEW t \in Threads, Release(t) PROVE AwaitInv'
    BY <1>10 DEF Release, ReleaseWaiter
  <1>11. ASSUME NEW t \in Threads, Coordinate(t) PROVE AwaitInv'
    <2> USE DEF Coordinate
    <2>1. CASE Enter(t)
      <3> USE DEF PlaceInv
      <3>1. left = {} /\ pc[t] = "enter" /\ TypeOK /\ LeftInv
        BY <1>11, <2>1 DEF Enter
      <3>2. Active
        BY <3>1, StillActive
      <3> QED
        BY SMTT(30), <1>11, <2>1, <3>2 DEF Enter
    <2>2. CASE Publish(t)
      BY <1>11, <2>2 DEF Publish
    <2>3. CASE Count(t)
      BY <1>11, <2>3 DEF Count
    <2>4. CASE ArriveBroken(t)
      BY <1>11, <2>4 DEF ArriveBroken, BarrierInv, InBarrier
    <2>5. CASE ArriveFirst(t)
      BY <1>11, <2>5 DEF ArriveFirst
    <2>6. CASE ArriveLast(t)
      BY <1>11, <2>6 DEF ArriveLast
    <2>7. CASE Wake(t)
      BY SMTT(30), <1>11, <2>7 DEF Wake, BarrierInv, InBarrier
    <2>8. CASE Pass(t)
      <3> USE DEF Lockstep, Passed, PlaceInv, RoundInv, SlotInv, Shared, Before, Parked
      <3> DEFINE o == Other(t)
                 n == Len(trail[t])
      <3>1. /\ left = {} /\ trail' = trail /\ disp' = disp
            /\ pc[t] = "passed" /\ o \in Threads /\ Threads = {t, o}
            /\ pc'[o] = pc[o] /\ ref'[o] = ref[o]
        BY SMTT(30), <1>11, <2>8 DEF Pass
      <3>2. Passed(t) = n /\ n >= 1 /\ n <= Len(trail[o])
        BY SMTT(30), <3>1
      <3> DEFINE Waits(u) == /\ pc[u] = "await" => ref[u][1] = Other(u) /\ ref[u][2] >= Len(trail[u])
                             /\ (pc[u] = "op" /\ Role(u) = Compute /\ trail[Other(u)][Len(trail[u])] = Comm)
                                  => disp[Other(u)] >= Len(trail[u])
      <3>3. roundHadComm <=> \E u \in Threads : trail[u][n] = Comm
        BY SMTT(30), <3>1
      <3>4. Waits(o)'
        <4>1. Waits(o)
          BY SMTT(30), <3>1
        <4> QED
          BY <3>1, <4>1
      <3>5. ASSUME trail[t][n] = Compute /\ roundHadComm PROVE Waits(t)'
        <4>1. trail[o][n] = Comm
          BY <3>1, <3>3, <3>5
        <4>2. slot[1] = o /\ slot[2] >= n
          BY SMTT(30), <3>1, <3>2, <3>5, <4>1
        <4>3. pc'[t] = "await" /\ ref'[t] = slot
          BY <1>11, <2>8, <3>5 DEF Pass
        <4> QED
          BY <3>1, <4>2, <4>3
      <3>6. ASSUME ~(trail[t][n] = Compute /\ roundHadComm) PROVE Waits(t)'
        <4>1. pc'[t] = "op" /\ ref' = ref
          BY <1>11, <2>8, <3>6 DEF Pass
        <4>2. ~(trail[t][n] = Compute /\ trail[o][n] = Comm)
          BY <3>1, <3>3, <3>6
        <4> QED
          BY <3>1, <4>1, <4>2
      <3>7. Waits(t)'
        BY <3>5, <3>6
      <3> HIDE DEF Waits
      <3>8. \A u \in Threads : Waits(u)'
        BY <3>1, <3>4, <3>7
      <3> QED
        BY <3>8 DEF Waits
    <2>9. CASE Await(t)
      BY SMTT(30), <1>11, <2>9 DEF Await, EventInv, PlaceInv
    <2>10. CASE AbortBarrier(t)
      BY <1>11, <2>10 DEF AbortBarrier
    <2>11. CASE LoadSlot(t)
      BY ZenonT(40), <1>11, <2>11 DEF LoadSlot
    <2> QED
      BY <1>11, <2>1, <2>2, <2>3, <2>4, <2>5, <2>6, <2>7, <2>8, <2>9, <2>10, <2>11
      DEF RendezvousStep
  <1>12. CASE UNCHANGED vars
    BY <1>12 DEF vars, coordVars
  <1> QED
    BY <1>1, <1>2, <1>3, <1>4, <1>5, <1>6, <1>7, <1>8, <1>9, <1>10, <1>11, <1>12
    DEF Next, ThreadStep

------------------------------------------------------------------------------

LEMMA InitInvariant == Init => IInv
  <1> SUFFICES ASSUME Init
               PROVE  IInv
    OBVIOUS
  <1> USE DEF Init, Threads, InitialEvent, NewBarrier
  <1>1. TypeOK
    <2>1. <<>> \in Seq(Roles) /\ <<>> \in Seq(Hooks)
      OBVIOUS
    <2>2. /\ barrier \in [state : {"filling", "draining", "broken"}, count : 0..1]
          /\ slot \in EventNames
          /\ isSet \in SUBSET EventNames
          /\ myEvent \in [Threads -> (Threads \X Nat) \cup {None}]
          /\ pendingComm \in 0..2
          /\ ref \in [Threads -> EventNames]
      BY DEF EventNames
    <2>3. pc \in [Threads -> Places]
      BY DEF Places
    <2>4. trail \in [Threads -> Seq(Roles)] /\ window \in [Threads -> Seq(Hooks)]
      BY <2>1
    <2> QED
      BY <2>2, <2>3, <2>4 DEF TypeOK, CoordTypeOK, Modes, Results
  <1>2. PlaceInv /\ LeftInv
    BY DEF PlaceInv, LeftInv, InRendezvous, Leaving, Active
  <1>3. BarrierInv
    BY DEF BarrierInv, InBarrier, MayCount
  <1>4. Lockstep /\ CountInv /\ RoundInv /\ EventInv
    BY DEF Lockstep, Passed, Before, Parked, CountInv, Counted, RoundInv, EventInv
  <1>5. SlotInv /\ AwaitInv
    BY DEF SlotInv, AwaitInv, Shared, Passed, Before, Parked, Other
  <1> QED
    BY <1>1, <1>2, <1>3, <1>4, <1>5 DEF IInv, RoundsInv

LEMMA StepInvariant == IInv /\ [Next]_vars => IInv'
  <1> SUFFICES ASSUME IInv, [Next]_vars
               PROVE  IInv'
    OBVIOUS
  <1>1. TypeOK' /\ PlaceInv' /\ LeftInv' /\ BarrierInv'
    BY TypeStep, PlaceStep, LeftStep, BarrierStep
  <1>2. ASSUME left' = {}
        PROVE  Lockstep' /\ CountInv' /\ RoundInv' /\ EventInv' /\ SlotInv' /\ AwaitInv'
    BY <1>2, LockstepStep, CountStep, RoundStep, EventStep, SlotStep, AwaitStep
  <1> QED
    BY <1>1, <1>2 DEF IInv, RoundsInv

LEMMA Invariant == Safety => []IInv
  BY InitInvariant, StepInvariant, PTL DEF Safety

\* Every field of the coordinator and of the window keeps its type: the
\* barrier holds at most one waiter and _pending_comm never exceeds the two
\* parties, whatever a departed session left behind.
THEOREM TypeCorrect == Spec => []TypeOK
  <1>1. IInv => TypeOK
    BY DEF IInv
  <1> QED
    BY <1>1, Invariant, PTL DEF Spec

\* A COMPUTE op is launched after the COMM op it was paired with, for all
\* hook sequences: the guarantee of hook_coordinator.py:63-69 does not depend
\* on how layers were tagged or recomputed, only termination does.
THEOREM CommGoesFirst == Spec => []CommFirst
  <1>1. IInv => CommFirst
    <2> SUFFICES ASSUME IInv, failed = {}, NEW t \in Threads,
                        pc[t] = "op", Role(t) = Compute,
                        Len(trail[t]) <= Len(trail[Other(t)]),
                        trail[Other(t)][Len(trail[t])] = Comm
                 PROVE  disp[Other(t)] >= Len(trail[t])
      BY DEF CommFirst
    <2>1. CASE left = {}
      BY <2>1 DEF IInv, RoundsInv, AwaitInv
    <2>2. CASE left # {}
      <3>1. t \notin left
        BY DEF IInv, LeftInv, Leaving
      <3>2. Other(t) \in left /\ Other(t) \in Threads
        BY ZenonT(40), <2>2, <3>1 DEF IInv, TypeOK, CoordTypeOK, Threads, Other
      <3>3. disp[Other(t)] = Len(trail[Other(t)])
        BY <3>2 DEF IInv, LeftInv
      <3> QED
        BY <3>3
    <2> QED
      BY <2>1, <2>2
  <1> QED
    BY <1>1, Invariant, PTL DEF Spec

------------------------------------------------------------------------------
(* The window implements CommFirstRendezvous. *)

\* A launch is allowed by the protocol.
LEMMA LaunchRefines ==
  ASSUME IInv, NEW t \in Threads, LaunchOp(t)
  PROVE  Protocol!Launch(t)
  <1>1. pc[t] = "op" /\ disp' = [disp EXCEPT ![t] = @ + 1] /\ UNCHANGED <<trail, left>>
    BY DEF LaunchOp
  <1>2. disp[t] < Len(trail[t]) /\ t \notin left
    <2>1. Len(trail[t]) \in Nat /\ disp[t] = Len(trail[t]) - 1
      BY <1>1 DEF IInv, TypeOK, CoordTypeOK, PlaceInv, InRendezvous
    <2>2. t \notin left
      BY <1>1 DEF IInv, LeftInv, Leaving
    <2> QED
      BY <2>1, <2>2
  <1>3. CASE left = {}
    <2>1. Len(trail[t]) <= Len(trail[Other(t)])
      BY SMTT(30), <1>1, <1>3 DEF IInv, TypeOK, CoordTypeOK, RoundsInv, Lockstep, Passed, Before,
                        Parked, Other, Threads
    <2>2. (Role(t) = Compute /\ trail[Other(t)][Len(trail[t])] = Comm)
            => Len(trail[t]) <= disp[Other(t)]
      BY <1>1, <1>3 DEF IInv, TypeOK, CoordTypeOK, RoundsInv, AwaitInv, Other, Threads
    <2> QED
      BY <1>1, <1>2, <2>1, <2>2 DEF Protocol!Launch, Protocol!Paired, Role
  <1>4. CASE left # {}
    <2>1. Other(t) \in left
      BY <1>2, <1>4 DEF IInv, TypeOK, CoordTypeOK, Threads, Other
    <2> QED
      BY <1>1, <1>2, <2>1 DEF Protocol!Launch
  <1> QED
    BY <1>3, <1>4

\* A hook announces its role, or leaves the protocol alone.
LEMMA HookRefines ==
  ASSUME IInv, NEW t \in Threads, FireHook(t)
  PROVE  [Protocol!PNext]_(Protocol!pvars)
  <1> DEFINE role == window[t][pos[t] + 1].next
  <1>1. disp' = disp /\ left' = left /\ disp[t] = Len(trail[t])
    BY DEF FireHook, IInv, PlaceInv
  <1>2. role \in {Comm, Compute, NoRole}
    <2>1. pos[t] + 1 \in 1..Len(window[t]) /\ window[t] \in Seq(Hooks)
      <3>1. pos[t] < Len(window[t])
        BY DEF FireHook
      <3>2. pos[t] \in Nat /\ window[t] \in Seq(Hooks)
        BY DEF IInv, TypeOK
      <3> QED
        BY <3>1, <3>2
    <2>2. window[t][pos[t] + 1] \in Hooks
      BY <2>1
    <2> QED
      BY <2>1, <2>2 DEF Hooks, Roles
  <1>3. CASE role = NoRole
    <2>1. trail' = trail
      BY <1>3 DEF FireHook
    <2> QED
      BY <1>1, <2>1 DEF Protocol!pvars
  <1>4. CASE role # NoRole
    <2>1. trail' = [trail EXCEPT ![t] = Append(@, role)]
      BY <1>4 DEF FireHook, CallRendezvous
    <2>2. Protocol!Announce(t, role)
      BY <1>1, <2>1 DEF Protocol!Announce
    <2> QED
      BY <1>2, <1>4, <2>2 DEF Protocol!PNext
  <1> QED
    BY <1>3, <1>4

LEMMA StepRefines ==
  ASSUME IInv, [Next]_vars
  PROVE  [Protocol!PNext]_(Protocol!pvars)
  <1> USE DEF Protocol!pvars
  <1>1. ASSUME NEW w \in Windows, OpenWindow(w) PROVE [Protocol!PNext]_(Protocol!pvars)
    <2>1. Protocol!PInit'
      BY <1>1 DEF OpenWindow, Protocol!PInit
    <2>2. CASE opened = 0
      BY <1>1, <2>2 DEF OpenWindow, IInv, LeftInv, TypeOK, CoordTypeOK
    <2>3. CASE opened # 0
      <3>1. left # {}
        BY <1>1, <2>3 DEF OpenWindow, IInv, LeftInv, TypeOK
      <3> QED
        BY <2>1, <3>1 DEF Protocol!PNext, Protocol!NewSession
    <2> QED
      BY <2>2, <2>3
  <1>2. CASE StartBwd
    BY <1>2 DEF StartBwd
  <1>3. CASE StartFails
    BY <1>3 DEF StartFails
  <1>4. CASE JoinBwd
    BY <1>4 DEF JoinBwd
  <1>5. ASSUME NEW t \in Threads, FireHook(t) PROVE [Protocol!PNext]_(Protocol!pvars)
    BY <1>5, HookRefines
  <1>6. ASSUME NEW t \in Threads, LaunchOp(t) PROVE [Protocol!PNext]_(Protocol!pvars)
    BY <1>6, LaunchRefines DEF Protocol!PNext
  <1>7. ASSUME NEW t \in Threads, FinishChunk(t) \/ RaiseInChunk(t) \/ Release(t)
        PROVE  [Protocol!PNext]_(Protocol!pvars)
    BY <1>7 DEF FinishChunk, RaiseInChunk, Release, ReleaseWaiter
  <1>8. ASSUME NEW t \in Threads, DropCoordination(t) PROVE [Protocol!PNext]_(Protocol!pvars)
    <2>1. Protocol!Leave(t)
      BY <1>8 DEF DropCoordination, DropFlag, Protocol!Leave
    <2> QED
      BY <2>1 DEF Protocol!PNext
  <1>9. ASSUME NEW t \in Threads, Coordinate(t) PROVE [Protocol!PNext]_(Protocol!pvars)
    BY <1>9 DEF Coordinate, RendezvousStep, Enter, Publish, Count, ArriveBroken, ArriveFirst,
                ArriveLast, Wake, Pass, Await, AbortBarrier, LoadSlot
  <1>10. CASE UNCHANGED vars
    BY <1>10 DEF vars, coordVars
  <1> QED
    BY <1>1, <1>2, <1>3, <1>4, <1>5, <1>6, <1>7, <1>8, <1>9, <1>10 DEF Next, ThreadStep

\* The coordinator implements the two-party protocol, whatever the windows,
\* their number, and the failures: while nobody has left, both threads launch
\* in lockstep and COMM goes first.
THEOREM WindowImplementsProtocol == Spec => ImplementsProtocol
  <1>1. Init => Protocol!PInit
    BY DEF Init, Protocol!PInit
  <1> QED
    BY <1>1, Invariant, StepRefines, PTL DEF Spec, Safety, ImplementsProtocol, Protocol!PSpec

------------------------------------------------------------------------------
(***************************************************************************)
(* How a window ends, and windows in pairs.                                *)
(***************************************************************************)
\* The calls a thread has made are those of the hooks it has fired.
TraceInv ==
  /\ opened > 0 => window \in Windows
  /\ \A t \in Threads :
       /\ pos[t] <= Len(window[t])
       /\ Len(trail[t]) = Calls(window[t], pos[t])
       /\ \A k \in 1..Len(trail[t]) : \E p \in Calling(window[t], pos[t]) :
            Calls(window[t], p) = k /\ trail[t][k] = window[t][p].next

\* Where each thread may stand while the other one opens, joins or closes.
StageInv ==
  /\ pc["fwd"] \notin {"off", "done"} /\ pc["bwd"] \notin {"idle", "start", "join"}
  /\ pc["fwd"] = "idle" => pc["bwd"] \in {"off", "done"}
  /\ pc["fwd"] = "start" => failed = {}
  /\ pc["fwd"] = "join" => "fwd" \in left
  /\ pc["bwd"] = "done" => "bwd" \in left
  /\ \A t \in Threads : (pc[t] \in Leaving /\ mode[t] = "reset") =>
       t = "fwd" /\ (result = "startError" \/ (pc["bwd"] = "done" /\ left = Threads))

\* What is known of the window when run() returns, and before it does.
ResultInv ==
  /\ pc["fwd"] # "idle" => result \in {"none", "startError"}
  /\ result = "startError" => /\ failed = {} /\ pc["bwd"] = "off"
                              /\ pc["fwd"] \in Leaving \cup {"idle"}
                              /\ pc["fwd"] \in Leaving => mode["fwd"] = "reset"
  /\ pc["fwd"] = "idle" /\ opened > 0 /\ result # "startError" =>
       /\ left = Threads
       /\ result = IF "bwd" \in failed THEN "bwdError" ELSE IF "fwd" \in failed THEN "fwdError" ELSE "ok"
  /\ opened = 0 => result = "none" /\ failed = {}
  /\ \A t \in Threads :
       (t \notin failed /\ pc[t] \in Leaving \cup {"join", "done", "idle"} /\ result # "startError") =>
         pos[t] = Len(window[t]) /\ disp[t] = Len(trail[t])

\* Coordinator steps move one thread inside its rendezvous, or on its way out,
\* and touch nothing of the window.
LEMMA CoordinateMoves ==
  ASSUME TypeOK, NEW t \in Threads, Coordinate(t)
  PROVE  /\ \/ pc[t] \in InRendezvous /\ pc'[t] \in InRendezvous
            \/ pc[t] = "abort" /\ pc'[t] = "load"
            \/ pc[t] = "load" /\ pc'[t] = "release"
         /\ \A u \in Threads : u # t => pc'[u] = pc[u]
         /\ UNCHANGED <<trail, left, window, pos, disp, failed, mode, result, opened>>
  BY SMTT(60) DEF Coordinate, RendezvousStep, Enter, Publish, Count, ArriveBroken, ArriveFirst,
     ArriveLast, Wake, Pass, Await, AbortBarrier, LoadSlot, Goto, InRendezvous, TypeOK, CoordTypeOK

\* A hook with a rendezvous starts one, another one moves on; nothing else changes.
LEMMA HookMoves ==
  ASSUME TypeOK, NEW t \in Threads, FireHook(t)
  PROVE  /\ pc[t] = "run" /\ pc'[t] \in {"run", "enter"}
         /\ \A u \in Threads : u # t => pc'[u] = pc[u] /\ pos'[u] = pos[u]
         /\ pos'[t] = pos[t] + 1 /\ pos[t] < Len(window[t])
         /\ UNCHANGED <<left, window, disp, failed, mode, result, opened>>
  BY HookTrail DEF FireHook, TypeOK

\* One lemma for each part of what is known of the end of a window.
LEMMA StageStep ==
  ASSUME IInv, StageInv, ResultInv, [Next]_vars
  PROVE  StageInv'
  <1> USE DEF IInv, TypeOK, CoordTypeOK, LeftInv, StageInv, ResultInv, Goto, Threads, Leaving, InRendezvous
  <1>1. ASSUME NEW w \in Windows, OpenWindow(w) PROVE StageInv'
    BY <1>1 DEF OpenWindow
  <1>2. ASSUME StartBwd PROVE StageInv'
    BY <1>2 DEF StartBwd
  <1>3. ASSUME StartFails PROVE StageInv'
    BY <1>3 DEF StartFails
  <1>4. ASSUME JoinBwd PROVE StageInv'
    <2>1. left' = Threads
      BY <1>4 DEF JoinBwd
    <2> QED
      BY <1>4, <2>1 DEF JoinBwd
  <1>5. ASSUME NEW t \in Threads, FireHook(t) PROVE StageInv'
    BY <1>5, HookMoves
  <1>6. ASSUME NEW t \in Threads, LaunchOp(t) PROVE StageInv'
    BY <1>6 DEF LaunchOp
  <1>7. ASSUME NEW t \in Threads, FinishChunk(t) PROVE StageInv'
    BY <1>7 DEF FinishChunk
  <1>8. ASSUME NEW t \in Threads, RaiseInChunk(t) PROVE StageInv'
    BY <1>8 DEF RaiseInChunk
  <1>9. ASSUME NEW t \in Threads, DropCoordination(t) PROVE StageInv'
    BY <1>9 DEF DropCoordination, DropFlag
  <1>10. ASSUME NEW t \in Threads, Release(t) PROVE StageInv'
    BY <1>10 DEF Release, ReleaseWaiter, Modes
  <1>11. ASSUME NEW t \in Threads, Coordinate(t) PROVE StageInv'
    BY <1>11, CoordinateMoves, SMTT(30)
  <1>12. CASE UNCHANGED vars
    BY <1>12 DEF vars, coordVars
  <1> QED
    BY <1>1, <1>2, <1>3, <1>4, <1>5, <1>6, <1>7, <1>8, <1>9, <1>10, <1>11, <1>12
    DEF Next, ThreadStep

\* What run() reports follows from what its threads did.
LEMMA ResultStep ==
  ASSUME IInv, StageInv, ResultInv, [Next]_vars
  PROVE  ResultInv'
  <1> USE DEF IInv, TypeOK, CoordTypeOK, LeftInv, StageInv, ResultInv, Goto, Threads, Leaving, InRendezvous
  <1>1. ASSUME NEW w \in Windows, OpenWindow(w) PROVE ResultInv'
    BY <1>1 DEF OpenWindow
  <1>2. ASSUME StartBwd PROVE ResultInv'
    BY <1>2 DEF StartBwd
  <1>3. ASSUME StartFails PROVE ResultInv'
    BY <1>3 DEF StartFails
  <1>4. ASSUME JoinBwd PROVE ResultInv'
    BY <1>4 DEF JoinBwd
  <1>5. ASSUME NEW t \in Threads, FireHook(t) PROVE ResultInv'
    <2>1. \A u \in Threads : u # t => pc'[u] = pc[u] /\ pos'[u] = pos[u] /\ trail'[u] = trail[u]
      BY <1>5, HookMoves, HookTrail, SMTT(30)
    <2>2. /\ pc[t] = "run" /\ pc'[t] \in {"run", "enter"}
          /\ UNCHANGED <<left, window, disp, failed, mode, result, opened>>
      BY <1>5, HookMoves
    <2> QED
      BY <2>1, <2>2
  <1>6. ASSUME NEW t \in Threads, LaunchOp(t) PROVE ResultInv'
    BY <1>6 DEF LaunchOp
  <1>7. ASSUME NEW t \in Threads, FinishChunk(t) PROVE ResultInv'
    BY <1>7 DEF FinishChunk, PlaceInv
  <1>8. ASSUME NEW t \in Threads, RaiseInChunk(t) PROVE ResultInv'
    BY <1>8 DEF RaiseInChunk
  <1>9. ASSUME NEW t \in Threads, DropCoordination(t) PROVE ResultInv'
    BY <1>9 DEF DropCoordination, DropFlag
  <1>10. ASSUME NEW t \in Threads, Release(t) PROVE ResultInv'
    BY <1>10 DEF Release, ReleaseWaiter, Modes
  <1>11. ASSUME NEW t \in Threads, Coordinate(t) PROVE ResultInv'
    BY <1>11, CoordinateMoves
  <1>12. CASE UNCHANGED vars
    BY <1>12 DEF vars, coordVars
  <1> QED
    BY <1>1, <1>2, <1>3, <1>4, <1>5, <1>6, <1>7, <1>8, <1>9, <1>10, <1>11, <1>12
    DEF Next, ThreadStep

\* How the calls grow with the hooks that are fired.
LEMMA CallsGrow ==
  ASSUME NEW hooks, NEW n \in Nat
  PROVE  /\ IsFiniteSet(Calling(hooks, n)) /\ Calls(hooks, n) \in Nat
         /\ Calls(hooks, 0) = 0 /\ Calling(hooks, 0) = {}
         /\ Calling(hooks, n) \subseteq Calling(hooks, n + 1)
         /\ hooks[n + 1].next = NoRole => Calling(hooks, n + 1) = Calling(hooks, n)
         /\ hooks[n + 1].next # NoRole => /\ Calling(hooks, n + 1) = Calling(hooks, n) \cup {n + 1}
                                          /\ Calls(hooks, n + 1) = Calls(hooks, n) + 1
  <1>1. IsFiniteSet(Calling(hooks, n))
    <2>1. IsFiniteSet(1..n) /\ Calling(hooks, n) \in SUBSET (1..n)
      BY FS_Interval DEF Calling
    <2> QED
      BY <2>1, FS_Subset
  <1>2. Calls(hooks, n) \in Nat
    BY <1>1, FS_CardinalityType DEF Calls
  <1>3. Calling(hooks, 0) = {} /\ Calls(hooks, 0) = 0
    BY FS_EmptySet DEF Calling, Calls
  <1>4. Calling(hooks, n) \subseteq Calling(hooks, n + 1)
    BY DEF Calling
  <1>5. hooks[n + 1].next = NoRole => Calling(hooks, n + 1) = Calling(hooks, n)
    BY DEF Calling
  <1>6. ASSUME hooks[n + 1].next # NoRole
        PROVE  /\ Calling(hooks, n + 1) = Calling(hooks, n) \cup {n + 1}
               /\ Calls(hooks, n + 1) = Calls(hooks, n) + 1
    <2>1. Calling(hooks, n + 1) = Calling(hooks, n) \cup {n + 1} /\ n + 1 \notin Calling(hooks, n)
      BY <1>6 DEF Calling
    <2> QED
      BY <1>1, <2>1, FS_AddElement DEF Calls
  <1> QED
    BY <1>1, <1>2, <1>3, <1>4, <1>5, <1>6

\* Only a new window and a hook touch what TraceInv speaks of.
LEMMA TraceStep ==
  ASSUME IInv, TraceInv, [Next]_vars
  PROVE  TraceInv'
  <1> USE DEF IInv
  <1>1. ASSUME NEW w \in Windows, OpenWindow(w) PROVE TraceInv'
    <2>1. /\ window' = w /\ pos' = [t \in Threads |-> 0] /\ trail' = [t \in Threads |-> <<>>]
          /\ \A t \in Threads : w[t] \in Seq(Hooks)
      BY <1>1, WindowsAssumption DEF OpenWindow
    <2> QED
      BY <2>1, CallsGrow DEF TraceInv
  <1>2. ASSUME NEW t \in Threads, FireHook(t) PROVE TraceInv'
    <2> DEFINE hooks == window[t]
               n == pos[t]
               role == hooks[n + 1].next
    <2>1. /\ \A u \in Threads : u # t => pos'[u] = pos[u] /\ trail'[u] = trail[u]
          /\ pos'[t] = n + 1 /\ n < Len(hooks) /\ window' = window /\ opened' = opened
      BY <1>2, HookMoves, HookTrail
    <2>2. n \in Nat /\ trail[t] \in Seq(Roles) /\ Len(hooks) \in Nat
      BY DEF TypeOK, CoordTypeOK
    <2> DEFINE Traced(u) == /\ pos[u] <= Len(window[u])
                            /\ Len(trail[u]) = Calls(window[u], pos[u])
                            /\ \A k \in 1..Len(trail[u]) : \E p \in Calling(window[u], pos[u]) :
                                 Calls(window[u], p) = k /\ trail[u][k] = window[u][p].next
    <2>3. \A u \in Threads : Traced(u)
      BY DEF TraceInv
    <2>4. \A u \in Threads : u # t => Traced(u)'
      BY <2>1, <2>3
    <2>5. CASE role = NoRole
      <3>1. trail'[t] = trail[t]
        BY <1>2, <2>5 DEF FireHook
      <3>2. Calling(hooks, n + 1) = Calling(hooks, n)
        BY <2>2, <2>5, CallsGrow
      <3>3. Calls(hooks, n + 1) = Calls(hooks, n)
        BY <3>2 DEF Calls
      <3>4. Traced(t)'
        BY <2>1, <2>2, <2>3, <3>1, <3>2, <3>3
      <3> QED
        BY <2>1, <2>4, <3>4 DEF TraceInv
    <2>6. CASE role # NoRole
      <3>1. trail'[t] = Append(trail[t], role)
        BY <1>2, <2>6 DEF FireHook, CallRendezvous, TypeOK, CoordTypeOK
      <3>2. /\ Calling(hooks, n + 1) = Calling(hooks, n) \cup {n + 1}
            /\ Calls(hooks, n + 1) = Calls(hooks, n) + 1
            /\ Calls(hooks, n) \in Nat
        BY <2>2, <2>6, CallsGrow
      <3>3. Len(trail'[t]) = Len(trail[t]) + 1 /\ Len(trail[t]) = Calls(hooks, n)
        BY <2>2, <2>3, <3>1
      <3>4. ASSUME NEW k \in 1..Len(trail'[t])
            PROVE  \E p \in Calling(hooks, n + 1) : Calls(hooks, p) = k /\ trail'[t][k] = hooks[p].next
        <4>1. CASE k \in 1..Len(trail[t])
          <5>1. PICK p \in Calling(hooks, n) : Calls(hooks, p) = k /\ trail[t][k] = hooks[p].next
            BY <2>3, <4>1
          <5>2. trail'[t][k] = trail[t][k] /\ p \in Calling(hooks, n + 1)
            BY <2>2, <3>1, <3>2, <4>1
          <5> QED
            BY <5>1, <5>2
        <4>2. CASE k = Len(trail[t]) + 1
          <5>1. trail'[t][k] = role /\ n + 1 \in Calling(hooks, n + 1) /\ Calls(hooks, n + 1) = k
            BY <2>2, <3>1, <3>2, <3>3, <4>2
          <5> QED
            BY <5>1
        <4> QED
          BY <2>2, <3>3, <4>1, <4>2
      <3>5. Traced(t)'
        BY <2>1, <2>2, <3>2, <3>3, <3>4
      <3> QED
        BY <2>1, <2>4, <3>5 DEF TraceInv
    <2> QED
      BY <2>5, <2>6
  <1>3. ASSUME NEW t \in Threads, Coordinate(t) PROVE TraceInv'
    BY <1>3, CoordinateMoves DEF TraceInv
  <1>4. ASSUME NEW t \in Threads, \/ LaunchOp(t) \/ FinishChunk(t) \/ RaiseInChunk(t)
                                  \/ DropCoordination(t) \/ Release(t)
        PROVE  TraceInv'
    BY <1>4 DEF TraceInv, LaunchOp, FinishChunk, RaiseInChunk, DropCoordination, DropFlag,
                Release, ReleaseWaiter
  <1>5. ASSUME StartBwd \/ StartFails \/ JoinBwd \/ UNCHANGED vars PROVE TraceInv'
    BY <1>5 DEF TraceInv, StartBwd, StartFails, JoinBwd, vars, coordVars
  <1> QED
    BY <1>1, <1>2, <1>3, <1>4, <1>5 DEF Next, ThreadStep

----------------------------------------------------------------------------
\* The end of a window.

EndInv == IInv /\ TraceInv /\ StageInv /\ ResultInv

\* All of it holds in every reachable state.
LEMMA EndInvariant == Safety => []EndInv
  <1>1. Init => EndInv
    <2> SUFFICES ASSUME Init PROVE EndInv
      OBVIOUS
    <2>1. IInv
      BY InitInvariant
    <2>2. StageInv /\ ResultInv
      BY DEF Init, StageInv, ResultInv, Threads, Leaving
    <2>3. TraceInv
      <3>1. /\ \A t \in Threads : trail[t] = <<>> /\ pos[t] = 0 /\ window[t] = <<>>
            /\ opened = 0
        BY DEF Init
      <3>2. Calls(<<>>, 0) = 0 /\ Len(<<>>) = 0
        BY CallsGrow
      <3> QED
        BY <3>1, <3>2 DEF TraceInv
    <2> QED
      BY <2>1, <2>2, <2>3 DEF EndInv
  <1>2. EndInv /\ [Next]_vars => EndInv'
    BY StepInvariant, TraceStep, StageStep, ResultStep DEF EndInv
  <1> QED
    BY <1>1, <1>2, PTL DEF Safety

\* run() returns without an error only after every op of both chunks was
\* launched and both threads have left, whatever the windows and failures.
THEOREM NoOpIsLost == Spec => []EveryOpLaunched
  <1>1. EndInv => EveryOpLaunched
    <2> SUFFICES ASSUME EndInv, result = "ok" PROVE EveryOpLaunched
      BY DEF EveryOpLaunched
    <2>1. pc["fwd"] = "idle" /\ opened > 0
      BY DEF EndInv, ResultInv, IInv, TypeOK
    <2>2. left = Threads /\ failed = {}
      BY <2>1 DEF EndInv, ResultInv, IInv, TypeOK, Threads
    <2>3. \A t \in Threads : pc[t] \in Leaving \cup {"join", "done", "idle"}
      BY <2>2 DEF EndInv, IInv, LeftInv
    <2>4. \A t \in Threads : pos[t] = Len(window[t]) /\ disp[t] = Len(trail[t])
      BY <2>2, <2>3 DEF EndInv, ResultInv
    <2>5. \A t \in Threads : Len(trail[t]) = Calls(window[t], pos[t])
      BY DEF EndInv, TraceInv
    <2> QED
      BY <2>2, <2>4, <2>5 DEF EveryOpLaunched
  <1> QED
    BY <1>1, EndInvariant, PTL DEF Spec

\* An exception of either chunk surfaces from run(), the backward one first,
\* whichever windows came before.
THEOREM FailuresSurface == Spec => []FailureSurfaces
  <1>1. EndInv => FailureSurfaces
    BY DEF EndInv, StageInv, ResultInv, IInv, TypeOK, FailureSurfaces, Threads
  <1> QED
    BY <1>1, EndInvariant, PTL DEF Spec

----------------------------------------------------------------------------
\* Windows in pairs.

\* Every window that may be run is one of tagged layers, see InPairs.
Paired == \A w \in Windows : InPairs(w)

\* Two calls of the same number have different roles, and so have two calls in a row.
Alternates ==
  \A t \in Threads : \A i \in 1..Len(trail[t]) :
    /\ i <= Len(trail[Other(t)]) => trail[t][i] # trail[Other(t)][i]
    /\ i < Len(trail[t]) => trail[t][i] # trail[t][i + 1]

\* The hooks fired so far are hooks of the window.
LEMMA FiredAreHooks ==
  ASSUME TypeOK, TraceInv, NEW t \in Threads, NEW n \in Nat, n <= Len(window[t])
  PROVE  Calling(window[t], n) \subseteq Calling(window[t], Len(window[t]))
  BY DEF Calling, TypeOK

\* A call recorded in a trail is that of a hook of the window.
LEMMA RecordedCall ==
  ASSUME TypeOK, TraceInv, NEW t \in Threads, NEW k \in 1..Len(trail[t])
  PROVE  \E p \in Calling(window[t], Len(window[t])) :
           Calls(window[t], p) = k /\ trail[t][k] = window[t][p].next
  <1>1. PICK p \in Calling(window[t], pos[t]) : Calls(window[t], p) = k /\ trail[t][k] = window[t][p].next
    BY DEF TraceInv
  <1>2. p \in Calling(window[t], Len(window[t]))
    BY FiredAreHooks DEF TypeOK, TraceInv
  <1> QED
    BY <1>1, <1>2

\* A window whose threads have called anything was opened.
LEMMA CallsNeedWindow ==
  ASSUME IInv, TraceInv, Paired, NEW t \in Threads, Len(trail[t]) >= 1 \/ pc[t] \in InRendezvous \cup {"run"}
  PROVE  opened > 0 /\ InPairs(window)
  <1>1. opened # 0 /\ opened \in Nat
    <2> SUFFICES ASSUME opened = 0 PROVE FALSE
      BY DEF IInv, TypeOK
    <2>1. trail[t] = <<>> /\ pc["fwd"] = "idle" /\ pc["bwd"] = "off"
      BY DEF IInv, LeftInv
    <2> QED
      BY <2>1 DEF Threads, InRendezvous
  <1> QED
    BY <1>1 DEF TraceInv, Paired

\* The trails inherit the pairs of the windows.
LEMMA TrailsAlternate ==
  ASSUME IInv, TraceInv, Paired
  PROVE  Alternates
  <1> USE DEF IInv
  <1> SUFFICES ASSUME NEW t \in Threads, NEW i \in 1..Len(trail[t])
               PROVE  /\ i <= Len(trail[Other(t)]) => trail[t][i] # trail[Other(t)][i]
                      /\ i < Len(trail[t]) => trail[t][i] # trail[t][i + 1]
    BY DEF Alternates
  <1>1. Len(trail[t]) \in Nat /\ Other(t) \in Threads /\ Len(trail[Other(t)]) \in Nat
    BY DEF TypeOK, CoordTypeOK, Other, Threads
  <1>2. InPairs(window)
    BY <1>1, CallsNeedWindow
  <1>3. PICK p \in Calling(window[t], Len(window[t])) :
          Calls(window[t], p) = i /\ trail[t][i] = window[t][p].next
    BY RecordedCall
  <1>4. ASSUME i <= Len(trail[Other(t)]) PROVE trail[t][i] # trail[Other(t)][i]
    <2>1. i \in 1..Len(trail[Other(t)])
      BY <1>1, <1>4
    <2>2. PICK q \in Calling(window[Other(t)], Len(window[Other(t)])) :
            Calls(window[Other(t)], q) = i /\ trail[Other(t)][i] = window[Other(t)][q].next
      BY <1>1, <2>1, RecordedCall
    <2>3. CASE t = "fwd"
      BY <1>2, <1>3, <2>2, <2>3 DEF InPairs, Other
    <2>4. CASE t = "bwd"
      BY <1>2, <1>3, <2>2, <2>4 DEF InPairs, Other
    <2> QED
      BY <2>3, <2>4 DEF Threads
  <1>5. ASSUME i < Len(trail[t]) PROVE trail[t][i] # trail[t][i + 1]
    <2>1. i + 1 \in 1..Len(trail[t])
      BY <1>1, <1>5
    <2>2. PICK q \in Calling(window[t], Len(window[t])) :
            Calls(window[t], q) = i + 1 /\ trail[t][i + 1] = window[t][q].next
      BY <2>1, RecordedCall
    <2> QED
      BY <1>2, <1>3, <2>2 DEF InPairs
  <1> QED
    BY <1>4, <1>5

\* In a window of tagged layers, every round that trips the barrier pairs a
\* COMM with a COMPUTE (_sync_hook.py:26-29), for chunks of any length.
THEOREM RoundsArePairs == ASSUME Paired PROVE Spec => []StrictPairs
  <1>1. EndInv => StrictPairs
    <2> SUFFICES ASSUME EndInv, NEW t \in Threads, pc[t] = "passed", Len(trail[t]) <= Len(trail[Other(t)])
                 PROVE  trail[Other(t)][Len(trail[t])] # Role(t)
      BY DEF StrictPairs
    <2>1. Alternates
      BY TrailsAlternate DEF EndInv
    <2>2. Len(trail[t]) \in 1..Len(trail[t])
      BY DEF EndInv, IInv, TypeOK, CoordTypeOK, PlaceInv, InRendezvous
    <2> QED
      BY <2>1, <2>2 DEF Alternates, Role
  <1> QED
    BY <1>1, EndInvariant, PTL DEF Spec

----------------------------------------------------------------------------
\* The event that is awaited.

\* A COMPUTE caller past the barrier finds the event of its own round in the slot.
LEMMA PassLoadsOwn ==
  ASSUME IInv, Alternates, left = {}, NEW t \in Threads, pc[t] = "passed", Role(t) = Compute, roundHadComm
  PROVE  slot = <<Other(t), Len(trail[t])>>
  <1> DEFINE o == Other(t)
             n == Len(trail[t])
  <1>0. Lockstep /\ RoundInv /\ SlotInv /\ o \in Threads /\ t \in Threads /\ Threads = {t, o} /\ Other(o) = t
    BY DEF IInv, RoundsInv, Other, Threads
  <1>1. n \in Nat /\ n >= 1 /\ Len(trail[o]) \in Nat
    BY <1>0 DEF IInv, TypeOK, CoordTypeOK, PlaceInv, InRendezvous
  <1>2. Passed(t) = n /\ Passed(o) = n /\ ~Shared(t)
    <2>1. Passed(t) = n /\ ~Shared(t)
      BY DEF Passed, Before, Parked, Shared
    <2>2. Passed(o) = Passed(t)
      BY <1>0 DEF Lockstep, Threads
    <2> QED
      BY <2>1, <2>2
  <1>3. trail[t][n] = Compute
    BY DEF Role
  <1>4. trail[o][n] = Comm
    <2>1. \E u \in Threads : trail[u][n] = Comm
      BY DEF RoundInv, IInv, RoundsInv
    <2> QED
      BY <1>0, <1>3, <2>1 DEF Comm, Compute
  <1>5. ~Shared(o)
    <2> SUFFICES ASSUME Shared(o) PROVE FALSE
      OBVIOUS
    <2>1. Before(o) /\ trail[o][Len(trail[o])] = Comm
      BY DEF Shared, Before, Role
    <2>2. Len(trail[o]) = n + 1
      BY <1>1, <1>2, <2>1 DEF Passed
    <2>3. n \in 1..Len(trail[o])
      BY <1>1, <2>2
    <2>4. trail[o][n] # trail[o][n + 1]
      BY <1>0, <1>1, <2>2, <2>3 DEF Alternates
    <2> QED
      BY <1>4, <2>1, <2>2, <2>4
  <1> QED
    BY <1>0, <1>1, <1>2, <1>3, <1>4, <1>5 DEF SlotInv

\* No step breaks FreshEvent: only Pass loads an event to wait for.
LEMMA FreshStep ==
  ASSUME IInv, Alternates, FreshEvent, [Next]_vars
  PROVE  FreshEvent'
  <1> USE DEF FreshEvent
  <1>1. ASSUME NEW w \in Windows, OpenWindow(w) PROVE FreshEvent'
    BY <1>1 DEF OpenWindow, Threads
  <1>2. ASSUME StartBwd \/ StartFails \/ JoinBwd PROVE FreshEvent'
    BY <1>2 DEF StartBwd, StartFails, JoinBwd, IInv, TypeOK, CoordTypeOK, Goto
  <1>3. ASSUME NEW t \in Threads, FireHook(t) PROVE FreshEvent'
    <2>1. /\ \A u \in Threads : u # t => trail'[u] = trail[u] /\ pc'[u] = pc[u]
          /\ pc'[t] \in {"run", "enter"} /\ left' = left /\ ref' = ref
      BY <1>3, HookTrail, HookMoves DEF IInv, FireHook
    <2> QED
      BY <2>1
  <1>4. ASSUME NEW t \in Threads, \/ LaunchOp(t) \/ FinishChunk(t) \/ RaiseInChunk(t)
        PROVE  FreshEvent'
    BY <1>4 DEF LaunchOp, FinishChunk, RaiseInChunk, IInv, TypeOK, CoordTypeOK, Goto
  <1>5. ASSUME NEW t \in Threads, DropCoordination(t) PROVE FreshEvent'
    BY <1>5, DropLeaves
  <1>6. ASSUME NEW t \in Threads, Release(t) PROVE FreshEvent'
    <2>1. left' # {}
      BY <1>6 DEF Release, ReleaseWaiter, IInv, LeftInv
    <2> QED
      BY <2>1
  <1>7. ASSUME NEW t \in Threads, Coordinate(t) PROVE FreshEvent'
    <2>0. trail' = trail /\ left' = left /\ \A u \in Threads : u # t => pc'[u] = pc[u]
      BY <1>7, CoordinateMoves DEF IInv
    <2>1. CASE Pass(t)
      <3>1. \A u \in Threads : u # t => ref'[u] = ref[u]
        BY <2>1 DEF Pass, IInv, TypeOK, CoordTypeOK
      <3>2. ASSUME left = {}, pc'[t] = "await" PROVE ref'[t] = <<Other(t), Len(trail[t])>>
        <4>1. pc[t] = "passed" /\ Role(t) = Compute /\ roundHadComm /\ ref'[t] = slot
          BY <2>1, <3>2 DEF Pass, IInv, TypeOK, CoordTypeOK, Goto
        <4> QED
          BY <3>2, <4>1, PassLoadsOwn
      <3> QED
        BY <2>0, <3>1, <3>2
    <2>2. CASE LoadSlot(t)
      <3>1. t \in left
        BY <2>2 DEF LoadSlot, IInv, LeftInv
      <3> QED
        BY <2>0, <3>1
    <2>3. CASE \/ Enter(t) \/ Publish(t) \/ Count(t) \/ ArriveBroken(t) \/ ArriveFirst(t)
               \/ ArriveLast(t) \/ Wake(t) \/ Await(t) \/ AbortBarrier(t)
      <3>1. ref' = ref /\ pc'[t] # "await"
        BY <2>3 DEF Enter, Publish, Count, ArriveBroken, ArriveFirst, ArriveLast, Wake, Await,
                    AbortBarrier, Goto, IInv, TypeOK, CoordTypeOK
      <3> QED
        BY <2>0, <3>1
    <2> QED
      BY <1>7, <2>1, <2>2, <2>3 DEF Coordinate, RendezvousStep
  <1>8. CASE UNCHANGED vars
    BY <1>8 DEF vars, coordVars
  <1> QED
    BY <1>1, <1>2, <1>3, <1>4, <1>5, <1>6, <1>7, <1>8 DEF Next, ThreadStep

\* The event awaited is fresh in every reachable state.
LEMMA FreshInvariant == ASSUME Paired PROVE Safety => []FreshEvent
  <1>1. Init => FreshEvent
    BY DEF Init, FreshEvent, Threads
  <1>2. EndInv /\ FreshEvent /\ [Next]_vars => FreshEvent'
    BY FreshStep, TrailsAlternate DEF EndInv
  <1> QED
    BY <1>1, <1>2, EndInvariant, PTL DEF Safety

\* In a window of tagged layers a COMPUTE caller awaits the event its partner
\* made for this very rendezvous: the stale-state race of
\* hook_coordinator.py:71-77 cannot happen.
THEOREM AwaitedEventIsFresh == ASSUME Paired PROVE Spec => []FreshEvent
  BY FreshInvariant, PTL DEF Spec

----------------------------------------------------------------------------
\* The notifications.

\* A thread inside a rendezvous stands at the hook that called it.
AtHook(t) == pc[t] \in InRendezvous => pos[t] \in Calling(window[t], pos[t])

\* An event that is not notified yet is the one of the last rendezvous, and no
\* hook has notified since.
Unnotified(t) ==
  myEvent[t] # None =>
    /\ myEvent[t] = <<t, Len(trail[t])>>
    /\ pc[t] \notin {"enter", "publish"}
    /\ \E p \in Calling(window[t], pos[t]) :
         /\ Calls(window[t], p) = Len(trail[t]) /\ window[t][p].next = Comm
         /\ \A i \in p + 1 .. pos[t] : window[t][i].prev # Comm

\* Every COMM rendezvous has published its event: it is set, or still remembered.
Published(t) ==
  \A k \in 1..Len(trail[t]) :
    (trail[t][k] = Comm /\ (k = Len(trail[t]) => pc[t] \notin {"enter", "publish"})) =>
      <<t, k>> \in isSet \/ myEvent[t] = <<t, k>>

NotifyInv == left = {} => \A t \in Threads : AtHook(t) /\ Unnotified(t) /\ Published(t)

\* What a hook does to the events: a COMM op that was launched is notified.
LEMMA HookNotifies ==
  ASSUME IInv, TraceInv, Paired, left = {}, NEW t \in Threads, FireHook(t)
  PROVE  IF window[t][pos[t] + 1].prev = Comm /\ myEvent[t] # None
         THEN isSet' = isSet \cup {myEvent[t]} /\ myEvent' = [myEvent EXCEPT ![t] = None]
         ELSE UNCHANGED <<isSet, myEvent>>
  <1>1. Active
    <2>1. pc[t] = "run"
      BY DEF FireHook
    <2>2. opened > 0
      BY <2>1, CallsNeedWindow
    <2> QED
      BY <2>2 DEF IInv, LeftInv
  <1> QED
    BY <1>1 DEF FireHook, NotifyDispatched

\* A hook that calls a rendezvous notifies the event that is left, if any is.
LEMMA CallSettles ==
  ASSUME IInv, TraceInv, Paired, left = {}, NEW t \in Threads, Unnotified(t), myEvent[t] # None,
         FireHook(t), window[t][pos[t] + 1].next # NoRole
  PROVE  window[t][pos[t] + 1].prev = Comm
  <1> DEFINE hooks == window[t]
             n == pos[t]
  <1>1. PICK p \in Calling(hooks, n) : /\ Calls(hooks, p) = Len(trail[t]) /\ hooks[p].next = Comm
                                       /\ \A i \in p + 1 .. n : hooks[i].prev # Comm
    BY DEF Unnotified
  <1>2. n \in Nat /\ n < Len(hooks) /\ Len(hooks) \in Nat /\ Len(trail[t]) = Calls(hooks, n)
    BY HookMoves DEF IInv, TypeOK, TraceInv
  <1>3. n + 1 \in Calling(hooks, n + 1) /\ Calls(hooks, n + 1) = Calls(hooks, p) + 1
    <2>1. /\ Calling(hooks, n + 1) = Calling(hooks, n) \cup {n + 1}
          /\ Calls(hooks, n + 1) = Calls(hooks, n) + 1
      BY <1>2, CallsGrow
    <2> QED
      BY <1>1, <1>2, <2>1
  <1>4. n + 1 \in Calling(hooks, Len(hooks)) /\ p \in Calling(hooks, Len(hooks)) /\ p \in 1..n
    BY <1>1, <1>2, <1>3 DEF Calling
  <1>5. InPairs(window)
    <2>1. pc[t] = "run"
      BY DEF FireHook
    <2> QED
      BY <2>1, CallsNeedWindow
  <1>6. PICK i \in p + 1 .. n + 1 : hooks[i].prev = Comm
    BY <1>1, <1>3, <1>4, <1>5 DEF InPairs
  <1>7. i = n + 1
    BY <1>1, <1>2, <1>4, <1>6
  <1> QED
    BY <1>6, <1>7

\* A hook keeps the account of its thread's events.
LEMMA HookKeepsEvents ==
  ASSUME IInv, TraceInv, Paired, left = {}, NEW t \in Threads, FireHook(t),
         AtHook(t), Unnotified(t), Published(t)
  PROVE  AtHook(t)' /\ Unnotified(t)' /\ Published(t)'
  <1> DEFINE hooks == window[t]
             n == pos[t]
             role == hooks[n + 1].next
  <1>1. /\ window' = window /\ pos'[t] = n + 1 /\ n \in Nat /\ Len(trail[t]) \in Nat
        /\ pc[t] = "run" /\ trail[t] \in Seq(Roles) /\ myEvent \in [Threads -> (Threads \X Nat) \cup {None}]
    BY HookMoves DEF IInv, TypeOK, CoordTypeOK
  <1>2. IF hooks[n + 1].prev = Comm /\ myEvent[t] # None
        THEN isSet' = isSet \cup {myEvent[t]} /\ myEvent'[t] = None
        ELSE isSet' = isSet /\ myEvent' = myEvent
    BY <1>1, HookNotifies
  <1>3. CASE role = NoRole
    <2>1. pc' = pc /\ trail' = trail /\ Calling(hooks, n + 1) = Calling(hooks, n)
      BY <1>1, <1>3, CallsGrow DEF FireHook
    <2>2. AtHook(t)'
      BY <1>1, <2>1 DEF AtHook, InRendezvous
    <2>3. Unnotified(t)'
      <3> SUFFICES ASSUME myEvent'[t] # None PROVE Unnotified(t)'
        BY DEF Unnotified
      <3>1. myEvent' = myEvent /\ hooks[n + 1].prev # Comm /\ myEvent[t] # None
        BY <1>2
      <3>2. PICK p \in Calling(hooks, n) : /\ Calls(hooks, p) = Len(trail[t]) /\ hooks[p].next = Comm
                                           /\ \A i \in p + 1 .. n : hooks[i].prev # Comm
        BY <3>1 DEF Unnotified
      <3>3. p \in Nat /\ \A i \in p + 1 .. n + 1 : hooks[i].prev # Comm
        <4>1. p \in Nat
          BY DEF Calling
        <4>2. \A i \in p + 1 .. n + 1 : i = n + 1 \/ i \in p + 1 .. n
          BY <1>1, <4>1
        <4> QED
          BY <3>1, <3>2, <4>1, <4>2
      <3>4. myEvent[t] = <<t, Len(trail[t])>> /\ pc[t] \notin {"enter", "publish"}
        BY <3>1 DEF Unnotified
      <3> QED
        BY <1>1, <2>1, <3>1, <3>2, <3>3, <3>4 DEF Unnotified
    <2>4. Published(t)'
      BY <1>1, <1>2, <2>1 DEF Published
    <2> QED
      BY <2>2, <2>3, <2>4
  <1>4. CASE role # NoRole
    <2>1. pc'[t] = "enter" /\ trail'[t] = Append(trail[t], role)
      BY <1>4 DEF FireHook, CallRendezvous, Goto, IInv, TypeOK, CoordTypeOK
    <2>2. AtHook(t)'
      <3>1. n + 1 \in Calling(hooks, n + 1)
        BY <1>1, <1>4, CallsGrow
      <3> QED
        BY <1>1, <3>1 DEF AtHook
    <2>3. myEvent'[t] = None
      BY <1>2, <1>4, CallSettles
    <2>4. Unnotified(t)'
      BY <2>3 DEF Unnotified
    <2>5. Published(t)'
      <3> SUFFICES ASSUME NEW k \in 1..Len(trail'[t]), trail'[t][k] = Comm, k # Len(trail'[t])
                   PROVE  <<t, k>> \in isSet'
        BY <2>1 DEF Published
      <3>1. Len(trail'[t]) = Len(trail[t]) + 1
        BY <1>1, <2>1
      <3>2. k \in 1..Len(trail[t]) /\ trail[t][k] = Comm
        BY <1>1, <2>1, <3>1
      <3>3. <<t, k>> \in isSet \/ myEvent[t] = <<t, k>>
        BY <1>1, <3>2 DEF Published
      <3>4. myEvent[t] = <<t, k>> => myEvent[t] # None
        BY <1>1, NoneAssumption
      <3> QED
        BY <1>2, <2>3, <3>3, <3>4
    <2> QED
      BY <2>2, <2>4, <2>5
  <1> QED
    BY <1>3, <1>4

\* The account of a thread's events stays when its place does not matter to it.
LEMMA EventsStay ==
  ASSUME NEW t \in Threads, AtHook(t), Unnotified(t), Published(t),
         window' = window, pos' = pos, trail'[t] = trail[t],
         myEvent'[t] = myEvent[t], isSet \subseteq isSet',
         pc'[t] \in InRendezvous => pc[t] \in InRendezvous,
         pc'[t] \in {"enter", "publish"} <=> pc[t] \in {"enter", "publish"}
  PROVE  AtHook(t)' /\ Unnotified(t)' /\ Published(t)'
  <1>1. AtHook(t)'
    BY DEF AtHook
  <1>2. Unnotified(t)'
    BY DEF Unnotified
  <1>3. Published(t)'
    BY DEF Published
  <1> QED
    BY <1>1, <1>2, <1>3

\* Publishing starts a new entry.
LEMMA PublishKeepsEvents ==
  ASSUME IInv, TraceInv, NEW t \in Threads, Publish(t), UNCHANGED <<window, pos>>,
         AtHook(t), Unnotified(t), Published(t)
  PROVE  AtHook(t)' /\ Unnotified(t)' /\ Published(t)'
  <1>1. /\ pc[t] = "publish" /\ pc'[t] = "count" /\ trail' = trail /\ isSet' = isSet
        /\ myEvent'[t] = <<t, Len(trail[t])>>
        /\ Role(t) = Comm /\ Len(trail[t]) \in Nat /\ Len(trail[t]) >= 1 /\ pos[t] \in Nat
    BY DEF Publish, Goto, IInv, TypeOK, CoordTypeOK, PlaceInv, InRendezvous
  <1>2. pos[t] \in Calling(window[t], pos[t])
    BY <1>1 DEF AtHook, InRendezvous
  <1>3. AtHook(t)'
    BY <1>2 DEF AtHook
  <1>4. Calls(window[t], pos[t]) = Len(trail[t])
    BY DEF TraceInv
  <1>5. window[t][pos[t]].next = Comm
    <2>1. PICK p \in Calling(window[t], pos[t]) :
            Calls(window[t], p) = Len(trail[t]) /\ trail[t][Len(trail[t])] = window[t][p].next
      BY <1>1 DEF TraceInv
    <2>2. p = pos[t]
      <3> SUFFICES ASSUME p # pos[t] PROVE FALSE
        OBVIOUS
      <3>1. p \in Nat /\ p < pos[t]
        BY <1>1 DEF Calling
      <3>2. IsFiniteSet(Calling(window[t], pos[t]))
        BY <1>1, CallsGrow
      <3>3. Calling(window[t], p) \in SUBSET Calling(window[t], pos[t])
        BY <1>1, <3>1 DEF Calling
      <3>4. Calling(window[t], p) = Calling(window[t], pos[t])
        BY <1>4, <2>1, <3>2, <3>3, FS_Subset DEF Calls
      <3>5. pos[t] \notin Calling(window[t], p)
        BY <1>1, <3>1 DEF Calling
      <3> QED
        BY <1>2, <3>4, <3>5
    <2> QED
      BY <1>1, <2>1, <2>2 DEF Role
  <1>6. Unnotified(t)'
    <2>1. \A i \in pos[t] + 1 .. pos[t] : window[t][i].prev # Comm
      BY <1>1
    <2> QED
      BY <1>1, <1>2, <1>4, <1>5, <2>1 DEF Unnotified
  <1>7. Published(t)'
    <2> SUFFICES ASSUME NEW k \in 1..Len(trail[t]), trail[t][k] = Comm
                 PROVE  <<t, k>> \in isSet \/ k = Len(trail[t])
      BY <1>1 DEF Published
    <2>1. CASE k # Len(trail[t])
      <3>1. <<t, k>> \in isSet \/ myEvent[t] = <<t, k>>
        BY <2>1 DEF Published
      <3>2. myEvent[t] = None
        BY <1>1 DEF Unnotified
      <3> QED
        BY <3>1, <3>2, NoneAssumption, <1>1
    <2> QED
      BY <2>1
  <1> QED
    BY <1>3, <1>6, <1>7

\* No step loses an event that was published.
LEMMA NotifyStep ==
  ASSUME IInv, TraceInv, Paired, NotifyInv, [Next]_vars
  PROVE  NotifyInv'
  <1> DEFINE Kept(u) == AtHook(u) /\ Unnotified(u) /\ Published(u)
  <1>0. pc \in [Threads -> Places] /\ myEvent \in [Threads -> (Threads \X Nat) \cup {None}]
    BY DEF IInv, TypeOK, CoordTypeOK
  <1> SUFFICES ASSUME left' = {} PROVE \A u \in Threads : Kept(u)'
    BY DEF NotifyInv
  <1>1. ASSUME NEW w \in Windows, OpenWindow(w) PROVE \A u \in Threads : Kept(u)'
    BY <1>1 DEF OpenWindow, ResetCoordinator, AtHook, Unnotified, Published, Threads, InRendezvous
  <1>2. ASSUME StartBwd \/ StartFails \/ JoinBwd PROVE \A u \in Threads : Kept(u)'
    <2>1. /\ left = {} /\ UNCHANGED <<window, pos, trail, myEvent, isSet>>
          /\ \A u \in Threads : /\ pc'[u] \in InRendezvous => pc[u] \in InRendezvous
                                /\ pc'[u] \in {"enter", "publish"} => pc[u] \in {"enter", "publish"}
                                /\ pc[u] \in {"enter", "publish"} => pc'[u] \in {"enter", "publish"}
      BY <1>0, <1>2 DEF StartBwd, StartFails, JoinBwd, Goto, InRendezvous, IInv, LeftInv, Threads
    <2>2. \A u \in Threads : Kept(u)
      BY <2>1 DEF NotifyInv
    <2> QED
      BY <2>1, <2>2, EventsStay
  <1>3. ASSUME NEW t \in Threads, FireHook(t) PROVE \A u \in Threads : Kept(u)'
    <2>1. left = {} /\ \A u \in Threads : Kept(u)
      BY <1>3 DEF FireHook, NotifyInv
    <2>2. Kept(t)'
      BY <1>3, <2>1, HookKeepsEvents
    <2>3. ASSUME NEW u \in Threads, u # t PROVE Kept(u)'
      <3>1. /\ trail'[u] = trail[u] /\ pc'[u] = pc[u] /\ pos'[u] = pos[u] /\ window' = window
            /\ myEvent'[u] = myEvent[u] /\ isSet \subseteq isSet'
        <4>1. trail'[u] = trail[u] /\ pc'[u] = pc[u] /\ pos'[u] = pos[u] /\ window' = window
          BY <1>3, <2>3, HookTrail, HookMoves DEF IInv
        <4>2. myEvent'[u] = myEvent[u] /\ isSet \subseteq isSet'
          BY <1>0, <1>3, <2>1, <2>3, HookNotifies
        <4> QED
          BY <4>1, <4>2
      <3>2. AtHook(u)'
        BY <2>1, <3>1 DEF AtHook
      <3>3. Unnotified(u)'
        BY <2>1, <3>1 DEF Unnotified
      <3>4. Published(u)'
        BY <2>1, <3>1 DEF Published
      <3> QED
        BY <3>2, <3>3, <3>4
    <2> QED
      BY <2>2, <2>3
  <1>4. ASSUME NEW t \in Threads, LaunchOp(t) \/ FinishChunk(t) \/ RaiseInChunk(t)
        PROVE  \A u \in Threads : Kept(u)'
    <2>1. /\ left = {} /\ UNCHANGED <<window, pos, trail, myEvent, isSet>>
          /\ \A u \in Threads : pc'[u] = pc[u] \/ (pc'[u] \in {"run", "flag"} /\ pc[u] \in {"run", "op"})
      BY <1>0, <1>4 DEF LaunchOp, FinishChunk, RaiseInChunk, Goto
    <2>2. \A u \in Threads : Kept(u)
      BY <2>1 DEF NotifyInv
    <2>3. \A u \in Threads : /\ pc'[u] \in InRendezvous => pc[u] \in InRendezvous
                             /\ pc'[u] \in {"enter", "publish"} <=> pc[u] \in {"enter", "publish"}
      BY <2>1 DEF InRendezvous
    <2> QED
      BY <2>1, <2>2, <2>3, EventsStay
  <1>5. ASSUME NEW t \in Threads, DropCoordination(t) PROVE \A u \in Threads : Kept(u)'
    BY <1>5, DropLeaves
  <1>6. ASSUME NEW t \in Threads, Release(t) PROVE \A u \in Threads : Kept(u)'
    BY <1>6 DEF Release, ReleaseWaiter, IInv, LeftInv
  <1>7. ASSUME NEW t \in Threads, Coordinate(t) PROVE \A u \in Threads : Kept(u)'
    <2>0. /\ left = {} /\ UNCHANGED <<window, pos, trail>> /\ \A u \in Threads : u # t => pc'[u] = pc[u]
      BY <1>7, CoordinateMoves DEF IInv
    <2>1. \A u \in Threads : Kept(u)
      BY <2>0 DEF NotifyInv
    <2>2. isSet' = isSet /\ \A u \in Threads : u # t => myEvent'[u] = myEvent[u]
      BY <1>0, <1>7 DEF Coordinate, RendezvousStep, Enter, Publish, Count, ArriveBroken, ArriveFirst,
         ArriveLast, Wake, Pass, Await, AbortBarrier, LoadSlot
    <2>3. \A u \in Threads : u # t => Kept(u)'
      BY <2>0, <2>1, <2>2, EventsStay
    <2>4. Kept(t)'
      <3>1. CASE Publish(t)
        BY <2>0, <2>1, <3>1, PublishKeepsEvents
      <3>2. CASE Enter(t)
        <4>1. Active
          BY <2>0, <3>2, StillActive DEF Enter, IInv
        <4>2. /\ pc[t] = "enter" /\ pc'[t] = (IF Role(t) = Comm THEN "publish" ELSE "arrive")
              /\ myEvent' = myEvent
          BY <1>0, <3>2, <4>1 DEF Enter, Goto
        <4>3. AtHook(t)'
          BY <2>0, <2>1, <4>2 DEF AtHook, InRendezvous
        <4>4. myEvent[t] = None
          BY <2>1, <4>2 DEF Unnotified
        <4>5. Unnotified(t)'
          BY <4>2, <4>4 DEF Unnotified
        <4>6. Published(t)'
          BY <2>0, <2>1, <2>2, <4>2 DEF Published, Role
        <4> QED
          BY <4>3, <4>5, <4>6
      <3>3. CASE \/ Count(t) \/ ArriveBroken(t) \/ ArriveFirst(t) \/ ArriveLast(t) \/ Wake(t) \/ Pass(t)
                 \/ Await(t) \/ AbortBarrier(t) \/ LoadSlot(t)
        <4>1. /\ myEvent' = myEvent
              /\ pc'[t] \in InRendezvous => pc[t] \in InRendezvous
              /\ pc'[t] \notin {"enter", "publish"} /\ pc[t] \notin {"enter", "publish"}
          BY <1>0, <3>3 DEF Count, ArriveBroken, ArriveFirst, ArriveLast, Wake, Pass, Await,
                            AbortBarrier, LoadSlot, Goto, InRendezvous
        <4> QED
          BY <2>0, <2>1, <2>2, <4>1, EventsStay
      <3> QED
        BY <1>7, <3>1, <3>2, <3>3 DEF Coordinate, RendezvousStep
    <2> QED
      BY <2>3, <2>4
  <1>8. CASE UNCHANGED vars
    <2>1. left = {} /\ UNCHANGED <<window, pos, trail, myEvent, isSet, pc>>
      BY <1>8 DEF vars, coordVars
    <2>2. \A u \in Threads : Kept(u)
      BY <2>1 DEF NotifyInv
    <2> QED
      BY <2>1, <2>2, EventsStay
  <1> QED
    BY <1>1, <1>2, <1>3, <1>4, <1>5, <1>6, <1>7, <1>8 DEF Next, ThreadStep

\* The account of the events holds in every reachable state.
LEMMA NotifyInvariant == ASSUME Paired PROVE Safety => []NotifyInv
  <1>1. Init => NotifyInv
    BY DEF Init, NotifyInv, AtHook, Unnotified, Published, Threads, InRendezvous
  <1>2. EndInv /\ NotifyInv /\ [Next]_vars => NotifyInv'
    BY NotifyStep DEF EndInv
  <1> QED
    BY <1>1, <1>2, EndInvariant, PTL DEF Safety

\* In a window of tagged layers no thread waits for an event while its partner
\* waits for it at the barrier: the partner notified the event before it came.
THEOREM NobodyWaitsForEachOther == ASSUME Paired PROVE Spec => []NoMutualWait
  <1>1. EndInv /\ FreshEvent /\ NotifyInv => NoMutualWait
    <2> SUFFICES ASSUME EndInv, FreshEvent, NotifyInv, NEW t \in Threads,
                        pc[t] = "await", pc[Other(t)] = "parked", barrier.state = "filling"
                 PROVE  ref[t] \in isSet
      BY DEF NoMutualWait
    <2> DEFINE o == Other(t)
               i == Len(trail[t])
    <2>1. IInv /\ TypeOK /\ Alternates
      BY TrailsAlternate DEF EndInv, IInv
    <2>2. o \in Threads /\ Threads = {t, o}
      BY DEF Other, Threads
    <2>3. left = {}
      <3>1. t \notin left /\ o \notin left
        BY <2>1, <2>2 DEF IInv, LeftInv, Leaving
      <3> QED
        BY <2>1, <2>2, <3>1 DEF TypeOK, CoordTypeOK
    <2>4. i \in Nat /\ i >= 1 /\ Len(trail[o]) \in Nat /\ Role(t) = Compute
      BY <2>1, <2>2 DEF IInv, TypeOK, CoordTypeOK, PlaceInv, InRendezvous
    <2>5. Len(trail[o]) = i + 1
      <3>1. Passed(t) = i /\ Passed(o) = Len(trail[o]) - 1
        BY DEF Passed, Before, Parked
      <3>2. Passed(t) = Passed(o)
        BY <2>1, <2>2, <2>3 DEF IInv, RoundsInv, Lockstep, Threads
      <3> QED
        BY <2>4, <3>1, <3>2
    <2>6. trail[o][i] = Comm
      <3>1. trail[t][i] # trail[o][i]
        <4>1. i \in 1..Len(trail[t]) /\ i <= Len(trail[o])
          BY <2>4, <2>5
        <4> QED
          BY <2>1, <4>1 DEF Alternates
      <3>2. trail[o][i] \in Roles
        <4>1. trail[o] \in Seq(Roles) /\ i \in 1..Len(trail[o])
          BY <2>1, <2>2, <2>4, <2>5 DEF TypeOK, CoordTypeOK
        <4> QED
          BY <4>1
      <3> QED
        BY <2>4, <3>1, <3>2 DEF Roles, Role
    <2>7. <<o, i>> \in isSet \/ myEvent[o] = <<o, i>>
      BY <2>2, <2>3, <2>4, <2>5, <2>6 DEF NotifyInv, Published
    <2>8. myEvent[o] # <<o, i>>
      <3> SUFFICES ASSUME myEvent[o] = <<o, i>> PROVE FALSE
        OBVIOUS
      <3>1. myEvent[o] # None
        BY <2>2, <2>4, NoneAssumption
      <3>2. myEvent[o] = <<o, i + 1>>
        BY <2>2, <2>3, <2>5, <3>1 DEF NotifyInv, Unnotified
      <3>3. i = i + 1
        BY <3>2
      <3> QED
        BY <2>4, <3>3
    <2>9. ref[t] = <<o, i>>
      BY <2>3 DEF FreshEvent
    <2> QED
      BY <2>7, <2>8, <2>9
  <1> QED
    BY <1>1, EndInvariant, FreshInvariant, NotifyInvariant, PTL DEF Spec

==============================================================================
