-------------------------- MODULE CommComputeOverlap --------------------------
(***************************************************************************)
(* core/pipeline_parallel/comm_compute_overlap.py driving hook_coordinator  *)
(* through the hooks of _sync_hook.py: overlap windows in which the main    *)
(* thread ("fwd") runs a forward chunk while a thread made for the window   *)
(* ("bwd") runs a backward chunk.                                           *)
(*                                                                         *)
(* A window is the pair of hook sequences the two chunks fire.  A hook is a *)
(* record: prev, the role it notifies; next, the role it rendezvouses with  *)
(* (NoRole when it skips the rendezvous).                                   *)
(***************************************************************************)
EXTENDS HookCoordinator, FiniteSets

CONSTANTS
  Windows,     \* the windows that may be run
  MaxWindows,  \* bound: how many of them are run in a row
  MayFail      \* whether a chunk may raise and thread creation may fail

Hooks == [prev : Roles \cup {NoRole}, next : Roles \cup {NoRole}]

ASSUME WindowsAssumption == Windows \subseteq [Threads -> Seq(Hooks)]
ASSUME MaxWindowsAssumption == MaxWindows \in Nat
ASSUME MayFailAssumption == MayFail \in BOOLEAN
ASSUME NoneAssumption == None \notin Threads \X Nat

VARIABLES
  window,   \* hooks of the window that is running
  pos,      \* hooks each thread has fired
  disp,     \* ops each thread has launched after a rendezvous
  failed,   \* threads whose chunk raised
  mode,     \* which of depart / disable a thread is in, see Release
  result,   \* how the last call of run() ended
  opened    \* windows opened so far

vars == <<coordVars, window, pos, disp, failed, mode, result, opened>>

Modes   == {"depart", "disable", "reset"}
Results == {"none", "ok", "fwdError", "bwdError", "startError"}

Init ==
  /\ enabled = FALSE
  /\ departed = FALSE
  /\ barrier = NewBarrier
  /\ slot = InitialEvent
  /\ isSet = {}
  /\ myEvent = [t \in Threads |-> None]
  /\ pendingComm = 0
  /\ roundHadComm = FALSE
  /\ pc = [fwd |-> "idle", bwd |-> "off"]
  /\ ref = [t \in Threads |-> InitialEvent]
  /\ trail = [t \in Threads |-> <<>>]
  /\ left = {}
  /\ window = [t \in Threads |-> <<>>]
  /\ pos = [t \in Threads |-> 0]
  /\ disp = [t \in Threads |-> 0]
  /\ failed = {}
  /\ mode = [t \in Threads |-> "depart"]
  /\ result = "none"
  /\ opened = 0

------------------------------------------------------------------------------
(* run(fwd_fn, bwd_fn) *)

\* _run: enable the coordinator for the next window.
OpenWindow(w) ==
  /\ pc["fwd"] = "idle"
  /\ opened < MaxWindows
  /\ ResetCoordinator
  /\ window' = w
  /\ pos' = [t \in Threads |-> 0]
  /\ disp' = [t \in Threads |-> 0]
  /\ trail' = [t \in Threads |-> <<>>]
  /\ left' = {}
  /\ failed' = {}
  /\ result' = "none"
  /\ opened' = opened + 1
  /\ pc' = [fwd |-> "start", bwd |-> "off"]
  /\ UNCHANGED <<ref, mode>>

\* _start_bwd_task: from here on both threads run.
StartBwd ==
  /\ pc["fwd"] = "start"
  /\ pc' = [t \in Threads |-> "run"]
  /\ UNCHANGED <<enabled, departed, barrier, slot, isSet, myEvent, pendingComm,
                 roundHadComm, ref, trail, left, window, pos, disp, failed, mode,
                 result, opened>>

\* Thread creation failed: disable and re-raise.
StartFails ==
  /\ MayFail
  /\ pc["fwd"] = "start"
  /\ Goto("fwd", "flag")
  /\ mode' = [mode EXCEPT !["fwd"] = "reset"]
  /\ result' = "startError"
  /\ UNCHANGED <<enabled, departed, barrier, slot, isSet, myEvent, pendingComm,
                 roundHadComm, ref, trail, left, window, pos, disp, failed, opened>>

\* Faulty variant: a hook that rendezvouses without notifying for the op before it.
FireHookSilently(t) ==
  /\ pc[t] = "run"
  /\ pos[t] < Len(window[t])
  /\ LET hook == window[t][pos[t] + 1]
     IN IF hook.next = NoRole
        THEN UNCHANGED <<trail, pc>>
        ELSE CallRendezvous(t, hook.next)
  /\ pos' = [pos EXCEPT ![t] = @ + 1]
  /\ UNCHANGED <<enabled, departed, barrier, slot, isSet, myEvent, pendingComm,
                 roundHadComm, ref, left, window, disp, failed, mode, result, opened>>

\* _SyncHookFunction.forward / backward: notify for the previous op, then
\* rendezvous for the next.  The is_enabled test that precedes them skips
\* both, as their own tests of the flag do.
FireHook(t) ==
  /\ pc[t] = "run"
  /\ pos[t] < Len(window[t])
  /\ LET hook == window[t][pos[t] + 1]
     IN /\ NotifyDispatched(t, hook.prev)
        /\ IF hook.next = NoRole
           THEN UNCHANGED <<trail, pc>>
           ELSE CallRendezvous(t, hook.next)
  /\ pos' = [pos EXCEPT ![t] = @ + 1]
  /\ UNCHANGED <<enabled, departed, barrier, slot, pendingComm, roundHadComm, ref,
                 left, window, disp, failed, mode, result, opened>>

\* The op the last rendezvous was about is launched.
LaunchOp(t) ==
  /\ pc[t] = "op"
  /\ disp' = [disp EXCEPT ![t] = @ + 1]
  /\ Goto(t, "run")
  /\ UNCHANGED <<enabled, departed, barrier, slot, isSet, myEvent, pendingComm,
                 roundHadComm, ref, trail, left, window, pos, failed, mode, result,
                 opened>>

\* The chunk returned: depart.
FinishChunk(t) ==
  /\ pc[t] = "run"
  /\ pos[t] = Len(window[t])
  /\ mode' = [mode EXCEPT ![t] = "depart"]
  /\ Goto(t, "flag")
  /\ UNCHANGED <<enabled, departed, barrier, slot, isSet, myEvent, pendingComm,
                 roundHadComm, ref, trail, left, window, pos, disp, failed, result,
                 opened>>

\* The chunk raised: record the exception, disable, and depart after that.
RaiseInChunk(t) ==
  /\ MayFail
  /\ pc[t] \in {"run", "op"}
  /\ failed' = failed \cup {t}
  /\ mode' = [mode EXCEPT ![t] = "disable"]
  /\ Goto(t, "flag")
  /\ UNCHANGED <<enabled, departed, barrier, slot, isSet, myEvent, pendingComm,
                 roundHadComm, ref, trail, left, window, pos, disp, result, opened>>

DropCoordination(t) ==
  /\ DropFlag(t, mode[t] = "depart")
  /\ UNCHANGED <<window, pos, disp, failed, mode, result, opened>>

\* Faulty variant: an exception of the backward thread does not surface.
ReleaseForgettingBwd(t) ==
  /\ ReleaseWaiter(t, CASE mode[t] = "disable" -> "flag"
                        [] mode[t] = "depart"  -> IF t = "fwd" THEN "join" ELSE "done"
                        [] mode[t] = "reset"   -> "idle")
  /\ mode' = [mode EXCEPT ![t] = "depart"]
  /\ result' = IF mode[t] # "reset" \/ result = "startError" THEN result
               ELSE IF "fwd" \in failed THEN "fwdError" ELSE "ok"
  /\ UNCHANGED <<window, pos, disp, failed, opened>>

\* The end of disable() or depart(), and what the caller does next: a failed
\* chunk still departs, a departed bwd task sets done, a departed fwd waits
\* for it, and the closing disable() ends the window.
Release(t) ==
  /\ ReleaseWaiter(t, CASE mode[t] = "disable" -> "flag"
                        [] mode[t] = "depart"  -> IF t = "fwd" THEN "join" ELSE "done"
                        [] mode[t] = "reset"   -> "idle")
  /\ mode' = [mode EXCEPT ![t] = "depart"]
  /\ result' = IF mode[t] # "reset" \/ result = "startError" THEN result
               ELSE IF "bwd" \in failed THEN "bwdError"
               ELSE IF "fwd" \in failed THEN "fwdError" ELSE "ok"
  /\ UNCHANGED <<window, pos, disp, failed, opened>>

\* Faulty variant: the window is closed while the backward thread may still run.
CloseWithoutJoin ==
  /\ pc["fwd"] = "join"
  /\ mode' = [mode EXCEPT !["fwd"] = "reset"]
  /\ Goto("fwd", "flag")
  /\ UNCHANGED <<enabled, departed, barrier, slot, isSet, myEvent, pendingComm,
                 roundHadComm, ref, trail, left, window, pos, disp, failed, result,
                 opened>>

\* done.wait(), join(), then the closing disable().
JoinBwd ==
  /\ pc["fwd"] = "join"
  /\ pc["bwd"] = "done"
  /\ mode' = [mode EXCEPT !["fwd"] = "reset"]
  /\ Goto("fwd", "flag")
  /\ UNCHANGED <<enabled, departed, barrier, slot, isSet, myEvent, pendingComm,
                 roundHadComm, ref, trail, left, window, pos, disp, failed, result,
                 opened>>

------------------------------------------------------------------------------

Coordinate(t) ==
  /\ RendezvousStep(t) \/ AbortBarrier(t) \/ LoadSlot(t)
  /\ UNCHANGED <<window, pos, disp, failed, mode, result, opened>>

\* What a scheduled thread always gets to do.
ThreadStep(t) ==
  \/ FireHook(t)
  \/ LaunchOp(t)
  \/ FinishChunk(t)
  \/ DropCoordination(t)
  \/ Release(t)
  \/ Coordinate(t)

Next ==
  \/ \E w \in Windows : OpenWindow(w)
  \/ StartBwd
  \/ StartFails
  \/ JoinBwd
  \/ \E t \in Threads : ThreadStep(t) \/ RaiseInChunk(t)

\* The operating system keeps scheduling both threads; nothing forces a
\* chunk to raise or another window to be opened.
Fairness ==
  /\ WF_vars(StartBwd)
  /\ WF_vars(JoinBwd)
  /\ \A t \in Threads : WF_vars(ThreadStep(t))

Safety == Init /\ [][Next]_vars
Spec   == Safety /\ Fairness

------------------------------------------------------------------------------
(* Properties *)

\* Types of the coordinator's fields and of the window bookkeeping.
TypeOK ==
  /\ CoordTypeOK
  /\ window \in [Threads -> Seq(Hooks)]
  /\ pos \in [Threads -> Nat]
  /\ disp \in [Threads -> Nat]
  /\ failed \in SUBSET Threads
  /\ mode \in [Threads -> Modes]
  /\ result \in Results
  /\ opened \in Nat

\* The comm-first guarantee of hook_coordinator.py:63-69: when a COMPUTE
\* caller is through its i-th rendezvous and the partner's i-th role is
\* COMM, the partner has launched that op, unless a chunk raised.
CommFirst ==
  failed = {} =>
    \A t \in Threads :
      LET i == Len(trail[t])
          o == Other(t)
      IN (pc[t] = "op" /\ Role(t) = Compute /\ i <= Len(trail[o]) /\ trail[o][i] = Comm)
           => disp[o] >= i

\* A COMPUTE caller never waits on an event of an earlier rendezvous: the
\* event it awaits was made by the partner, for this rendezvous
\* (hook_coordinator.py:71-77, the stale-state race a fresh event removes).
FreshEvent ==
  \A t \in Threads :
    (pc[t] = "await" /\ left = {}) => ref[t] = <<Other(t), Len(trail[t])>>

\* Never both: one thread waits for an event nobody has set while the other
\* is parked at the next barrier, which nobody will trip.
NoMutualWait ==
  \A t \in Threads :
    ~ /\ pc[t] = "await"
      /\ ref[t] \notin isSet
      /\ pc[Other(t)] = "parked"
      /\ barrier.state = "filling"

\* _sync_hook.py:26-29: every rendezvous that trips the barrier is a COMM
\* paired with a COMPUTE.
StrictPairs ==
  \A t \in Threads :
    LET i == Len(trail[t])
        o == Other(t)
    IN (pc[t] = "passed" /\ left = {} /\ i <= Len(trail[o])) => trail[o][i] # Role(t)

\* The hooks among the first n of a sequence that call rendezvous, and their number.
Calling(hooks, n) == {i \in 1..n : hooks[i].next # NoRole}
Calls(hooks, n)   == Cardinality(Calling(hooks, n))

\* run() neither loses nor skips an op: a window that ends without error has
\* launched the op of every rendezvous hook of both chunks, the ones the
\* longer chunk ran alone included, and both threads have left.
EveryOpLaunched ==
  result = "ok" =>
    /\ left = Threads
    /\ \A t \in Threads : /\ pos[t] = Len(window[t])
                          /\ disp[t] = Calls(window[t], Len(window[t]))

\* An exception of either chunk surfaces from run(), the backward one first.
FailureSurfaces ==
  (pc["fwd"] = "idle" /\ opened > 0) =>
    /\ "bwd" \in failed <=> result = "bwdError"
    /\ failed = {"fwd"} <=> result = "fwdError"

\* What tagged last layers make of a window (_sync_hook.py:26-29): the calls with
\* the same number on both sides have different roles, the calls of one thread
\* alternate, and a COMM call is notified before the next call of its thread.
InPairs(w) ==
  /\ \A p \in Calling(w["fwd"], Len(w["fwd"])), q \in Calling(w["bwd"], Len(w["bwd"])) :
       Calls(w["fwd"], p) = Calls(w["bwd"], q) => w["fwd"][p].next # w["bwd"][q].next
  /\ \A t \in Threads : \A p, q \in Calling(w[t], Len(w[t])) :
       Calls(w[t], q) = Calls(w[t], p) + 1 =>
         /\ w[t][p].next # w[t][q].next
         /\ w[t][p].next = Comm => \E i \in p + 1 .. q : w[t][i].prev = Comm

\* The window implements the abstract two-party protocol: threads stay in
\* lockstep and COMM goes first until one of them leaves
\* (hook_coordinator.py:59-77, comm_compute_overlap.py:29-35).
Protocol == INSTANCE CommFirstRendezvous
ImplementsProtocol == Protocol!PSpec

\* Every window that is opened is closed, also when the chunks differ in length,
\* tags are missing or either of them raises: run() returns
\* (hook_coordinator.py:164-177).  Which recomputed layers this is true of, and of
\* which it is not, depends on where the recomputation begins (SyncHook).
WindowCloses == (pc["fwd"] = "start") ~> (pc["fwd"] = "idle")

==============================================================================
