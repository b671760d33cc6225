----------------------------- MODULE PinnedPool -----------------------------
(***************************************************************************)
(* The pool of pinned host buffers that activation swap copies through     *)
(* (core/activation_memory/pinned_memory_pool.py).  A block is lent to a   *)
(* caller by acquire and comes back by release, at once or after an event  *)
(* of the stream that still copies from or to it.  acquire works in up to  *)
(* two critical sections of the lock: between them it allocates, or it     *)
(* waits for the event of a block it took out of the pending ones.         *)
(*                                                                         *)
(* The buckets of the pool are sets here: among the blocks of one capacity *)
(* any may be taken.                                                       *)
(***************************************************************************)
EXTENDS Naturals, FiniteSets, FiniteSetsExt

CONSTANTS Threads,       \* callers of acquire and release
          Blocks,        \* identities of the allocations
          Sizes,         \* the sizes that are acquired
          MinBucket,     \* _MIN_BUCKET_BYTES
          AlignLimit,    \* align_limit
          MaxHostBytes,  \* max_host_bytes
          Events,        \* identities of the events a release may name
          None           \* no event, no block

ASSUME NoneAssumption == None \notin Events \cup Blocks
ASSUME BoundAssumption == MaxHostBytes \in Nat

VARIABLES
  blocks,      \* the allocations the pool owns
  capacity,    \* bytes of each block
  available,   \* _available
  pending,     \* _pending
  lent,        \* the blocks callers hold
  event,       \* _Block.event
  total,       \* _total_allocated
  pc,          \* where each thread stands in acquire
  want,        \* aligned_size of the acquire a thread is in
  hand,        \* the pending block a thread waits for
  done,        \* the events with no work before them left on their stream
  busy         \* ghost: blocks a stream still copies from or to

lists  == <<available, pending, lent, event>>
thread == <<pc, want, hand>>
stream == <<done, busy>>
vars   == <<blocks, capacity, lists, total, thread, stream>>

(***************************************************************************)
(* Sizes.                                                                  *)
(***************************************************************************)

\* 1 << (minimum - 1).bit_length(), for a positive size
PowerOfTwo(size) == Min({p \in {2^k : k \in 0 .. size} : p >= size})

Aligned(size) ==
  IF size > AlignLimit THEN size
  ELSE Max({size, Min({PowerOfTwo(Max({size, MinBucket})), AlignLimit})})

ASSUME SizesAssumption == \A size \in Sizes : Aligned(size) \in Nat

\* the blocks of the first bucket, in ascending order, that is large enough
Smallest(S, size) ==
  {b \in S : /\ capacity[b] >= size
             /\ \A c \in S : capacity[c] >= size => capacity[b] <= capacity[c]}

(***************************************************************************)
(* acquire.  Every outcome of its first critical section begins with the   *)
(* reclamation of the large enough pending blocks whose event is done.     *)
(***************************************************************************)

\* Faulty variant: the scan does not ask the events.
ReclaimedUnasked(size) == {b \in pending : capacity[b] >= size}

Reclaimed(size) == {b \in pending : capacity[b] >= size /\ event[b] \in done}

Ready(size)     == Smallest(available \cup Reclaimed(size), size)

\* event' of blocks that no stream works on any more
Quiet(S) == event' = [b \in Blocks |-> IF b \in S THEN None ELSE event[b]]

TakeAvailable(t, size) ==
  LET free == Reclaimed(Aligned(size)) IN
  /\ pc[t] = "idle"
  /\ \E b \in Ready(Aligned(size)) : /\ lent' = lent \cup {b}
                                     /\ available' = (available \cup free) \ {b}
  /\ pending' = pending \ free
  /\ Quiet(free)
  /\ UNCHANGED <<blocks, capacity, total, thread, stream>>

\* nothing fits: what was reclaimed stays available
Nothing(t, size) ==
  /\ pc[t] = "idle"
  /\ Ready(size) = {}
  /\ available' = available \cup Reclaimed(size)
  /\ Quiet(Reclaimed(size))

Reserve(t, size) ==
  LET aligned == Aligned(size) IN
  /\ Nothing(t, aligned)
  /\ total + aligned <= MaxHostBytes
  /\ total' = total + aligned
  /\ pending' = pending \ Reclaimed(aligned)
  /\ pc' = [pc EXCEPT ![t] = "reserved"]
  /\ want' = [want EXCEPT ![t] = aligned]
  /\ UNCHANGED <<blocks, capacity, lent, hand, stream>>

TakePending(t, size) ==
  LET aligned == Aligned(size)
      waiting == pending \ Reclaimed(aligned) IN
  /\ Nothing(t, aligned)
  /\ total + aligned > MaxHostBytes
  /\ \E b \in Smallest(waiting, aligned) : /\ pending' = waiting \ {b}
                                           /\ hand' = [hand EXCEPT ![t] = b]
  /\ pc' = [pc EXCEPT ![t] = "waiting"]
  /\ UNCHANGED <<blocks, capacity, lent, total, want, stream>>

\* RuntimeError: PinnedMemoryPool capacity exceeded
Refuse(t, size) ==
  LET aligned == Aligned(size)
      waiting == pending \ Reclaimed(aligned) IN
  /\ Nothing(t, aligned)
  /\ total + aligned > MaxHostBytes
  /\ Smallest(waiting, aligned) = {}
  /\ pending' = waiting
  /\ UNCHANGED <<blocks, capacity, lent, total, thread, stream>>

Return(t) == pc' = [pc EXCEPT ![t] = "idle"]

Allocated(t) ==
  /\ pc[t] = "reserved"
  /\ \E b \in Blocks \ blocks :
       /\ blocks' = blocks \cup {b}
       /\ capacity' = [capacity EXCEPT ![b] = want[t]]
       /\ lent' = lent \cup {b}
  /\ Return(t)
  /\ UNCHANGED <<available, pending, event, total, want, hand, stream>>

\* Faulty variant: the reservation is not given back.
AllocationFailsKeeping(t) ==
  /\ pc[t] = "reserved"
  /\ Return(t)
  /\ UNCHANGED <<blocks, capacity, lists, total, want, hand, stream>>

AllocationFails(t) ==
  /\ pc[t] = "reserved"
  /\ total' = total - want[t]
  /\ Return(t)
  /\ UNCHANGED <<blocks, capacity, lists, want, hand, stream>>

Synchronized(t) ==
  /\ pc[t] = "waiting"
  /\ event[hand[t]] \in done
  /\ lent' = lent \cup {hand[t]}
  /\ Quiet({hand[t]})
  /\ hand' = [hand EXCEPT ![t] = None]
  /\ Return(t)
  /\ UNCHANGED <<blocks, capacity, available, pending, total, want, stream>>

\* Faulty variant: the block of a failed wait is not put back.
SynchronizeFailsDropping(t) ==
  /\ pc[t] = "waiting"
  /\ hand' = [hand EXCEPT ![t] = None]
  /\ Return(t)
  /\ UNCHANGED <<blocks, capacity, lists, total, want, stream>>

\* event.synchronize raises: the block is pending again
SynchronizeFails(t) ==
  /\ pc[t] = "waiting"
  /\ pending' = pending \cup {hand[t]}
  /\ hand' = [hand EXCEPT ![t] = None]
  /\ Return(t)
  /\ UNCHANGED <<blocks, capacity, available, lent, event, total, want, stream>>

(***************************************************************************)
(* release, and the stream.                                                *)
(***************************************************************************)

ReleaseNow(b) ==
  /\ b \in lent
  /\ lent' = lent \ {b}
  /\ available' = available \cup {b}
  /\ UNCHANGED <<blocks, capacity, pending, event, total, thread, stream>>

\* The event was recorded behind the copies of this block, and maybe of others
\* of the same batch.
ReleaseAfter(b, e) ==
  /\ b \in lent
  /\ lent' = lent \ {b}
  /\ pending' = pending \cup {b}
  /\ event' = [event EXCEPT ![b] = e]
  /\ busy' = IF e \in done THEN busy ELSE busy \cup {b}
  /\ UNCHANGED <<blocks, capacity, available, total, thread, done>>

\* A caller makes a new event and records it on its stream.
Record(e) ==
  /\ \A b \in Blocks : event[b] # e
  /\ done' = done \ {e}
  /\ UNCHANGED <<blocks, capacity, lists, total, thread, busy>>

Complete(e) ==
  /\ e \notin done
  /\ done' = done \cup {e}
  /\ busy' = {b \in busy : event[b] # e}
  /\ UNCHANGED <<blocks, capacity, lists, total, thread>>

(***************************************************************************)
(* Specification.                                                          *)
(***************************************************************************)

Init ==
  /\ blocks = {} /\ capacity = [b \in Blocks |-> 0]
  /\ available = {} /\ pending = {} /\ lent = {}
  /\ event = [b \in Blocks |-> None]
  /\ total = 0
  /\ pc = [t \in Threads |-> "idle"]
  /\ want = [t \in Threads |-> 0]
  /\ hand = [t \in Threads |-> None]
  /\ done = Events /\ busy = {}

Acquire(t, size) == \/ TakeAvailable(t, size) \/ Reserve(t, size)
                    \/ TakePending(t, size)   \/ Refuse(t, size)

Resume(t) == \/ Allocated(t)    \/ AllocationFails(t)
             \/ Synchronized(t) \/ SynchronizeFails(t)

Next == \/ \E t \in Threads : Resume(t) \/ \E size \in Sizes : Acquire(t, size)
        \/ \E b \in Blocks : ReleaseNow(b) \/ \E e \in Events : ReleaseAfter(b, e)
        \/ \E e \in Events : Record(e) \/ Complete(e)

Spec == Init /\ [][Next]_vars

(***************************************************************************)
(* Properties.                                                             *)
(***************************************************************************)

\* What each variable holds.
TypeOK ==
  /\ blocks \subseteq Blocks /\ capacity \in [Blocks -> Nat]
  /\ available \subseteq blocks /\ pending \subseteq blocks /\ lent \subseteq blocks
  /\ event \in [Blocks -> Events \cup {None}]
  /\ pc \in [Threads -> {"idle", "reserved", "waiting"}]
  /\ want \in [Threads -> Nat] /\ hand \in [Threads -> Blocks \cup {None}]
  /\ done \subseteq Events /\ busy \subseteq Blocks

Waited == {hand[t] : t \in {u \in Threads : pc[u] = "waiting"}}

\* A block that a caller holds, or that acquire may give away without a wait,
\* is touched by no copy: neither the scan of acquire nor a wait that failed
\* lets a block out before the event of its last release.
QuietWhenLent == busy \cap (lent \cup available) = {}

\* Every allocation is in one place only: available, pending with the event to
\* ask, lent to one caller, or in the hand of one thread that waits for it.
\* None is lost when a wait fails, none is lent twice.
NothingLost ==
  /\ blocks = available \cup pending \cup lent \cup Waited
  /\ available \cap pending = {} /\ available \cap lent = {} /\ pending \cap lent = {}
  /\ Waited \cap (available \cup pending \cup lent) = {}
  /\ \A t, u \in Threads : (pc[t] = "waiting" /\ pc[u] = "waiting" /\ t # u) => hand[t] # hand[u]
  /\ \A b \in pending \cup Waited : event[b] # None

\* _total_allocated is the bytes of the blocks and of the allocations under
\* way, also after some of them fail, and stays within max_host_bytes.
Accounted ==
  LET Bytes(b)    == capacity[b]
      Reserved(t) == want[t]
  IN  /\ total = MapThenSumSet(Bytes, blocks)
                 + MapThenSumSet(Reserved, {t \in Threads : pc[t] = "reserved"})
      /\ total <= MaxHostBytes

=============================================================================
