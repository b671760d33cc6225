----------------------- MODULE ActivationSwap_proofs -----------------------
(***************************************************************************)
(* Theorems about ActivationSwap, for every set of ranks, number of runs,  *)
(* number of addresses and size of the pool: the host buffers are all back *)
(* between two runs (BuffersComeBack), and a copy that still waits in its  *)
(* stream works on a buffer that nobody else may touch                     *)
(* (HostBuffersStayQuiet).                                                 *)
(*                                                                         *)
(* What a theorem cannot look into is how the injection builds an order,   *)
(* a fold over sequences: that it makes every order Balanced is a          *)
(* hypothesis, which TLC evaluates for many shapes (MCSwap).               *)
(*                                                                         *)
(* Lending says what the host holds: the state of the pool, the step the   *)
(* host stands at, and which chunk has which block.  Streams says what is  *)
(* enqueued: which load is still to be awaited (PlanInv), that only the    *)
(* copy stream records the events behind a transfer (ComputeInv), each     *)
(* once and none of them done (EventsInv), and that every queued copy has  *)
(* a block that its chunk holds, or one that the pool parks behind the     *)
(* event that follows the copy (QuietInv).                                 *)
(***************************************************************************)
EXTENDS ActivationSwap, TLAPS

-----------------------------------------------------------------------------
(* What the swap relies on in the pool *)

\* Where a call of the pool may stand.
Places == {"idle", "reserved", "waiting"}

\* What the swap relies on in the pool.
PoolInv ==
  /\ blocks \subseteq Blocks
  /\ available \subseteq blocks /\ pending \subseteq blocks /\ lent \subseteq blocks
  /\ event \in [Blocks -> Events \cup {None}]
  /\ pc \in [{Host} -> Places] /\ hand \in [{Host} -> Blocks \cup {None}]
  /\ Pool!NothingLost

\* Who is given a block is given one that nobody held, and a block whose event
\* has not come stays where it is.
Outcome ==
  /\ lent' = lent \/ \E b \in Blocks \ lent : lent' = lent \cup {b}
  /\ lent' # lent => pc'[Host] = "idle"
  /\ UNCHANGED done
  /\ \A b \in pending \cup Pool!Waited : event[b] \notin done =>
       b \in (pending \cup Pool!Waited)' /\ event'[b] = event[b]

\* A block that is waited for is the one in the hand of the host.
LEMMA WaitedIs == PoolInv => Pool!Waited = IF pc[Host] = "waiting" THEN {hand[Host]} ELSE {}
BY DEF PoolInv, Pool!Waited

\* acquire: a call that takes a block, reserves room, waits or refuses.
LEMMA AcquireKeeps == ASSUME PoolInv, Pool!Acquire(Host, 1) PROVE PoolInv' /\ Outcome
<1> USE DEF PoolInv, Pool!NothingLost, Pool!Waited, Outcome, Pool!Ready, Pool!Reclaimed,
    Pool!Smallest, Pool!Quiet,
            Pool!thread, Pool!stream, Places
<1>1. ASSUME Pool!TakeAvailable(Host, 1) PROVE PoolInv' /\ Outcome
  BY <1>1, NoneAssumption DEF Pool!TakeAvailable
<1>2. ASSUME Pool!Reserve(Host, 1) PROVE PoolInv' /\ Outcome
  BY <1>2, NoneAssumption DEF Pool!Reserve, Pool!Nothing
<1>3. ASSUME Pool!TakePending(Host, 1) PROVE PoolInv' /\ Outcome
  BY <1>3, NoneAssumption DEF Pool!TakePending, Pool!Nothing
<1>4. ASSUME Pool!Refuse(Host, 1) PROVE PoolInv' /\ Outcome
  BY <1>4, NoneAssumption DEF Pool!Refuse, Pool!Nothing
<1> QED BY <1>1, <1>2, <1>3, <1>4 DEF Pool!Acquire

\* acquire again, after an allocation or a wait.
LEMMA ResumeKeeps == ASSUME PoolInv, Pool!Resume(Host) PROVE PoolInv' /\ Outcome
<1> USE DEF PoolInv, Pool!NothingLost, Pool!Waited, Outcome, Pool!Quiet, Pool!Return,
            Pool!thread, Pool!stream, Pool!lists, Places
<1>1. ASSUME Pool!Allocated(Host) PROVE PoolInv' /\ Outcome
  BY <1>1, NoneAssumption DEF Pool!Allocated
<1>2. ASSUME Pool!AllocationFails(Host) PROVE PoolInv' /\ Outcome
  BY <1>2, NoneAssumption DEF Pool!AllocationFails
<1>3. ASSUME Pool!Synchronized(Host) PROVE PoolInv' /\ Outcome
  BY <1>3, NoneAssumption DEF Pool!Synchronized
<1>4. ASSUME Pool!SynchronizeFails(Host) PROVE PoolInv' /\ Outcome
  BY <1>4, NoneAssumption DEF Pool!SynchronizeFails
<1> QED BY <1>1, <1>2, <1>3, <1>4 DEF Pool!Resume

\* release of a block that no copy works on.
LEMMA ReleaseNowKeeps == ASSUME PoolInv, NEW b, Pool!ReleaseNow(b) PROVE PoolInv'
BY DEF PoolInv, Pool!NothingLost, Pool!Waited, Pool!ReleaseNow, Pool!thread, Pool!stream, Places

\* release behind an event: the block is pending until the event is done, and
\* what the pool parked before stays as it was.
LEMMA ReleaseAfterKeeps ==
  ASSUME PoolInv, NEW b, NEW e \in Events, Pool!ReleaseAfter(b, e)
  PROVE  /\ PoolInv' /\ event'[b] = e /\ b \in pending' /\ Pool!Waited' = Pool!Waited
         /\ \A d \in pending \cup Pool!Waited : d \in pending' \cup Pool!Waited /\ event'[d] = event[d]
BY NoneAssumption
DEF PoolInv, Pool!NothingLost, Pool!Waited, Pool!ReleaseAfter, Pool!thread, Pool!stream, Places

\* Events come and go, the lists of the pool stay.
LEMMA DeviceKeeps ==
  ASSUME PoolInv, NEW e, (\E events : Recorded(events)) \/ Pool!Complete(e) \/ UNCHANGED poolVars
  PROVE  PoolInv' /\ UNCHANGED <<lent, pending, event, Pool!Waited>>
BY
DEF PoolInv, Pool!NothingLost, Pool!Waited, Recorded, Pool!Complete, poolVars, Pool!thread,
    Pool!stream, Pool!lists

-----------------------------------------------------------------------------
(* Sequences that grow at the end and shrink at the front *)

\* A sequence, of whatever elements.
IsSeq(s) == \E S : s \in Seq(S)

\* The elements of a sequence with one more at its end.
LEMMA Appended ==
  ASSUME NEW s, IsSeq(s), NEW x
  PROVE  /\ IsSeq(Append(s, x)) /\ Len(Append(s, x)) = Len(s) + 1
         /\ DOMAIN Append(s, x) = 1..Len(s) + 1 /\ DOMAIN s = 1..Len(s) /\ Len(s) \in Nat
         /\ \A i \in 1..Len(s) : Append(s, x)[i] = s[i]
         /\ Append(s, x)[Len(s) + 1] = x
<1>1. PICK S : s \in Seq(S) BY DEF IsSeq
<1>2. s \in Seq(S \cup {x}) /\ x \in S \cup {x} BY <1>1
<1>3. Append(s, x) \in Seq(S \cup {x}) BY <1>2
<1> QED BY <1>2, <1>3 DEF IsSeq

\* The elements of a sequence without the first.
LEMMA TailOf ==
  ASSUME NEW s, IsSeq(s), s # <<>>
  PROVE  /\ IsSeq(Tail(s)) /\ DOMAIN Tail(s) = 1..Len(s) - 1 /\ DOMAIN s = 1..Len(s) /\ Len(s) \in Nat \ {0}
         /\ \A i \in 1..Len(s) - 1 : Tail(s)[i] = s[i + 1]
         /\ Head(s) = s[1]
<1>1. PICK S : s \in Seq(S) BY DEF IsSeq
<1>2. Tail(s) \in Seq(S) /\ Len(s) # 0 /\ Len(s) \in Nat BY <1>1
<1> QED BY <1>1, <1>2 DEF IsSeq

\* Two elements at the end are appended one after the other.
LEMMA Pair == ASSUME NEW s, IsSeq(s), NEW x, NEW y
  PROVE  s \o <<x, y>> = Append(Append(s, x), y)
<1>1. PICK S : s \in Seq(S) BY DEF IsSeq
<1>2. s \in Seq(S \cup {x, y}) BY <1>1
<1> QED BY <1>2

\* And three.
LEMMA Triple == ASSUME NEW s, IsSeq(s), NEW x, NEW y, NEW z
  PROVE  s \o <<x, y, z>> = Append(Append(Append(s, x), y), z)
<1>1. PICK S : s \in Seq(S) BY DEF IsSeq
<1>2. s \in Seq(S \cup {x, y, z}) BY <1>1
<1> QED BY <1>2

-----------------------------------------------------------------------------
(* Who holds which block *)

\* The hypothesis of the theorems: the order of every rank that is followed is
\* balanced.
OrdersBalanced == \A j \in Jobs : Balanced(j)

\* The values of phase, and of the states of a tensor.
Phases == {"idle", "run", "acquire", "copy", "closing"}
TensorStates == {"none", "device", "d2h", "host", "h2d"}

\* What the host walks, and what it keeps of each chunk.
HostInv ==
  /\ job \in Jobs /\ program = ProgramOf(job)
  /\ run \in 0..Runs /\ (phase # "idle" => run # 0)
  /\ at \in Nat \ {0} /\ phase \in Phases
  /\ tensor \in [Chunks -> TensorStates] /\ buffer \in [Chunks -> Blocks \cup {None}]

\* Between the parts of launch_offload the host stands at its step.
AcquireInv ==
  phase \in {"acquire", "copy"} =>
    /\ at <= Len(program) /\ Step.type = "SWAP_LAUNCH_OFFLOAD"
    /\ Here \in groups /\ tensor[Here] = "device"
    /\ phase = "copy" => buffer[Here] # None

\* The blocks the pool has lent are the buffers of the chunks, one each, and a chunk
\* holds one exactly while its tensor is not on the device alone.
HeldInv ==
  /\ lent = {buffer[c] : c \in Chunks} \ {None}
  /\ \A c, d \in Chunks : buffer[c] = buffer[d] /\ buffer[c] # None => c = d
  /\ \A c \in Chunks : buffer[c] # None =>
       c \in groups /\ (tensor[c] \in {"none", "device"} => phase = "copy" /\ c = Here)
  /\ \A c \in Chunks : tensor[c] \notin {"none", "device"} /\ phase # "closing" => buffer[c] # None
  /\ phase = "idle" => groups = {} /\ \A c \in Chunks : tensor[c] = "none"

\* What the host holds.
Lending == PoolInv /\ HostInv /\ AcquireInv /\ HeldInv

\* A swap step of the order is about a chunk.
LEMMA SwapStep ==
  ASSUME OrdersBalanced, HostInv, at <= Len(program), Step.type \in SwapTypes
  PROVE  Here \in Chunks /\ at \in DOMAIN program /\ DOMAIN program = 1..Len(program) /\ Len(program) \in Nat
<1>1. Balanced(job) BY DEF OrdersBalanced, HostInv
<1>2. program \in Seq(ToSet(program)) BY <1>1 DEF Balanced, HostInv
<1>3. at \in DOMAIN program /\ DOMAIN program = 1..Len(program) /\ Len(program) \in Nat
  BY <1>2 DEF HostInv
<1>4. Here \in Stages(job.shape) \X Micros(job.shape)
  BY <1>1, <1>3 DEF Balanced, HostInv, Step, Here
<1>5. Here \in Chunks BY <1>4 DEF HostInv, Chunks
<1> QED BY <1>3, <1>5

\* The step of an action, and what it takes over.
LEMMA Taken ==
  ASSUME NEW type \in SwapTypes, At({type}), Fits
  PROVE  /\ phase = "run" /\ at <= Len(program) /\ Step.type = type
         /\ type = "SWAP_LAUNCH_OFFLOAD" => Here \in groups /\ tensor[Here] = "device"
         /\ type = "SWAP_WAIT_OFFLOAD" => tensor[Here] = "d2h"
         /\ type = "SWAP_LAUNCH_LOAD" => tensor[Here] = "host"
         /\ type = "SWAP_WAIT_LOAD" => Here \in loadEvent /\ tensor[Here] = "h2d"
BY DEF At, Walking, Fits, SwapTypes, ComputeTypes

\* A forward finds nothing saved.
LEMMA TakenForward ==
  ASSUME At({"FWD"}), Fits PROVE phase = "run" /\ tensor[Here] = "none"
BY DEF At, Walking, Fits

\* A backward finds its tensor on the device.
LEMMA TakenBackward ==
  ASSUME At(ComputeTypes \ {"FWD"}), Fits PROVE phase = "run" /\ tensor[Here] = "device"
BY DEF At, Walking, Fits, ComputeTypes

\* Nothing is lent at the start.
LEMMA InitLending == Init => Lending
<1> SUFFICES ASSUME Init PROVE Lending OBVIOUS
<1>1. PoolInv
  BY NoneAssumption DEF Init, PoolInv, Pool!Init, Pool!NothingLost, Pool!Waited, Places
<1>2. HostInv
  <2>1. job \in Jobs /\ program = ProgramOf(job) BY DEF Init
  <2>2. run \in 0..Runs /\ (phase # "idle" => run # 0) /\ at \in Nat \ {0}
    BY RunsAssumption DEF Init
  <2>3. phase \in Phases BY DEF Init, Phases
  <2>5. tensor \in [Chunks -> TensorStates] BY DEF Init, TensorStates
  <2>6. buffer \in [Chunks -> Blocks \cup {None}] BY DEF Init
  <2> QED BY <2>1, <2>2, <2>3, <2>5, <2>6 DEF HostInv
<1>3. AcquireInv /\ HeldInv BY <1>2 DEF Init, AcquireInv, HeldInv, HostInv, Pool!Init
<1> QED BY <1>1, <1>2, <1>3 DEF Lending

\* Every step of the host and of the streams keeps the account of the blocks.
LEMMA NextLending == ASSUME OrdersBalanced, Lending, [Next]_vars PROVE Lending'
<1> USE DEF Lending
<1> DEFINE Goal == Lending'
<1>1. CASE BeginRun
  <2>1. PoolInv' BY <1>1, DeviceKeeps DEF BeginRun
  <2>2. HostInv'
    <3>1. tensor' \in [Chunks -> TensorStates]
      BY <1>1 DEF BeginRun, HostInv, setup, chunkVars, TensorStates
    <3>2. buffer' \in [Chunks -> Blocks \cup {None}]
      BY <1>1 DEF BeginRun, HostInv, setup, chunkVars
    <3> QED
      BY <1>1, <3>1, <3>2, RunsAssumption
      DEF BeginRun, HostInv, setup, chunkVars, Phases, At, Walking
  <2>3. AcquireInv' /\ HeldInv' BY <1>1 DEF BeginRun, AcquireInv, HeldInv, chunkVars, poolVars
  <2> QED BY <2>1, <2>2, <2>3
<1>2. CASE Forward
  <2>1. PoolInv' BY <1>2, DeviceKeeps DEF Forward
  <2>2. HostInv'
    <3>1. tensor' \in [Chunks -> TensorStates]
      BY <1>2 DEF Forward, Advance, HostInv, setup, TensorStates
    <3>2. buffer' \in [Chunks -> Blocks \cup {None}] BY <1>2 DEF Forward, Advance, HostInv, setup
    <3> QED
      BY <1>2, <3>1, <3>2, RunsAssumption
      DEF Forward, Advance, HostInv, setup, Phases, At, Walking
  <2>3. AcquireInv' BY <1>2, TakenForward DEF Forward, Advance, AcquireInv
  <2>4. HeldInv'
    BY <1>2, TakenForward DEF Forward, Advance, HeldInv, HostInv, Entered, poolVars, setup
  <2> QED BY <2>1, <2>2, <2>3, <2>4
<1>3. CASE Backward
  <2>1. PoolInv' BY <1>3, DeviceKeeps DEF Backward
  <2>2. HostInv'
    <3>1. tensor' \in [Chunks -> TensorStates]
      BY <1>3 DEF Backward, Advance, HostInv, setup, TensorStates
    <3>2. buffer' \in [Chunks -> Blocks \cup {None}] BY <1>3 DEF Backward, Advance, HostInv, setup
    <3> QED
      BY <1>3, <3>1, <3>2, RunsAssumption
      DEF Backward, Advance, HostInv, setup, Phases, At, Walking
  <2>3. AcquireInv' BY <1>3, TakenBackward DEF Backward, Advance, AcquireInv
  <2>4. HeldInv'
    BY <1>3, TakenBackward DEF Backward, Advance, HeldInv, HostInv, poolVars, setup
  <2> QED BY <2>1, <2>2, <2>3, <2>4
<1>4. CASE Raises
  <2>1. PoolInv' BY <1>4, DeviceKeeps DEF Raises
  <2>2. HostInv' BY <1>4 DEF Raises, HostInv, setup, Phases, At, Walking
  <2>3. AcquireInv' /\ HeldInv'
    BY <1>4 DEF Raises, At, Walking, AcquireInv, HeldInv, Entered, poolVars
  <2> QED BY <2>1, <2>2, <2>3
<1>5. CASE Shard
  <2>1. PoolInv' BY <1>5, DeviceKeeps DEF Shard
  <2>2. HostInv' BY <1>5 DEF Shard, Advance, HostInv, setup, chunkVars
  <2>3. AcquireInv' /\ HeldInv'
    BY <1>5 DEF Shard, Advance, At, Walking, AcquireInv, HeldInv, chunkVars, poolVars
  <2> QED BY <2>1, <2>2, <2>3
<1>6. CASE LaunchOffload
  <2>1. phase = "run" /\ at <= Len(program) /\ Step.type = "SWAP_LAUNCH_OFFLOAD" /\ Here \in groups /\ tensor[Here] = "device"
    BY <1>6, Taken DEF LaunchOffload, SwapTypes
  <2>2. PoolInv' BY <1>6, DeviceKeeps DEF LaunchOffload
  <2>3. HostInv' BY <1>6, <2>1 DEF LaunchOffload, HostInv, setup, Phases
  <2>4. AcquireInv' BY <1>6, <2>1 DEF LaunchOffload, AcquireInv, setup, Step, Here
  <2>5. HeldInv' BY <1>6, <2>1 DEF LaunchOffload, HeldInv, HostInv, setup, Recorded
  <2> QED BY <2>2, <2>3, <2>4, <2>5
<1>7. CASE AcquireBuffer
  <2>1. at <= Len(program) /\ Step.type = "SWAP_LAUNCH_OFFLOAD" /\ Here \in groups /\ tensor[Here] = "device" /\ phase = "acquire"
    BY <1>7 DEF AcquireBuffer, AcquireInv
  <2>2. Here \in Chunks BY <2>1, SwapStep DEF SwapTypes
  <2>3. PoolInv' /\ Outcome BY <1>7, AcquireKeeps, ResumeKeeps DEF AcquireBuffer
  <2>4. Here' = Here /\ Step' = Step /\ UNCHANGED <<job, program, at, run, groups, tensor>>
    BY <1>7 DEF AcquireBuffer, Here, Step, setup
  <2>5. buffer[Here] = None BY <2>1, <2>2 DEF HeldInv
  <2>6. phase' \in {"acquire", "copy", "closing"} /\ (phase' = "copy" <=> lent' # lent)
    <3>1. phase' = CASE lent' # lent -> "copy" [] pc'[Host] # "idle" -> "acquire" [] OTHER -> "closing"
      BY <1>7 DEF AcquireBuffer
    <3>2. CASE lent' # lent BY <3>1, <3>2, <2>3 DEF Outcome
    <3>3. CASE lent' = lent /\ pc'[Host] # "idle" BY <3>1, <3>3
    <3>4. CASE lent' = lent /\ pc'[Host] = "idle" BY <3>1, <3>4
    <3> QED BY <3>2, <3>3, <3>4
  <2>7. CASE lent' = lent
    <3>1. buffer' = buffer BY <1>7, <2>7, <2>5, <2>2 DEF AcquireBuffer, HostInv
    <3>2. HostInv' BY <2>1, <2>4, <2>6, <3>1 DEF HostInv, Phases
    <3>3. AcquireInv' BY <2>1, <2>4, <2>6, <2>7 DEF AcquireInv
    <3>4. HeldInv' BY <2>1, <2>2, <2>4, <2>6, <2>7, <3>1 DEF HeldInv
    <3> QED BY <2>3, <3>2, <3>3, <3>4
  <2>8. CASE lent' # lent
    <3>1. PICK b \in Blocks \ lent : lent' = lent \cup {b} BY <2>3, <2>8 DEF Outcome
    <3>2. (CHOOSE d \in lent' \ lent : TRUE) = b BY <3>1
    <3>3. buffer' = [buffer EXCEPT ![Here] = b] BY <1>7, <2>8, <3>2 DEF AcquireBuffer
    <3>4. HostInv' BY <2>1, <2>4, <2>6, <3>3 DEF HostInv, Phases
    <3>5. b # None BY NoneAssumption
    <3>6. AcquireInv' BY <2>1, <2>2, <2>4, <3>3, <3>5 DEF AcquireInv, HostInv
    <3>7. HeldInv'
      <4>1. lent' = {buffer'[c] : c \in Chunks} \ {None}
        BY <2>2, <2>5, <3>1, <3>3, <3>5 DEF HeldInv, HostInv
      <4>2. \A c \in Chunks : buffer[c] # b BY <3>5 DEF HeldInv
      <4> QED BY <4>1, <4>2, <2>1, <2>2, <2>4, <2>6, <2>8, <3>3, <3>5 DEF HeldInv, HostInv
    <3> QED BY <2>3, <3>4, <3>6, <3>7
  <2> QED BY <2>7, <2>8
<1>8. CASE Offload
  <2>1. at <= Len(program) /\ Step.type = "SWAP_LAUNCH_OFFLOAD" /\ Here \in groups /\ tensor[Here] = "device" /\ phase = "copy"
        /\ buffer[Here] # None
    BY <1>8 DEF Offload, AcquireInv
  <2>2. Here \in Chunks BY <2>1, SwapStep DEF SwapTypes
  <2>3. PoolInv' BY <1>8, DeviceKeeps DEF Offload
  <2>4. HostInv'
    <3>1. tensor' \in [Chunks -> TensorStates] BY <1>8 DEF Offload, HostInv, setup, TensorStates
    <3>2. buffer' \in [Chunks -> Blocks \cup {None}] BY <1>8 DEF Offload, HostInv, setup
    <3> QED BY <1>8, <3>1, <3>2, RunsAssumption DEF Offload, HostInv, setup, Phases, At, Walking
  <2>5. AcquireInv' BY <1>8 DEF Offload, AcquireInv
  <2>6. HeldInv' BY <1>8, <2>1, <2>2 DEF Offload, HeldInv, HostInv, setup, Recorded
  <2> QED BY <2>3, <2>4, <2>5, <2>6
<1>9. CASE WaitOffload
  <2>1. phase = "run" /\ tensor[Here] = "d2h" BY <1>9, Taken DEF WaitOffload, SwapTypes
  <2>2. PoolInv' BY <1>9, DeviceKeeps DEF WaitOffload
  <2>3. HostInv'
    <3>1. tensor' \in [Chunks -> TensorStates]
      BY <1>9 DEF WaitOffload, Advance, HostInv, setup, TensorStates
    <3>2. buffer' \in [Chunks -> Blocks \cup {None}]
      BY <1>9 DEF WaitOffload, Advance, HostInv, setup
    <3> QED
      BY <1>9, <3>1, <3>2, RunsAssumption
      DEF WaitOffload, Advance, HostInv, setup, Phases, At, Walking
  <2>4. AcquireInv' BY <1>9, <2>1 DEF WaitOffload, Advance, AcquireInv
  <2>5. HeldInv' BY <1>9, <2>1 DEF WaitOffload, Advance, HeldInv, HostInv, setup, poolVars
  <2> QED BY <2>2, <2>3, <2>4, <2>5
<1>10. CASE LaunchLoad
  <2>1. phase = "run" /\ tensor[Here] = "host" BY <1>10, Taken DEF LaunchLoad, SwapTypes
  <2>2. PoolInv' BY <1>10, DeviceKeeps DEF LaunchLoad
  <2>3. HostInv'
    <3>1. tensor' \in [Chunks -> TensorStates]
      BY <1>10 DEF LaunchLoad, Advance, HostInv, setup, TensorStates
    <3>2. buffer' \in [Chunks -> Blocks \cup {None}]
      BY <1>10 DEF LaunchLoad, Advance, HostInv, setup
    <3> QED
      BY <1>10, <3>1, <3>2, RunsAssumption
      DEF LaunchLoad, Advance, HostInv, setup, Phases, At, Walking
  <2>4. AcquireInv' BY <1>10, <2>1 DEF LaunchLoad, Advance, AcquireInv
  <2>5. HeldInv' BY <1>10, <2>1 DEF LaunchLoad, Advance, HeldInv, HostInv, setup, Recorded
  <2> QED BY <2>2, <2>3, <2>4, <2>5
<1>11. CASE WaitLoad
  <2>1. phase = "run" /\ tensor[Here] = "h2d" /\ at <= Len(program) /\ Step.type = "SWAP_WAIT_LOAD"
    BY <1>11, Taken DEF WaitLoad, SwapTypes
  <2>2. Here \in Chunks BY <2>1, SwapStep DEF SwapTypes
  <2>3. Event("load", Here) \in Events BY <2>1, <2>2, RunsAssumption DEF HostInv, Event, Events
  <2>4. PoolInv' BY <1>11, <2>3, ReleaseAfterKeeps DEF WaitLoad
  <2>5. HostInv'
    <3>1. tensor' \in [Chunks -> TensorStates]
      BY <1>11 DEF WaitLoad, Advance, HostInv, setup, TensorStates
    <3>2. buffer' \in [Chunks -> Blocks \cup {None}]
      BY <1>11 DEF WaitLoad, Advance, HostInv, setup
    <3> QED
      BY <1>11, <3>1, <3>2, RunsAssumption
      DEF WaitLoad, Advance, HostInv, setup, Phases, At, Walking
  <2>6. AcquireInv' BY <1>11, <2>1 DEF WaitLoad, Advance, AcquireInv
  <2>7. HeldInv'
    BY <1>11, <2>1, <2>2 DEF WaitLoad, Advance, HeldInv, HostInv, setup, Pool!ReleaseAfter
  <2> QED BY <2>4, <2>5, <2>6, <2>7
<1>12. CASE Close
  <2>1. PoolInv' BY <1>12, DeviceKeeps DEF Close
  <2>2. HostInv' BY <1>12 DEF Close, HostInv, setup, chunkVars, Phases
  <2>3. AcquireInv' /\ HeldInv' BY <1>12 DEF Close, AcquireInv, HeldInv, chunkVars, poolVars
  <2> QED BY <2>1, <2>2, <2>3
<1>13. ASSUME NEW c \in Chunks, AbortGroup(c) PROVE Lending'
  <2>1. PoolInv' BY <1>13, ReleaseNowKeeps, DeviceKeeps DEF AbortGroup
  <2>2. HostInv' BY <1>13 DEF AbortGroup, HostInv, hostVars, setup
  <2>3. AcquireInv' BY <1>13 DEF AbortGroup, AcquireInv, hostVars
  <2>4. CASE buffer[c] = None
    <3>1. buffer' = buffer BY <1>13, <2>4 DEF AbortGroup, HostInv
    <3>2. HeldInv' BY <1>13, <2>4, <3>1 DEF AbortGroup, HeldInv, HostInv, hostVars, poolVars
    <3> QED BY <2>1, <2>2, <2>3, <3>2
  <2>5. CASE buffer[c] # None
    <3>1. lent' = lent \ {buffer[c]} BY <1>13, <2>5 DEF AbortGroup, Pool!ReleaseNow
    <3>2. HeldInv' BY <1>13, <2>5, <3>1 DEF AbortGroup, HeldInv, HostInv, hostVars
    <3> QED BY <2>1, <2>2, <2>3, <3>2
  <2> QED BY <2>4, <2>5
<1>14. CASE EndRun
  <2>1. PoolInv' BY <1>14, DeviceKeeps DEF EndRun
  <2>2. HostInv' BY <1>14 DEF EndRun, HostInv, setup, Phases, TensorStates
  <2>3. AcquireInv' /\ HeldInv' BY <1>14 DEF EndRun, AcquireInv, HeldInv, HostInv, poolVars
  <2> QED BY <2>1, <2>2, <2>3
<1>15. ASSUME NEW head, Execute(head) PROVE Lending'
  <2>1. PoolInv' /\ UNCHANGED lent BY <1>15, DeviceKeeps DEF Execute
  <2>2. HostInv' BY <1>15 DEF Execute, HostInv, hostVars, chunkVars, setup
  <2>3. AcquireInv' /\ HeldInv'
    BY <1>15, <2>1 DEF Execute, AcquireInv, HeldInv, hostVars, chunkVars, setup, Here, Step
  <2> QED BY <2>1, <2>2, <2>3
<1>16. CASE UNCHANGED vars
  <2>1. PoolInv' /\ UNCHANGED lent BY <1>16, DeviceKeeps DEF vars
  <2>2. HostInv' BY <1>16 DEF vars, HostInv, hostVars, chunkVars, setup
  <2>3. AcquireInv' /\ HeldInv'
    BY <1>16, <2>1 DEF vars, AcquireInv, HeldInv, hostVars, chunkVars, setup, Here, Step
  <2> QED BY <2>1, <2>2, <2>3
<1> QED
  BY <1>1, <1>2, <1>3, <1>4, <1>5, <1>6, <1>7, <1>8, <1>9, <1>10, <1>11, <1>12, <1>13, <1>14,
      <1>15, <1>16
  DEF Next, ComputeStream, CopyStream, Finished

\* The account of the blocks is an invariant.
LEMMA LendingInvariant == ASSUME OrdersBalanced PROVE Spec => []Lending
<1>1. Init => Lending BY InitLending
<1>2. Lending /\ [Next]_vars => Lending' BY NextLending
<1> QED BY <1>1, <1>2, PTL DEF Spec

\* Whatever a run did and wherever it raised, the host gives every block back
\* before the next one: abort_group leaves no group, so no buffer, behind.
THEOREM BuffersComeBack == ASSUME OrdersBalanced PROVE Spec => []BuffersReturned
<1>1. Lending => BuffersReturned BY DEF Lending, HeldInv, BuffersReturned
<1> QED BY <1>1, LendingInvariant, PTL

-----------------------------------------------------------------------------
(* What is enqueued *)

\* The step that asked for the event.
Asks(kind) == IF kind = "offload" THEN "SWAP_LAUNCH_OFFLOAD" ELSE "SWAP_LAUNCH_LOAD"

\* The step that asked for the buffer of c, behind which no load of c is awaited yet.
Planned(c) ==
  \E i \in DOMAIN program :
    /\ i <= at /\ program[i].type = "SWAP_LAUNCH_OFFLOAD" /\ Chunk(program[i]) = c
    /\ \A k \in DOMAIN program :
         (k < at /\ program[k].type = "SWAP_WAIT_LOAD" /\ Chunk(program[k]) = c) => k < i
\* A buffer is asked for by the order; a run that did not fail ends behind it.
PlanInv ==
  /\ \A c \in Chunks : buffer[c] # None => Planned(c)
  /\ phase = "closing" /\ ~failed => at > Len(program)

\* The operations a stream records an event by, and those that touch a block.
IsRecord(op) == op[1] = "record"
IsCopy(op)   == op[1] \in {"toHost", "toDevice"}

\* The compute stream records only the events in front of a transfer.
ComputeInv ==
  /\ IsSeq(compute)
  /\ \A i \in DOMAIN compute : IsRecord(compute[i]) => compute[i][2][1] \in {"beforeOffload", "beforeLoad"}

\* An event that is asked for and not done: in this run, by a step behind the host.
Outstanding(e) ==
  /\ e \notin done /\ e[1] \in {"offload", "load"} /\ e[3] \in 0..run
  /\ e[3] = run => \E k \in DOMAIN program :
       k < at /\ program[k].type = Asks(e[1]) /\ Chunk(program[k]) = e[2]

\* The events that a stream records, each once.
Recording(s) == {i \in DOMAIN s : IsRecord(s[i])}
EventsOf(s)  == {s[i][2] : i \in Recording(s)}
EachOnce(s)  == \A i, k \in Recording(s) : s[i][2] = s[k][2] => i = k

\* The copy stream records outstanding events, each once.
EventsInv == IsSeq(copy) /\ EachOnce(copy) /\ \A e \in EventsOf(copy) : Outstanding(e)

\* Event e is recorded behind operation i of the copy stream.
Behind(i, e) == \E k \in DOMAIN copy : k > i /\ IsRecord(copy[k]) /\ copy[k][2] = e

\* Block b is held by chunk c; while the load is on its way, its event follows.
Held(i, c, b) == b \in lent /\ buffer[c] = b /\ (tensor[c] = "h2d" => Behind(i, Event("load", c)))
\* Block b is in the pool, behind an event that the copy stream still records.
Parked(i, b) == b \in pending \cup Pool!Waited /\ Behind(i, event[b])

\* Every queued copy works on a block that is held or parked.
QuietInv ==
  ~failed => \A i \in DOMAIN copy : IsCopy(copy[i]) =>
    copy[i][2] \in Chunks /\ (Held(i, copy[i][2], copy[i][4]) \/ Parked(i, copy[i][4]))

\* What is enqueued.
Streams == PlanInv /\ ComputeInv /\ EventsInv /\ QuietInv

\* The order is a sequence.
LEMMA ProgramIsSequence ==
  ASSUME OrdersBalanced, HostInv PROVE DOMAIN program = 1..Len(program) /\ Len(program) \in Nat
<1>1. program \in Seq(ToSet(program)) BY DEF OrdersBalanced, HostInv, Balanced
<1> QED BY <1>1

\* A swap step is in the order once.
LEMMA OneOfEach ==
  ASSUME OrdersBalanced, HostInv, NEW i \in DOMAIN program, NEW k \in DOMAIN program,
         program[i].type \in SwapTypes, program[k].type = program[i].type, Chunk(program[k]) = Chunk(program[i])
  PROVE  i = k
BY DEF OrdersBalanced, HostInv, Balanced

\* What is offloaded is awaited by a later step.
LEMMA LoadAwaited ==
  ASSUME OrdersBalanced, HostInv, NEW i \in DOMAIN program, program[i].type = "SWAP_LAUNCH_OFFLOAD"
  PROVE  \E k \in DOMAIN program : /\ k > i /\ program[k].type = "SWAP_WAIT_LOAD" /\ Chunk(program[k]) = Chunk(program[i])
                                   /\ k <= Len(program)
<1>1. Balanced(job) BY DEF OrdersBalanced, HostInv
<1>3. DOMAIN program = 1..Len(program) /\ Len(program) \in Nat BY ProgramIsSequence
<1>4. PICK k \in i + 1..Len(program) : program[k].type = "SWAP_WAIT_LOAD" /\ Chunk(program[k]) = Chunk(program[i])
  BY <1>1 DEF Balanced, HostInv
<1> QED BY <1>3, <1>4

\* Between runs, and when a run ends that none failed of, nothing is lent.
LEMMA NothingHeld ==
  ASSUME OrdersBalanced, HostInv, HeldInv, PlanInv, phase = "idle" \/ (phase = "closing" /\ ~failed)
  PROVE  \A c \in Chunks : buffer[c] = None
<1>1. CASE phase = "idle" BY <1>1 DEF HeldInv
<1>2. CASE phase = "closing" /\ ~failed
  <2> SUFFICES ASSUME NEW c \in Chunks, buffer[c] # None PROVE FALSE OBVIOUS
  <2>1. PICK i \in DOMAIN program :
          /\ i <= at /\ program[i].type = "SWAP_LAUNCH_OFFLOAD" /\ Chunk(program[i]) = c
          /\ \A k \in DOMAIN program :
               (k < at /\ program[k].type = "SWAP_WAIT_LOAD" /\ Chunk(program[k]) = c) => k < i
    BY DEF PlanInv, Planned
  <2>2. PICK k \in DOMAIN program : k > i /\ program[k].type = "SWAP_WAIT_LOAD" /\ Chunk(program[k]) = c /\ k <= Len(program)
    BY <2>1, LoadAwaited
  <2>3. Len(program) < at BY <1>2 DEF PlanInv
  <2>4. i \in Nat /\ k \in Nat /\ at \in Nat /\ Len(program) \in Nat
    BY ProgramIsSequence DEF HostInv
  <2> QED BY <2>1, <2>2, <2>3, <2>4
<1> QED BY <1>1, <1>2

\* A step other than the wait for its load leaves the plan of a chunk.
LEMMA PlanAdvances ==
  ASSUME OrdersBalanced, HostInv, NEW c \in Chunks, Planned(c), program' = program, at' \in {at, at + 1},
         at' = at \/ Step.type # "SWAP_WAIT_LOAD" \/ Here # c
  PROVE  Planned(c)'
<1>1. PICK i \in DOMAIN program :
        /\ i <= at /\ program[i].type = "SWAP_LAUNCH_OFFLOAD" /\ Chunk(program[i]) = c
        /\ \A k \in DOMAIN program :
             (k < at /\ program[k].type = "SWAP_WAIT_LOAD" /\ Chunk(program[k]) = c) => k < i
  BY DEF Planned
<1>2. DOMAIN program \subseteq Nat /\ at \in Nat
  BY ProgramIsSequence DEF HostInv
<1>3. \A k \in DOMAIN program : k < at' => k < at \/ (at' = at + 1 /\ k = at)
  BY <1>2
<1> QED BY <1>1, <1>2, <1>3 DEF Planned, Step, Here

-----------------------------------------------------------------------------
(* The compute stream and the plan *)

\* The compute stream records nothing behind which a buffer waits.
LEMMA ComputeGrows ==
  ASSUME ComputeInv, NEW x, IsRecord(x) => x[2][1] \in {"beforeOffload", "beforeLoad"},
         compute' = compute \/ compute' = Append(compute, x)
  PROVE  ComputeInv'
<1>1. CASE compute' = compute BY <1>1 DEF ComputeInv
<1>2. CASE compute' = Append(compute, x)
  <2>1. IsSeq(compute) BY DEF ComputeInv
  <2>2. IsSeq(compute') /\ DOMAIN compute' = 1..Len(compute) + 1 /\ DOMAIN compute = 1..Len(compute) /\ Len(compute) \in Nat
        /\ (\A i \in 1..Len(compute) : compute'[i] = compute[i]) /\ compute'[Len(compute) + 1] = x
    BY <1>2, <2>1, Appended
  <2>3. ASSUME NEW i \in DOMAIN compute', IsRecord(compute'[i]) PROVE compute'[i][2][1] \in {"beforeOffload", "beforeLoad"}
    <3>1. CASE i = Len(compute) + 1 BY <3>1, <2>2, <2>3
    <3>2. CASE i \in 1..Len(compute) BY <3>2, <2>2, <2>3 DEF ComputeInv
    <3> QED BY <3>1, <3>2, <2>2
  <2> QED BY <2>2, <2>3 DEF ComputeInv
<1> QED BY <1>1, <1>2

\* Computations and waits record nothing.
LEMMA NotRecords ==
  ASSUME NEW c, NEW a, NEW e PROVE ~IsRecord(Write(c, a)) /\ ~IsRecord(Read(c, a)) /\ ~IsRecord(WaitOf(e))
BY DEF IsRecord, Write, Read, WaitOf

\* A wait is enqueued or is none.
LEMMA AwaitAppends ==
  ASSUME NEW s, NEW e PROVE AwaitEvent(s, e) = s \/ AwaitEvent(s, e) = Append(s, WaitOf(e))
BY DEF AwaitEvent

\* Every step keeps what the compute stream records.
LEMMA NextCompute == ASSUME ComputeInv, [Next]_vars PROVE ComputeInv'
<1>1. CASE UNCHANGED compute BY <1>1 DEF ComputeInv
<1>2. CASE Forward BY <1>2, ComputeGrows, NotRecords DEF Forward
<1>3. CASE Backward BY <1>3, ComputeGrows, NotRecords DEF Backward
<1>4. CASE LaunchOffload
  <2>1. IsRecord(RecordOf(Event("beforeOffload", Here))) => RecordOf(Event("beforeOffload", Here))[2][1] = "beforeOffload"
    BY DEF RecordOf, Event
  <2> QED BY <1>4, <2>1, ComputeGrows DEF LaunchOffload
<1>5. CASE WaitOffload BY <1>5, ComputeGrows, NotRecords, AwaitAppends DEF WaitOffload
<1>6. CASE LaunchLoad
  <2>1. IsRecord(RecordOf(Event("beforeLoad", Here))) => RecordOf(Event("beforeLoad", Here))[2][1] = "beforeLoad"
    BY DEF RecordOf, Event
  <2> QED BY <1>6, <2>1, ComputeGrows DEF LaunchLoad
<1>7. CASE WaitLoad BY <1>7, ComputeGrows, NotRecords, AwaitAppends DEF WaitLoad
<1>8. CASE ComputeStream
  <2>1. IsSeq(compute) /\ compute # <<>> /\ compute' = Tail(compute)
    BY <1>8 DEF ComputeInv, ComputeStream
  <2> QED BY <2>1, TailOf DEF ComputeInv
<1> QED
  BY <1>1, <1>2, <1>3, <1>4, <1>5, <1>6, <1>7, <1>8
  DEF Next, vars, streamVars, BeginRun, Raises, Shard, AcquireBuffer, Offload, Close,
      AbortGroup, EndRun, CopyStream, Finished

\* Every buffer is asked for by a step that the host has not undone.
LEMMA NextPlan == ASSUME OrdersBalanced, Lending, PlanInv, [Next]_vars PROVE PlanInv'
<1> USE DEF Lending
<1>0. UNCHANGED <<job, program>> /\ at \in Nat
  BY
  DEF Next, vars, hostVars, setup, BeginRun, Forward, Backward, Raises, Shard, LaunchOffload,
      AcquireBuffer, Offload,
         WaitOffload, LaunchLoad, WaitLoad, Close, AbortGroup, EndRun, ComputeStream,
             CopyStream, Execute, Finished, Advance, HostInv
<1>1. CASE BeginRun
  <2>1. \A c \in Chunks : buffer'[c] = None BY <1>1, NothingHeld DEF BeginRun, chunkVars
  <2> QED BY <1>1, <2>1 DEF BeginRun, PlanInv
<1>2. CASE at' = at + 1 /\ buffer' = buffer /\ UNCHANGED <<phase, failed>> /\ phase = "run" /\ Step.type # "SWAP_WAIT_LOAD"
  BY <1>0, <1>2, PlanAdvances DEF PlanInv
<1>3. CASE /\ UNCHANGED <<at, buffer>>
           /\ (phase' = "closing" /\ ~failed') => ((phase = "closing" /\ ~failed) \/ at > Len(program))
  BY <1>0, <1>3, PlanAdvances DEF PlanInv
<1>4. CASE AcquireBuffer
  <2>1. at' = at /\ (phase' = "closing" => failed') BY <1>4 DEF AcquireBuffer
  <2>2. at <= Len(program) /\ Step.type = "SWAP_LAUNCH_OFFLOAD"
    BY <1>4 DEF AcquireBuffer, AcquireInv
  <2>3. at \in DOMAIN program /\ DOMAIN program \subseteq Nat BY <2>2, SwapStep DEF SwapTypes
  <2>4. Planned(Here)' BY <2>1, <2>2, <2>3, <1>0 DEF Planned, Step, Here
  <2>5. ASSUME NEW c \in Chunks, buffer'[c] # None PROVE Planned(c)'
    <3>1. CASE c = Here
      <4>1. Here' = Here BY <1>0, <2>1 DEF Here, Step
      <4> QED BY <3>1, <2>1, <2>2, <2>3, <1>0 DEF Planned, Step, Here
    <3>2. CASE c # Here
      <4>1. buffer'[c] = buffer[c] BY <1>4, <3>2 DEF AcquireBuffer, HostInv
      <4> QED BY <4>1, <2>1, <2>5, <1>0, PlanAdvances DEF PlanInv
    <3> QED BY <3>1, <3>2
  <2> QED BY <2>1, <2>5 DEF PlanInv
<1>5. CASE Offload
  <2>1. Step.type = "SWAP_LAUNCH_OFFLOAD" /\ at' = at + 1 /\ buffer' = buffer /\ phase' = "run"
    BY <1>5 DEF Offload, AcquireInv
  <2> QED BY <2>1, <1>0, PlanAdvances DEF PlanInv
<1>6. CASE WaitLoad
  <2>1. phase = "run" /\ at <= Len(program) /\ Step.type = "SWAP_WAIT_LOAD"
    BY <1>6, Taken DEF WaitLoad, SwapTypes
  <2>2. Here \in Chunks BY <2>1, SwapStep DEF SwapTypes
  <2>3. buffer' = [buffer EXCEPT ![Here] = None] /\ at' = at + 1 /\ phase' = phase
    BY <1>6 DEF WaitLoad, Advance
  <2>4. ASSUME NEW c \in Chunks, buffer'[c] # None PROVE Planned(c)'
    <3>1. c # Here /\ buffer[c] # None BY <2>2, <2>3, <2>4 DEF HostInv
    <3> QED BY <3>1, <2>3, <1>0, PlanAdvances DEF PlanInv
  <2> QED BY <2>1, <2>3, <2>4 DEF PlanInv
<1>7. ASSUME NEW c \in Chunks, AbortGroup(c) PROVE PlanInv'
  <2>1. \A d \in Chunks : buffer'[d] # None => buffer[d] # None BY <1>7 DEF AbortGroup, HostInv
  <2>2. UNCHANGED <<at, phase, failed>> BY <1>7 DEF AbortGroup, hostVars
  <2> QED BY <2>1, <2>2, <1>0, PlanAdvances DEF PlanInv
<1>8. CASE Forward \/ Backward \/ Shard \/ WaitOffload \/ LaunchLoad
  <2>1. at' = at + 1 /\ buffer' = buffer /\ UNCHANGED <<phase, failed>> /\ phase = "run"
    BY <1>8 DEF Forward, Backward, Shard, WaitOffload, LaunchLoad, Advance, At, Walking, chunkVars
  <2>2. Step.type # "SWAP_WAIT_LOAD"
    BY <1>8 DEF Forward, Backward, Shard, WaitOffload, LaunchLoad, At, ComputeTypes, FsdpTypes
  <2> QED BY <2>1, <2>2, <1>2
<1>9. CASE Raises \/ LaunchOffload \/ Close \/ EndRun \/ ComputeStream \/ CopyStream \/ UNCHANGED vars
  BY <1>9, <1>3
  DEF Raises, LaunchOffload, Close, EndRun, ComputeStream, CopyStream, Execute, vars, hostVars,
      chunkVars
<1> QED BY <1>1, <1>4, <1>5, <1>6, <1>7, <1>8, <1>9 DEF Next, Finished

-----------------------------------------------------------------------------
(* The events of the copy stream *)

\* An event that is outstanding remains so while the run goes on.
LEMMA StaysOutstanding ==
  ASSUME OrdersBalanced, HostInv, NEW e, Outstanding(e), program' = program,
         \/ run' = run /\ at' \in {at, at + 1}
         \/ run' = run + 1,
         e \notin done'
  PROVE  Outstanding(e)'
<1>1. run \in Nat /\ at \in Nat /\ DOMAIN program \subseteq Nat
  BY ProgramIsSequence, RunsAssumption DEF HostInv
<1>2. e[3] \in 0..run' /\ (e[3] = run' => e[3] = run /\ at' \in {at, at + 1})
  BY <1>1 DEF Outstanding
<1>3. \A k \in DOMAIN program : k < at => k < at + 1 BY <1>1
<1> QED BY <1>2, <1>3 DEF Outstanding

\* The copy stream has the same records, of events that are not done yet.
LEMMA SameRecords ==
  ASSUME OrdersBalanced, HostInv, EventsInv, program' = program,
         \/ run' = run /\ at' \in {at, at + 1}
         \/ run' = run + 1,
         copy' = copy,
         \A e : (e \in done' /\ e \notin done) => e[1] \notin {"offload", "load"}
  PROVE  EventsInv'
<1>1. ASSUME NEW e \in EventsOf(copy) PROVE Outstanding(e)'
  <2>1. Outstanding(e) BY DEF EventsInv
  <2>2. e \notin done' BY <2>1 DEF Outstanding
  <2> QED BY <2>1, <2>2, StaysOutstanding
<1> QED BY <1>1 DEF EventsInv

\* The events of a sequence with one more operation at its end.
LEMMA EventsAppend ==
  ASSUME NEW s, IsSeq(s), EachOnce(s), NEW x, IsRecord(x) => x[2] \notin EventsOf(s)
  PROVE  /\ IsSeq(Append(s, x)) /\ EachOnce(Append(s, x))
         /\ EventsOf(Append(s, x)) = EventsOf(s) \cup (IF IsRecord(x) THEN {x[2]} ELSE {})
<1> DEFINE t == Append(s, x)
<1>1. /\ IsSeq(t) /\ DOMAIN t = 1..Len(s) + 1 /\ DOMAIN s = 1..Len(s) /\ Len(s) \in Nat
      /\ \A i \in 1..Len(s) : t[i] = s[i]
      /\ t[Len(s) + 1] = x
  BY Appended
<1> HIDE DEF t
<1>2. Recording(t) = Recording(s) \cup (IF IsRecord(x) THEN {Len(s) + 1} ELSE {})
  BY <1>1 DEF Recording
<1>3. Len(s) + 1 \notin DOMAIN s BY <1>1
<1>4. \A i \in Recording(s) : t[i] = s[i] /\ i \in DOMAIN s BY <1>1 DEF Recording
<1>5. EachOnce(t)
  <2> SUFFICES ASSUME NEW i \in Recording(t), NEW k \in Recording(t), t[i][2] = t[k][2] PROVE i = k
    BY DEF EachOnce
  <2>1. \A j \in Recording(s) : s[j][2] \in EventsOf(s) BY DEF EventsOf
  <2>2. CASE ~IsRecord(x) BY <1>2, <1>4, <2>2 DEF EachOnce
  <2>3. CASE IsRecord(x) BY <1>1, <1>2, <1>4, <2>1, <2>3 DEF EachOnce
  <2> QED BY <2>2, <2>3
<1>6. EventsOf(t) = EventsOf(s) \cup (IF IsRecord(x) THEN {x[2]} ELSE {})
  <2>1. CASE ~IsRecord(x) BY <1>2, <1>4, <2>1 DEF EventsOf
  <2>2. CASE IsRecord(x) BY <1>1, <1>2, <1>4, <2>2 DEF EventsOf
  <2> QED BY <2>1, <2>2
<1> QED BY <1>1, <1>5, <1>6 DEF t

\* The events of a sequence without its first operation.
LEMMA EventsTail ==
  ASSUME NEW s, IsSeq(s), EachOnce(s), s # <<>>
  PROVE  /\ IsSeq(Tail(s)) /\ EachOnce(Tail(s)) /\ EventsOf(Tail(s)) \subseteq EventsOf(s)
         /\ IsRecord(Head(s)) => Head(s)[2] \notin EventsOf(Tail(s))
<1> DEFINE t == Tail(s)
<1>1. /\ IsSeq(t) /\ DOMAIN t = 1..Len(s) - 1 /\ DOMAIN s = 1..Len(s) /\ Len(s) \in Nat \ {0}
      /\ \A i \in 1..Len(s) - 1 : t[i] = s[i + 1]
      /\ Head(s) = s[1]
  BY TailOf
<1> HIDE DEF t
<1>2. \A i \in Recording(t) : /\ i \in Nat /\ i + 1 \in Recording(s) /\ t[i] = s[i + 1] /\ i + 1 # 1
  BY <1>1 DEF Recording
<1>3. \A i, k \in Recording(t) : i + 1 = k + 1 => i = k BY <1>2
<1>4. EachOnce(t) BY <1>2, <1>3 DEF EachOnce
<1>5. EventsOf(t) \subseteq EventsOf(s) BY <1>2 DEF EventsOf
<1>6. ASSUME IsRecord(Head(s)) PROVE Head(s)[2] \notin EventsOf(t)
  <2>1. 1 \in Recording(s) BY <1>1, <1>6 DEF Recording
  <2> QED BY <1>1, <1>2, <2>1 DEF EventsOf, EachOnce
<1> QED BY <1>1, <1>4, <1>5, <1>6 DEF t

\* An event that a step of this run asks for has not been asked for before.
LEMMA NewEvent ==
  ASSUME OrdersBalanced, HostInv, EventsInv, at <= Len(program), Step.type \in SwapTypes, run # 0,
         NEW kind \in {"offload", "load"}, Step.type = Asks(kind)
  PROVE  Event(kind, Here) \notin EventsOf(copy)
<1> SUFFICES ASSUME Event(kind, Here) \in EventsOf(copy) PROVE FALSE OBVIOUS
<1>1. Outstanding(<<kind, Here, run>>) BY DEF EventsInv, Event
<1>2. PICK k \in DOMAIN program : k < at /\ program[k].type = Asks(kind) /\ Chunk(program[k]) = Here
  BY <1>1 DEF Outstanding
<1>3. at \in DOMAIN program BY SwapStep
<1>4. k = at BY <1>2, <1>3, OneOfEach DEF Step, Here
<1>5. k \in Nat /\ at \in Nat BY <1>3, <1>2, ProgramIsSequence
<1> QED BY <1>2, <1>4, <1>5

\* The step at the host makes its event outstanding.
LEMMA NewOutstanding ==
  ASSUME OrdersBalanced, HostInv, at <= Len(program), Step.type \in SwapTypes, run # 0,
         NEW kind \in {"offload", "load"}, Step.type = Asks(kind), NEW e, e = Event(kind, Here),
         program' = program, run' = run, at' = at + 1, e \notin done'
  PROVE  Outstanding(e)'
<1>1. at \in DOMAIN program /\ at < at' BY SwapStep DEF HostInv
<1>2. run \in 0..run' BY RunsAssumption DEF HostInv
<1>3. e[1] = kind /\ e[2] = Here /\ e[3] = run BY DEF Event
<1>4. program'[at].type = Asks(e[1]) /\ Chunk(program'[at]) = e[2] BY <1>3 DEF Step, Here
<1> QED BY <1>1, <1>2, <1>3, <1>4 DEF Outstanding

\* Every step keeps the events of the copy stream outstanding: launch_offload and
\* launch_load add a new one, the stream takes one away as it is done.
LEMMA NextEvents == ASSUME OrdersBalanced, Lending, ComputeInv, EventsInv, [Next]_vars PROVE EventsInv'
<1> USE DEF Lending
<1>0. UNCHANGED <<job, program>> /\ at \in Nat
  BY
  DEF Next, vars, hostVars, setup, BeginRun, Forward, Backward, Raises, Shard, LaunchOffload,
      AcquireBuffer, Offload,
         WaitOffload, LaunchLoad, WaitLoad, Close, AbortGroup, EndRun, ComputeStream,
             CopyStream, Execute, Finished, Advance, HostInv
<1>1. CASE BeginRun BY <1>0, <1>1, SameRecords DEF BeginRun, streamVars, poolVars
<1>2. CASE Forward \/ Backward \/ Shard \/ WaitOffload
  <2>1. at' = at + 1 /\ UNCHANGED <<run, copy, done>>
    BY <1>2 DEF Forward, Backward, Shard, WaitOffload, Advance, poolVars, streamVars
  <2> QED BY <2>1, <1>0, SameRecords
<1>3. CASE Raises \/ Close \/ EndRun \/ UNCHANGED vars
  <2>1. UNCHANGED <<at, run, copy, done>>
    BY <1>3 DEF Raises, Close, EndRun, vars, hostVars, poolVars, streamVars
  <2> QED BY <2>1, <1>0, SameRecords
<1>4. CASE LaunchOffload
  <2> DEFINE w == WaitOf(Event("beforeOffload", Here))
  <2>1. copy' = Append(copy, w) /\ UNCHANGED <<at, run>> /\ done' \subseteq done
    BY <1>4 DEF LaunchOffload, Recorded
  <2>2. ~IsRecord(w) BY NotRecords
  <2> HIDE DEF w
  <2>3. IsSeq(copy') /\ EachOnce(copy') /\ EventsOf(copy') = EventsOf(copy)
    BY <2>1, <2>2, EventsAppend DEF EventsInv
  <2>4. ASSUME NEW e \in EventsOf(copy) PROVE Outstanding(e)'
    <3>1. Outstanding(e) BY DEF EventsInv
    <3>2. e \notin done' BY <3>1, <2>1 DEF Outstanding
    <3> QED BY <3>1, <3>2, <2>1, <1>0, StaysOutstanding
  <2> QED BY <2>3, <2>4 DEF EventsInv
<1>5. CASE AcquireBuffer
  <2>1. UNCHANGED <<at, run, copy, done>>
    BY <1>5, AcquireKeeps, ResumeKeeps DEF AcquireBuffer, streamVars, Outcome
  <2> QED BY <2>1, <1>0, SameRecords
<1>6. CASE Offload
  <2>1. at <= Len(program) /\ Step.type = "SWAP_LAUNCH_OFFLOAD" /\ run # 0
    BY <1>6 DEF Offload, AcquireInv, HostInv
  <2> DEFINE x == ToHost(Here, home[Here], buffer[Here])
  <2>2. PICK e : e = Event("offload", Here) OBVIOUS
  <2>3. copy' = copy \o <<x, RecordOf(e)>> /\ done' = done \ {e} /\ run' = run /\ at' = at + 1
    BY <1>6, <2>2 DEF Offload, Recorded
  <2>4. ~IsRecord(x) /\ IsRecord(RecordOf(e)) /\ RecordOf(e)[2] = e
    BY DEF IsRecord, ToHost, RecordOf
  <2> HIDE DEF x
  <2>5. e \notin EventsOf(copy) BY <2>1, <2>2, NewEvent DEF Asks, SwapTypes
  <2>6. IsSeq(Append(copy, x)) /\ EachOnce(Append(copy, x)) /\ EventsOf(Append(copy, x)) = EventsOf(copy)
    BY <2>4, EventsAppend DEF EventsInv
  <2>7. copy' = Append(Append(copy, x), RecordOf(e)) BY <2>3, Pair DEF EventsInv
  <2>8. IsSeq(copy') /\ EachOnce(copy') /\ EventsOf(copy') = EventsOf(copy) \cup {e}
    BY <2>4, <2>5, <2>6, <2>7, EventsAppend
  <2>9. Outstanding(e)' BY <2>1, <2>2, <2>3, <1>0, NewOutstanding DEF Asks, SwapTypes
  <2>10. ASSUME NEW f \in EventsOf(copy) PROVE Outstanding(f)'
    <3>1. Outstanding(f) BY DEF EventsInv
    <3>2. f \notin done' BY <3>1, <2>3 DEF Outstanding
    <3> QED BY <3>1, <3>2, <2>3, <1>0, StaysOutstanding
  <2> QED BY <2>8, <2>9, <2>10 DEF EventsInv
<1>7. CASE LaunchLoad
  <2>1. phase = "run" /\ at <= Len(program) /\ Step.type = "SWAP_LAUNCH_LOAD"
    BY <1>7, Taken DEF LaunchLoad, SwapTypes
  <2>2. run # 0 BY <2>1 DEF HostInv
  <2> DEFINE w == WaitOf(Event("beforeLoad", Here))
             x == ToDevice(Here, FreeAddress, buffer[Here])
  <2>3. PICK e : e = Event("load", Here) OBVIOUS
  <2>4. copy' = copy \o <<w, x, RecordOf(e)>> /\ done' = done \ {Event("beforeLoad", Here), e} /\ run' = run /\ at' = at + 1
    BY <1>7, <2>3 DEF LaunchLoad, Recorded, Advance
  <2>5. ~IsRecord(w) /\ ~IsRecord(x) /\ IsRecord(RecordOf(e)) /\ RecordOf(e)[2] = e
    BY DEF IsRecord, WaitOf, ToDevice, RecordOf
  <2> HIDE DEF w, x
  <2>6. e \notin EventsOf(copy) BY <2>1, <2>2, <2>3, NewEvent DEF Asks, SwapTypes
  <2>7. IsSeq(Append(copy, w)) /\ EachOnce(Append(copy, w)) /\ EventsOf(Append(copy, w)) = EventsOf(copy)
    BY <2>5, EventsAppend DEF EventsInv
  <2> DEFINE s == Append(Append(copy, w), x)
  <2>8. IsSeq(s) /\ EachOnce(s) /\ EventsOf(s) = EventsOf(copy) BY <2>5, <2>7, EventsAppend
  <2>9. copy' = Append(s, RecordOf(e)) BY <2>4, Triple DEF EventsInv
  <2> HIDE DEF s
  <2>10. IsSeq(copy') /\ EachOnce(copy') /\ EventsOf(copy') = EventsOf(copy) \cup {e}
    BY <2>5, <2>6, <2>8, <2>9, EventsAppend
  <2>11. Outstanding(e)' BY <2>1, <2>2, <2>3, <2>4, <1>0, NewOutstanding DEF Asks, SwapTypes
  <2>12. ASSUME NEW f \in EventsOf(copy) PROVE Outstanding(f)'
    <3>1. Outstanding(f) BY DEF EventsInv
    <3>2. f \notin done' BY <3>1, <2>4 DEF Outstanding
    <3> QED BY <3>1, <3>2, <2>4, <1>0, StaysOutstanding
  <2> QED BY <2>10, <2>11, <2>12 DEF EventsInv
<1>8. CASE WaitLoad
  <2>1. at' = at + 1 /\ UNCHANGED <<run, copy, done>>
    BY <1>8 DEF WaitLoad, Advance, Pool!ReleaseAfter
  <2> QED BY <2>1, <1>0, SameRecords
<1>9. ASSUME NEW c \in Chunks, AbortGroup(c) PROVE EventsInv'
  <2>1. UNCHANGED <<at, run, copy, done>>
    BY <1>9 DEF AbortGroup, hostVars, streamVars, poolVars, Pool!ReleaseNow, Pool!stream
  <2> QED BY <2>1, <1>0, SameRecords
<1>10. CASE ComputeStream
  <2>1. Head(compute) = compute[1] /\ 1 \in DOMAIN compute
    BY <1>10, TailOf DEF ComputeStream, ComputeInv
  <2>2. UNCHANGED <<at, run, copy>> BY <1>10 DEF ComputeStream, Execute, hostVars
  <2>3. ASSUME NEW e, e \in done', e \notin done PROVE e[1] \in {"beforeOffload", "beforeLoad"}
    <3>1. IsRecord(compute[1]) /\ e = compute[1][2]
      BY <1>10, <2>1, <2>3 DEF ComputeStream, Execute, Pool!Complete, poolVars, IsRecord
    <3> QED BY <3>1, <2>1 DEF ComputeInv
  <2> QED BY <2>2, <2>3, <1>0, SameRecords
<1>11. CASE CopyStream
  <2>1. copy # <<>> /\ copy' = Tail(copy) /\ UNCHANGED <<at, run>>
    BY <1>11 DEF CopyStream, Execute, hostVars
  <2>2. done' = done \cup (IF IsRecord(Head(copy)) THEN {Head(copy)[2]} ELSE {})
    BY <1>11 DEF CopyStream, Execute, Pool!Complete, poolVars, IsRecord
  <2>3. /\ IsSeq(copy') /\ EachOnce(copy') /\ EventsOf(copy') \subseteq EventsOf(copy)
        /\ IsRecord(Head(copy)) => Head(copy)[2] \notin EventsOf(copy')
    BY <2>1, EventsTail DEF EventsInv
  <2>4. ASSUME NEW e \in EventsOf(copy') PROVE Outstanding(e)'
    <3>1. Outstanding(e) BY <2>3 DEF EventsInv
    <3>2. e \notin done' BY <3>1, <2>2, <2>3 DEF Outstanding
    <3> QED BY <3>1, <3>2, <2>1, <1>0, StaysOutstanding
  <2> QED BY <2>3, <2>4 DEF EventsInv
<1> QED
  BY <1>1, <1>2, <1>3, <1>4, <1>5, <1>6, <1>7, <1>8, <1>9, <1>10, <1>11 DEF Next, Finished

-----------------------------------------------------------------------------
(* Queued copies, where the pool and the chunks stay as they are *)

\* The copies that are queued stay, at their place; the pool parks what it parked.
Extended == \A i \in DOMAIN copy : i \in DOMAIN copy' /\ copy'[i] = copy[i]
PoolStays == UNCHANGED <<lent, pending, event, Pool!Waited>>

\* What is recorded behind an operation remains so.
LEMMA BehindStays ==
  ASSUME NEW i, NEW e, Behind(i, e), Extended PROVE Behind(i, e)'
BY DEF Behind, Extended

\* A block remains held, whatever becomes of other chunks.
LEMMA HeldStays ==
  ASSUME NEW i, NEW c, NEW b, Held(i, c, b), Extended, b \in lent', buffer'[c] = buffer[c],
         tensor'[c] = "h2d" => tensor[c] = "h2d" /\ run' = run
  PROVE  Held(i, c, b)'
<1>1. CASE tensor'[c] = "h2d"
  <2>1. Behind(i, Event("load", c)) BY <1>1 DEF Held
  <2> DEFINE e == <<"load", c, run>>
  <2>2. Event("load", c) = e /\ Event("load", c)' = e' /\ e' = e BY <1>1 DEF Event
  <2> QED BY <2>1, <2>2, BehindStays DEF Held, Event, Behind, Extended
<1>2. CASE tensor'[c] # "h2d" BY <1>2 DEF Held
<1> QED BY <1>1, <1>2

\* A block remains parked.
LEMMA ParkedStays ==
  ASSUME NEW i, NEW b, Parked(i, b), Extended, b \in (pending \cup Pool!Waited)', event'[b] = event[b]
  PROVE  Parked(i, b)'
BY DEF Parked, Behind, Extended

\* What is asked of a copy in the stream.
Covered(i) == IsCopy(copy[i]) =>
  copy[i][2] \in Chunks /\ (Held(i, copy[i][2], copy[i][4]) \/ Parked(i, copy[i][4]))

\* Steps that leave the copies and the buffers of the chunks alone.
LEMMA Untouched ==
  ASSUME ~failed, QuietInv, Extended, PoolStays,
         \A c \in Chunks : /\ buffer'[c] = buffer[c]
                           /\ tensor'[c] = "h2d" => tensor[c] = "h2d" /\ run' = run,
         NEW i \in DOMAIN copy
  PROVE  Covered(i)'
<1> SUFFICES ASSUME IsCopy(copy[i])
             PROVE  copy[i][2] \in Chunks /\ (Held(i, copy[i][2], copy[i][4])' \/ Parked(i, copy[i][4])')
  BY DEF Covered, Extended, Held, Parked
<1>1. PICK c, b : c = copy[i][2] /\ b = copy[i][4] OBVIOUS
<1>2. c \in Chunks /\ (Held(i, c, b) \/ Parked(i, b)) BY <1>1 DEF QuietInv
<1>3. copy'[i] = copy[i] BY DEF Extended
<1>4. CASE Held(i, c, b)
  <2>1. b \in lent' BY <1>4 DEF Held, PoolStays
  <2>2. Held(i, c, b)' BY <1>2, <1>4, <2>1, HeldStays
  <2> QED BY <1>1, <1>2, <1>3, <2>2 DEF Held
<1>5. CASE Parked(i, b)
  <2>1. Parked(i, b)' BY <1>5, ParkedStays DEF Parked, PoolStays
  <2> QED BY <1>1, <1>2, <1>3, <2>1 DEF Parked
<1> QED BY <1>2, <1>4, <1>5

-----------------------------------------------------------------------------
(* Queued copies *)

\* Steps that leave the copy stream, the pool and the buffers alone.
LEMMA SameStream ==
  ASSUME ~failed, QuietInv, copy' = copy, PoolStays,
         \A c \in Chunks : /\ buffer'[c] = buffer[c]
                           /\ tensor'[c] = "h2d" => tensor[c] = "h2d" /\ run' = run
  PROVE  QuietInv'
<1>1. Extended BY DEF Extended
<1>2. \A i \in DOMAIN copy' : Covered(i)' BY <1>1, Untouched
<1> QED BY <1>2 DEF QuietInv, Covered

\* launch_load: its event follows its copy, and the copy of the offload.
LEMMA LoadQuiet == ASSUME OrdersBalanced, Lending, EventsInv, QuietInv, ~failed, LaunchLoad PROVE QuietInv'
<1> USE DEF Lending
<1>1. phase = "run" /\ at <= Len(program) /\ Step.type = "SWAP_LAUNCH_LOAD" /\ tensor[Here] = "host"
  BY Taken DEF LaunchLoad, SwapTypes
<1>2. PICK c, b, e : c = Here /\ b = buffer[c] /\ e = Event("load", c) OBVIOUS
<1>3. c \in Chunks BY <1>1, <1>2, SwapStep DEF SwapTypes
<1>4. b \in lent BY <1>1, <1>2, <1>3 DEF HeldInv
<1> DEFINE w == WaitOf(Event("beforeLoad", Here))
           x == ToDevice(c, FreeAddress, b)
           y == RecordOf(e)
<1>5. copy' = Append(Append(Append(copy, w), x), y) /\ UNCHANGED <<buffer, run>> /\ tensor' = [tensor EXCEPT ![c] = "h2d"]
  BY <1>2, Triple DEF LaunchLoad, Advance, EventsInv
<1>6. ~IsCopy(w) /\ ~IsCopy(y) /\ IsRecord(y) /\ y[2] = e /\ x[2] = c /\ x[4] = b
  BY DEF IsCopy, IsRecord, WaitOf, RecordOf, ToDevice
<1> HIDE DEF w, x, y
<1>7. DOMAIN copy' = 1..Len(copy) + 3 /\ DOMAIN copy = 1..Len(copy) /\ Len(copy) \in Nat
      /\ (\A i \in 1..Len(copy) : copy'[i] = copy[i])
      /\ copy'[Len(copy) + 1] = w /\ copy'[Len(copy) + 2] = x /\ copy'[Len(copy) + 3] = y
  <2>1. IsSeq(copy) BY DEF EventsInv
  <2>2. IsSeq(Append(copy, w)) BY <2>1, Appended
  <2> DEFINE s == Append(Append(copy, w), x)
  <2>3. IsSeq(s) /\ DOMAIN s = 1..Len(copy) + 2 /\ Len(s) = Len(copy) + 2 /\ DOMAIN copy = 1..Len(copy) /\ Len(copy) \in Nat
        /\ (\A i \in 1..Len(copy) : s[i] = copy[i]) /\ s[Len(copy) + 1] = w /\ s[Len(copy) + 2] = x
    BY <2>1, <2>2, Appended
  <2>4. copy' = Append(s, y) BY <1>5
  <2> HIDE DEF s
  <2>5. DOMAIN copy' = 1..Len(s) + 1 /\ (\A i \in 1..Len(s) : copy'[i] = s[i]) /\ copy'[Len(s) + 1] = y
    BY <2>3, <2>4, Appended
  <2> QED BY <2>3, <2>5
<1>8. Extended BY <1>7 DEF Extended
<1>9. PoolStays BY DeviceKeeps DEF LaunchLoad, PoolStays
<1>10. ASSUME NEW i \in 1..Len(copy) + 2 PROVE Behind(i, e)'
  <2>1. Len(copy) + 3 \in DOMAIN copy' /\ Len(copy) + 3 > i BY <1>7
  <2> QED BY <2>1, <1>6, <1>7 DEF Behind
<1>11. Event("load", c)' = e BY <1>2, <1>5 DEF Event
<1>12. \A d \in Chunks : d # c => tensor'[d] = tensor[d] BY <1>5 DEF HostInv
<1>13. ASSUME NEW i \in DOMAIN copy' PROVE Covered(i)'
  <2>1. CASE i \in DOMAIN copy
    <3> SUFFICES ASSUME IsCopy(copy[i]), NEW d, d = copy[i][2], NEW a, a = copy[i][4]
                 PROVE  d \in Chunks /\ (Held(i, d, a)' \/ Parked(i, a)')
      BY <2>1, <1>8 DEF Covered, Extended, Held, Parked
    <3>1. d \in Chunks /\ (Held(i, d, a) \/ Parked(i, a)) BY <2>1 DEF QuietInv
    <3>2. CASE Held(i, d, a) /\ d = c
      <4>1. a \in lent' /\ buffer'[d] = a BY <3>2, <1>5, <1>9 DEF Held, PoolStays
      <4>2. Behind(i, Event("load", d))' BY <3>2, <1>7, <1>10, <1>11, <2>1 DEF Behind
      <4> QED BY <4>1, <4>2, <3>1 DEF Held
    <3>3. CASE Held(i, d, a) /\ d # c
      <4>1. a \in lent' /\ buffer'[d] = buffer[d] BY <3>3, <1>5, <1>9 DEF Held, PoolStays
      <4>2. tensor'[d] = "h2d" => tensor[d] = "h2d" /\ run' = run BY <3>1, <3>3, <1>5, <1>12
      <4>3. Held(i, d, a)' BY <3>3, <4>1, <4>2, <1>8, HeldStays
      <4> QED BY <3>1, <4>3
    <3>4. CASE Parked(i, a)
      <4>1. Parked(i, a)' BY <3>4, <1>8, <1>9, ParkedStays DEF Parked, PoolStays
      <4> QED BY <3>1, <4>1
    <3> QED BY <3>1, <3>2, <3>3, <3>4
  <2>2. CASE i = Len(copy) + 1 BY <2>2, <1>6, <1>7 DEF Covered
  <2>3. CASE i = Len(copy) + 2
    <3>1. copy'[i][2] = c /\ copy'[i][4] = b BY <2>3, <1>6, <1>7
    <3>2. Behind(i, Event("load", c))' BY <2>3, <1>7, <1>10, <1>11 DEF Behind
    <3>3. Held(i, c, b)' BY <3>2, <1>2, <1>4, <1>5, <1>9 DEF Held, PoolStays
    <3> QED BY <3>1, <3>3, <1>3 DEF Covered, Held
  <2>4. CASE i = Len(copy) + 3 BY <2>4, <1>6, <1>7 DEF Covered
  <2> QED BY <1>7, <2>1, <2>2, <2>3, <2>4
<1> QED BY <1>13 DEF QuietInv, Covered

\* wait_load: the block goes from its chunk to the pool, behind the event of the
\* load, which follows every copy of the chunk.
LEMMA AwaitedQuiet == ASSUME OrdersBalanced, Lending, EventsInv, QuietInv, ~failed, WaitLoad PROVE QuietInv'
<1> USE DEF Lending
<1>1. phase = "run" /\ at <= Len(program) /\ Step.type = "SWAP_WAIT_LOAD" /\ tensor[Here] = "h2d"
  BY Taken DEF WaitLoad, SwapTypes
<1>2. PICK c, b, e : c = Here /\ b = buffer[c] /\ e = Event("load", c) OBVIOUS
<1>3. c \in Chunks BY <1>1, <1>2, SwapStep DEF SwapTypes
<1>4. e \in Events BY <1>1, <1>2, <1>3, RunsAssumption DEF HostInv, Event, Events
<1>5. Pool!ReleaseAfter(b, e) /\ UNCHANGED <<copy, run>>
      /\ tensor' = [tensor EXCEPT ![c] = "device"] /\ buffer' = [buffer EXCEPT ![c] = None]
  BY <1>2 DEF WaitLoad, Advance
<1>6. /\ event'[b] = e /\ b \in pending' /\ Pool!Waited' = Pool!Waited
      /\ \A d \in pending \cup Pool!Waited : d \in pending' \cup Pool!Waited /\ event'[d] = event[d]
  BY <1>4, <1>5, ReleaseAfterKeeps
<1>7. lent' = lent \ {b} BY <1>5 DEF Pool!ReleaseAfter
<1>8. Extended BY <1>5 DEF Extended
<1>9. ASSUME NEW i \in DOMAIN copy, IsCopy(copy[i]), NEW d, d = copy[i][2], NEW a, a = copy[i][4]
      PROVE  d \in Chunks /\ (Held(i, d, a)' \/ Parked(i, a)')
  <2>1. d \in Chunks /\ (Held(i, d, a) \/ Parked(i, a)) BY <1>9 DEF QuietInv
  <2>2. CASE Held(i, d, a) /\ d = c
    <3>1. a = b /\ Behind(i, e) BY <2>2, <1>1, <1>2 DEF Held
    <3>2. Behind(i, event[a])' BY <3>1, <1>5, <1>6 DEF Behind
    <3> QED BY <2>1, <3>1, <3>2, <1>6 DEF Parked
  <2>3. CASE Held(i, d, a) /\ d # c
    <3>1. a \in lent /\ buffer[d] = a BY <2>3 DEF Held
    <3>2. a # None BY <3>1, NoneAssumption DEF PoolInv
    <3>3. a # b BY <2>1, <2>3, <3>1, <3>2, <1>2, <1>3 DEF HeldInv
    <3>4. a \in lent' /\ buffer'[d] = buffer[d] BY <3>1, <3>3, <2>1, <2>3, <1>5, <1>7 DEF HostInv
    <3>5. tensor'[d] = "h2d" => tensor[d] = "h2d" /\ run' = run BY <2>1, <2>3, <1>5 DEF HostInv
    <3> QED BY <2>1, <2>3, <3>4, <3>5, <1>8, HeldStays
  <2>4. CASE Parked(i, a)
    <3>1. a \in (pending \cup Pool!Waited)' /\ event'[a] = event[a] BY <2>4, <1>6 DEF Parked
    <3> QED BY <2>1, <2>4, <3>1, <1>8, ParkedStays
  <2> QED BY <2>1, <2>2, <2>3, <2>4
<1> QED BY <1>5, <1>9 DEF QuietInv, Held, Parked

\* The copy stream executes its head: everything else moves to the front.
LEMMA CopiedQuiet == ASSUME Lending, EventsInv, QuietInv, ~failed, CopyStream PROVE QuietInv'
<1> USE DEF Lending
<1>1. copy # <<>> /\ copy' = Tail(copy) /\ UNCHANGED <<run, tensor, buffer>>
  BY DEF CopyStream, Execute, hostVars, chunkVars
<1>2. PoolStays BY DeviceKeeps DEF CopyStream, Execute, PoolStays
<1>3. /\ DOMAIN copy' = 1..Len(copy) - 1 /\ DOMAIN copy = 1..Len(copy) /\ Len(copy) \in Nat \ {0}
      /\ \A i \in 1..Len(copy) - 1 : copy'[i] = copy[i + 1]
  BY <1>1, TailOf DEF EventsInv
<1>4. ASSUME NEW i \in DOMAIN copy', NEW e, Behind(i + 1, e) PROVE Behind(i, e)'
  <2>1. PICK k \in DOMAIN copy : k > i + 1 /\ IsRecord(copy[k]) /\ copy[k][2] = e
    BY <1>4 DEF Behind
  <2>2. k - 1 \in DOMAIN copy' /\ k - 1 > i /\ copy'[k - 1] = copy[k] BY <1>3, <2>1
  <2> QED BY <2>1, <2>2 DEF Behind
<1>5. ASSUME NEW i \in DOMAIN copy', NEW j, j = i + 1, IsCopy(copy[j]), NEW d, d = copy[j][2], NEW a, a = copy[j][4]
      PROVE  d \in Chunks /\ (Held(i, d, a)' \/ Parked(i, a)')
  <2>1. j \in DOMAIN copy BY <1>3, <1>5
  <2>2. d \in Chunks /\ (Held(j, d, a) \/ Parked(j, a)) BY <1>5, <2>1 DEF QuietInv
  <2>3. CASE Held(j, d, a)
    <3>1. a \in lent' /\ buffer'[d] = a BY <2>3, <1>1, <1>2 DEF Held, PoolStays
    <3>2. ASSUME tensor'[d] = "h2d" PROVE Behind(i, Event("load", d))'
      <4>1. PICK e : e = Event("load", d) OBVIOUS
      <4>2. Behind(i, e)' BY <2>3, <3>2, <4>1, <1>1, <1>4, <1>5 DEF Held
      <4>3. Event("load", d)' = e BY <4>1, <1>1 DEF Event
      <4> QED BY <4>2, <4>3 DEF Behind
    <3> QED BY <2>2, <3>1, <3>2 DEF Held
  <2>4. CASE Parked(j, a)
    <3>1. PICK e : e = event[a] OBVIOUS
    <3>2. Behind(i, e)' BY <2>4, <3>1, <1>4, <1>5 DEF Parked
    <3>3. event'[a] = e /\ a \in (pending \cup Pool!Waited)'
      BY <2>4, <3>1, <1>2 DEF Parked, PoolStays
    <3>4. Behind(i, event[a])' BY <3>2, <3>3 DEF Behind
    <3> QED BY <2>2, <3>3, <3>4 DEF Parked
  <2> QED BY <2>2, <2>3, <2>4
<1>6. ASSUME NEW i \in DOMAIN copy' PROVE Covered(i)'
  <2>1. copy'[i] = copy[i + 1] BY <1>3, <1>6
  <2> QED BY <2>1, <1>5, <1>6 DEF Covered, Held, Parked
<1> QED BY <1>6 DEF QuietInv, Covered

\* Every step keeps the queued copies on blocks nobody else may touch.
LEMMA NextQuiet == ASSUME OrdersBalanced, Lending, PlanInv, EventsInv, QuietInv, [Next]_vars PROVE QuietInv'
<1> USE DEF Lending
<1> SUFFICES ASSUME ~failed' PROVE QuietInv' BY DEF QuietInv
<1>0. ~failed
  BY
  DEF Next, vars, hostVars, setup, BeginRun, Forward, Backward, Raises, Shard, LaunchOffload,
      AcquireBuffer, Offload,
         WaitOffload, LaunchLoad, WaitLoad, Close, AbortGroup, EndRun, ComputeStream,
             CopyStream, Execute, Finished, Advance
<1>1. CASE BeginRun
  <2>1. UNCHANGED <<copy, buffer, tensor>> /\ PoolStays
    BY <1>1, DeviceKeeps DEF BeginRun, chunkVars, streamVars, PoolStays
  <2>2. \A c \in Chunks : tensor[c] = "none" BY <1>1 DEF BeginRun, HeldInv
  <2> QED BY <1>0, <2>1, <2>2, SameStream
<1>2. CASE Forward \/ Backward \/ Shard \/ WaitOffload
  <2>1. UNCHANGED <<copy, buffer, run>> /\ UNCHANGED poolVars
    BY <1>2 DEF Forward, Backward, Shard, WaitOffload, Advance, chunkVars, streamVars
  <2>2. PoolStays BY <2>1, DeviceKeeps DEF PoolStays
  <2>3. \A c \in Chunks : tensor'[c] = "h2d" => tensor[c] = "h2d"
    BY <1>2 DEF Forward, Backward, Shard, WaitOffload, chunkVars, HostInv
  <2> QED BY <1>0, <2>1, <2>2, <2>3, SameStream
<1>3. CASE Close \/ EndRun \/ ComputeStream \/ UNCHANGED vars
  <2>1. UNCHANGED <<copy, buffer, run>>
    BY <1>3 DEF Close, EndRun, ComputeStream, Execute, vars, hostVars, chunkVars, streamVars
  <2>2. \A c \in Chunks : tensor'[c] = "h2d" => tensor[c] = "h2d"
    BY <1>3 DEF Close, EndRun, ComputeStream, Execute, vars, chunkVars
  <2>3. PoolStays
    BY <1>3, DeviceKeeps DEF Close, EndRun, ComputeStream, Execute, vars, PoolStays
  <2> QED BY <1>0, <2>1, <2>2, <2>3, SameStream
<1>4. CASE Raises BY <1>4 DEF Raises
<1>5. CASE LaunchOffload
  <2> DEFINE w == WaitOf(Event("beforeOffload", Here))
  <2>1. copy' = Append(copy, w) /\ UNCHANGED <<buffer, tensor, run>>
    BY <1>5 DEF LaunchOffload
  <2>2. PoolStays BY <1>5, DeviceKeeps DEF LaunchOffload, PoolStays
  <2>3. ~IsCopy(w) BY DEF IsCopy, WaitOf
  <2> HIDE DEF w
  <2>4. DOMAIN copy' = 1..Len(copy) + 1 /\ DOMAIN copy = 1..Len(copy) /\ Len(copy) \in Nat
        /\ (\A i \in 1..Len(copy) : copy'[i] = copy[i]) /\ copy'[Len(copy) + 1] = w
    BY <2>1, Appended DEF EventsInv
  <2>5. Extended BY <2>4 DEF Extended
  <2>6. \A i \in DOMAIN copy : Covered(i)' BY <1>0, <2>1, <2>2, <2>5, Untouched
  <2>8. \A i \in DOMAIN copy' : i \in DOMAIN copy \/ i = Len(copy) + 1 BY <2>4
  <2>9. \A i \in DOMAIN copy' : Covered(i)' 
    <3> TAKE i \in DOMAIN copy'
    <3>1. CASE i \in DOMAIN copy BY <3>1, <2>6
    <3>2. CASE i = Len(copy) + 1 BY <3>2, <2>3, <2>4 DEF Covered
    <3> QED BY <3>1, <3>2, <2>8
  <2> QED BY <2>9 DEF QuietInv, Covered
<1>6. CASE AcquireBuffer
  <2>1. UNCHANGED <<copy, run, tensor>> /\ phase = "acquire" /\ Outcome
    BY <1>6, AcquireKeeps, ResumeKeeps DEF AcquireBuffer, streamVars
  <2>2. at <= Len(program) /\ Step.type = "SWAP_LAUNCH_OFFLOAD" /\ tensor[Here] = "device"
    BY <2>1 DEF AcquireInv
  <2>3. Here \in Chunks BY <2>2, SwapStep DEF SwapTypes
  <2>4. buffer[Here] = None BY <2>1, <2>2, <2>3 DEF HeldInv
  <2>5. \A c \in Chunks : c # Here => buffer'[c] = buffer[c] BY <1>6 DEF AcquireBuffer, HostInv
  <2>6. lent \subseteq lent' /\ None \notin lent BY <2>1, NoneAssumption DEF Outcome, PoolInv
  <2>7. Extended BY <2>1 DEF Extended
  <2>8. ASSUME NEW i \in DOMAIN copy, IsCopy(copy[i]), NEW c, c = copy[i][2], NEW b, b = copy[i][4]
        PROVE  c \in Chunks /\ (Held(i, c, b)' \/ Parked(i, b)')
    <3>1. c \in Chunks /\ (Held(i, c, b) \/ Parked(i, b)) BY <1>0, <2>8 DEF QuietInv
    <3>2. CASE Held(i, c, b)
      <4>1. b \in lent /\ buffer[c] = b BY <3>2 DEF Held
      <4>2. c # Here BY <4>1, <2>4, <2>6
      <4> QED BY <3>1, <3>2, <4>1, <4>2, <2>1, <2>5, <2>6, <2>7, HeldStays
    <3>3. CASE Parked(i, b)
      <4>1. PICK k \in DOMAIN copy : k > i /\ IsRecord(copy[k]) /\ copy[k][2] = event[b]
        BY <3>3 DEF Parked, Behind
      <4>2. event[b] \in EventsOf(copy) BY <4>1 DEF EventsOf, Recording
      <4>3. event[b] \notin done BY <4>2 DEF EventsInv, Outstanding
      <4>4. b \in (pending \cup Pool!Waited)' /\ event'[b] = event[b]
        BY <3>3, <4>3, <2>1 DEF Parked, Outcome
      <4> QED BY <3>1, <3>3, <4>4, <2>7, ParkedStays
    <3> QED BY <3>1, <3>2, <3>3
  <2> QED BY <2>1, <2>8 DEF QuietInv, Held, Parked
<1>7. CASE Offload
  <2> DEFINE x == ToHost(Here, home[Here], buffer[Here])
             y == RecordOf(Event("offload", Here))
  <2>1. copy' = Append(Append(copy, x), y) /\ UNCHANGED <<buffer, run>> /\ tensor' = [tensor EXCEPT ![Here] = "d2h"]
    BY <1>7, Pair DEF Offload, EventsInv
  <2>2. PoolStays BY <1>7, DeviceKeeps DEF Offload, PoolStays
  <2>3. ~IsCopy(y) /\ x[2] = Here /\ x[4] = buffer[Here] BY DEF IsCopy, RecordOf, ToHost
  <2>4. Here \in Chunks /\ buffer[Here] # None
    BY <1>7, SwapStep DEF Offload, AcquireInv, SwapTypes
  <2>5. buffer[Here] \in lent BY <2>4 DEF HeldInv
  <2> HIDE DEF x, y
  <2>6. DOMAIN copy' = 1..Len(copy) + 2 /\ DOMAIN copy = 1..Len(copy) /\ Len(copy) \in Nat
        /\ (\A i \in 1..Len(copy) : copy'[i] = copy[i]) /\ copy'[Len(copy) + 1] = x /\ copy'[Len(copy) + 2] = y
    <3>1. IsSeq(copy) BY DEF EventsInv
    <3>2. IsSeq(Append(copy, x)) BY <3>1, Appended
    <3> QED BY <2>1, <3>1, <3>2, Appended
  <2>7. Extended BY <2>6 DEF Extended
  <2>8. \A c \in Chunks : buffer'[c] = buffer[c] /\ (tensor'[c] = "h2d" => tensor[c] = "h2d" /\ run' = run)
    BY <2>1 DEF HostInv
  <2>9. ASSUME NEW i \in DOMAIN copy' PROVE Covered(i)'
    <3>1. CASE i \in DOMAIN copy BY <3>1, <1>0, <2>2, <2>7, <2>8, Untouched
    <3>2. CASE i = Len(copy) + 1
      <4>1. tensor'[Here] = "d2h" BY <2>1, <2>4 DEF HostInv
      <4>2. PICK c, b : c = Here /\ b = buffer[Here] OBVIOUS
      <4>3. copy'[i][2] = c /\ copy'[i][4] = b BY <3>2, <2>3, <2>6, <4>2
      <4>4. Held(i, c, b)' BY <4>1, <4>2, <2>1, <2>2, <2>5 DEF Held, PoolStays
      <4> QED BY <4>2, <4>3, <4>4, <2>4 DEF Covered, Held
    <3>3. CASE i = Len(copy) + 2 BY <3>3, <2>3, <2>6 DEF Covered
    <3>4. i \in DOMAIN copy \/ i = Len(copy) + 1 \/ i = Len(copy) + 2 BY <2>6
    <3> QED BY <3>1, <3>2, <3>3, <3>4
  <2> QED BY <2>9 DEF QuietInv, Covered
<1>8. CASE LaunchLoad BY <1>0, <1>8, LoadQuiet
<1>9. CASE WaitLoad BY <1>0, <1>9, AwaitedQuiet
<1>10. ASSUME NEW c \in Chunks, AbortGroup(c) PROVE QuietInv'
  <2>1. phase = "closing" /\ UNCHANGED <<copy, tensor, run>>
    BY <1>10 DEF AbortGroup, hostVars, streamVars
  <2>2. buffer[c] = None BY <1>0, <2>1, NothingHeld
  <2>3. UNCHANGED poolVars /\ buffer' = buffer BY <1>10, <2>2 DEF AbortGroup, HostInv
  <2>4. PoolStays BY <2>3, DeviceKeeps DEF PoolStays
  <2> QED BY <1>0, <2>1, <2>3, <2>4, SameStream
<1>11. CASE CopyStream BY <1>0, <1>11, CopiedQuiet
<1> QED BY <1>1, <1>2, <1>3, <1>4, <1>5, <1>6, <1>7, <1>8, <1>9, <1>10, <1>11 DEF Next, Finished

\* Nothing is enqueued at the start.
LEMMA InitStreams == Init => Streams
<1> SUFFICES ASSUME Init PROVE Streams OBVIOUS
<1>1. compute = <<>> /\ copy = <<>> /\ phase = "idle" BY DEF Init
<1>2. IsSeq(compute) /\ IsSeq(copy) /\ DOMAIN compute = {} /\ DOMAIN copy = {}
  <2>1. <<>> \in Seq({}) OBVIOUS
  <2> QED BY <1>1, <2>1 DEF IsSeq
<1>3. PlanInv BY <1>1 DEF Init, PlanInv
<1>4. ComputeInv /\ EventsInv BY <1>2 DEF ComputeInv, EventsInv, EachOnce, EventsOf, Recording
<1>5. QuietInv BY <1>2 DEF QuietInv
<1> QED BY <1>3, <1>4, <1>5 DEF Streams

\* What is enqueued, and what the host holds, is an invariant.
LEMMA StreamsInvariant == ASSUME OrdersBalanced PROVE Spec => [](Lending /\ Streams)
<1>1. Init => Lending /\ Streams BY InitLending, InitStreams
<1>2. Lending /\ Streams /\ [Next]_vars => (Lending /\ Streams)'
  BY NextLending, NextPlan, NextCompute, NextEvents, NextQuiet DEF Streams
<1> QED BY <1>1, <1>2, PTL DEF Spec

\* An event that the copy stream still records is not done.
LEMMA QuietSuffices == ASSUME Streams PROVE HostBuffersQuiet
<1> SUFFICES ASSUME ~failed, NEW i \in DOMAIN copy, IsCopy(copy[i])
             PROVE  \/ copy[i][4] \in lent /\ buffer[copy[i][2]] = copy[i][4]
                    \/ copy[i][4] \in pending \cup Pool!Waited /\ event[copy[i][4]] \notin done
  BY DEF HostBuffersQuiet, BuffersQuiet, IsCopy
<1> DEFINE b == copy[i][4]
<1>1. Held(i, copy[i][2], b) \/ Parked(i, b) BY DEF Streams, QuietInv
<1>2. ASSUME Parked(i, b) PROVE event[b] \notin done
  <2>1. event[b] \in EventsOf(copy) BY <1>2 DEF Parked, Behind, EventsOf, Recording
  <2> QED BY <2>1 DEF Streams, EventsInv, Outstanding
<1> QED BY <1>1, <1>2 DEF Held, Parked

\* In histories without a failed run, the pool lends no block to another chunk
\* while a copy from or to it is still queued, however far the streams are behind
\* the host.  Nothing is said once a run has failed: abort_group gives back the
\* buffers of transfers it does not wait for (BuffersQuiet is violated then).
THEOREM HostBuffersStayQuiet == ASSUME OrdersBalanced PROVE Spec => []HostBuffersQuiet
BY QuietSuffices, StreamsInvariant, PTL

=============================================================================
