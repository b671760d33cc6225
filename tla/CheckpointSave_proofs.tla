------------------------ MODULE CheckpointSave_proofs ------------------------
(***************************************************************************)
(* Theorems about CheckpointSave for every set of ranks, every cadence and *)
(* limit, any number of training steps and restarts.                       *)
(*                                                                         *)
(* All of this is over the directories as an interrupted job left them.    *)
(*                                                                         *)
(* First, types, and that two saves never overlap.  SavesNeverOverlap is   *)
(* not inductive: nothing in it says why a new save cannot start beside an *)
(* old one.  A rank that waited has no child left (Saves), so that nobody  *)
(* has one behind the barrier, and a save that is in flight writes, on     *)
(* every rank, the step at which the other ranks are about to dispatch     *)
(* theirs (OneSave).  A save in place keeps the loop, a save in the        *)
(* background the future (Saves), and the targets follow the step last     *)
(* saved (Targets).                                                        *)
(*                                                                         *)
(* Then what becomes durable (DurableInv): the checkpoint the latest       *)
(* pointer names is whole or has mixed metadata, rotation deletes neither  *)
(* it nor what is being written, what a future says of a save is true, and *)
(* the job goes back to a checkpoint that only saves of later steps        *)
(* replace (CheckpointStore).  Until the first restart, and in a job that  *)
(* saves in place, the pointer names whole checkpoints only.               *)
(***************************************************************************)
EXTENDS CheckpointSave, FiniteSetTheorems, WellFoundedInduction, TLAPS

----------------------------------------------------------------------------
(***************************************************************************)
(* Least and greatest elements of sets of naturals.                        *)
(***************************************************************************)
\* A nonempty set of naturals has a least element.
LEMMA LeastElement ==
  ASSUME NEW T \in SUBSET Nat, T # {} PROVE \E x \in T : \A y \in T : x <= y
<1> DEFINE R == {p \in Nat \X Nat : p[1] < p[2]}
<1>1. PICK x \in T : \A y \in T : ~(<<y, x>> \in R)
  <2>1. IsWellFoundedOn(R, Nat)
    BY NatLessThanWellFounded DEF OpToRel
  <2> HIDE DEF R
  <2> QED BY <2>1, WFMin
<1>2. ASSUME NEW y \in T, y < x PROVE FALSE
  <2>1. <<y, x>> \in R
    BY <1>2
  <2> HIDE DEF R
  <2> QED BY <1>1, <2>1
<1>3. \A y \in T : x <= y
  BY <1>2
<1> QED BY <1>3

\* A nonempty bounded set of naturals has a greatest element.
LEMMA GreatestElement ==
  ASSUME NEW T \in SUBSET Nat, NEW bound \in Nat, T # {}, \A x \in T : x <= bound
  PROVE  \E x \in T : \A y \in T : y <= x
<1> DEFINE Gap == {n \in Nat : bound - n \in T}
<1>1. PICK z \in T : TRUE
  OBVIOUS
<1>2. bound - z \in Gap
  BY <1>1
<1>3. PICK n \in Gap : \A m \in Gap : n <= m
  <2>1. Gap \in SUBSET Nat /\ Gap # {}
    BY <1>2
  <2> HIDE DEF Gap
  <2> QED BY <2>1, LeastElement
<1>4. bound - n \in T
  OBVIOUS
<1>5. \A y \in T : y <= bound - n
  <2> TAKE y \in T
  <2>1. bound - y \in Gap /\ y \in Nat /\ n \in Nat
    OBVIOUS
  <2>2. n <= bound - y
    BY <1>3, <2>1
  <2> HIDE DEF Gap
  <2> QED BY <2>1, <2>2
<1> QED BY <1>4, <1>5

----------------------------------------------------------------------------
(***************************************************************************)
(* Saves never overlap.                                                    *)
(***************************************************************************)
SaveSteps == Cadence \cup {MaxStep}

InPlace == {"saving", "publish", "saved"}
Unsaved == {"wait", "prune", "barrier", "dispatch"} \cup InPlace
Waited  == {"prune", "barrier", "dispatch", "trim", "final", "done", "down"}
           \cup InPlace

Directories == [plan : [Ranks -> Files], shard : [Ranks -> Files],
                result : [Ranks -> Files], meta : Files \cup {Mixed}]

\* A save of rank r that nobody has taken the result of.
InFlight(r) == joiner[r] # "none" \/ parent[r] = "saving"

\* The ranks are at one step, and are stopped together.
Together == \A r, q \in Ranks :
  at[r] = at[q] /\ (parent[r] = "down" => parent[q] = "down")

\* Where a rank stands says how far it is, and what it has saved.
Place(r) ==
  /\ parent[r] = "step" => at[r] < MaxStep
  /\ parent[r] \notin {"step", "down"} => at[r] >= 1
  /\ parent[r] = "last" => at[r] = MaxStep
  /\ last[r] <= at[r]
  /\ parent[r] \in Unsaved => last[r] < at[r] /\ at[r] \in SaveSteps

\* The loop, the writer and the thread of one rank.
Save(r) ==
  /\ future[r] = "pending" <=> joiner[r] # "none"
  /\ parent[r] \in Waited => future[r] = "none"
  /\ Writing(r) => InFlight(r)
  /\ joiner[r] \in {"again", "callback", "resolve"} => writer[r] = "exited"
  /\ joiner[r] \in {"callback", "resolve"} => outcome[r] = "ok"
  /\ joiner[r] = "callback" => r = 0
  /\ outcome[r] # "none" => writer[r] \in {"exiting", "exited"}
  /\ writer[r] = "exiting" => outcome[r] = "ok"
  /\ future[r] = "failed" => outcome[r] # "ok"

\* The directory that rank r writes, or wrote last.
Target(r) ==
  /\ InFlight(r) => target[r] \in Steps
  /\ joiner[r] # "none" => target[r] = last[r]
  /\ parent[r] \in InPlace => target[r] = at[r]
  /\ parent[r] \notin InPlace => target[r] = 0 \/ target[r] <= last[r]
  /\ parent[r] = "down" => target[r] = 0

Places  == \A r \in Ranks : Place(r)
Saves   == \A r \in Ranks : Save(r)
Targets == \A r \in Ranks : Target(r)

\* A save in flight is the one that the other ranks write or dispatch.
OneSave == \A r, q \in Ranks : InFlight(r) =>
  /\ InFlight(q) => target[r] = target[q]
  /\ parent[q] = "dispatch" => target[r] = at[r]

\* Rank 0 stays with a deletion it has begun.
Rotation == victim # 0 => parent[0] \in Rotating

Processes == Together /\ Places /\ Saves /\ Targets /\ OneSave
SafeInv == TypeOK /\ Processes /\ Rotation

----------------------------------------------------------------------------
\* Facts about the constants.
LEMMA Constants == /\ 0 \in Ranks /\ MaxStep \in Nat \ {0} /\ MaxJobs \in Nat \ {0}
                   /\ Steps \subseteq Nat /\ SaveSteps \subseteq Steps
<1>1. 0 \in Ranks /\ MaxStep \in Nat \ {0} /\ MaxJobs \in Nat \ {0}
  BY RankAssumption, BoundAssumption
<1>2. Steps \subseteq Nat /\ MaxStep \in Steps /\ Cadence \subseteq Steps
  BY <1>1, RankAssumption DEF Steps
<1> QED BY <1>1, <1>2 DEF SaveSteps

\* The oldest of some steps is one of them.
LEMMA OldestIs == ASSUME NEW S \in SUBSET Steps, S # {}
                  PROVE  Oldest(S) \in S /\ \A t \in S : Oldest(S) <= t
<1>1. \E x \in S : \A y \in S : x <= y
  BY Constants, LeastElement
<1> QED BY <1>1 DEF Oldest

\* The newest of some steps is one of them.
LEMMA NewestIs == ASSUME NEW S \in SUBSET Steps, S # {}
                  PROVE  Newest(S) \in S /\ \A t \in S : t <= Newest(S)
<1>1. S \in SUBSET Nat /\ MaxStep \in Nat /\ \A x \in S : x <= MaxStep
  BY Constants DEF Steps
<1>2. \E x \in S : \A y \in S : y <= x
  BY <1>1, GreatestElement
<1> QED BY <1>2 DEF Newest

\* The checkpoint to resume from is one of the steps, if there is any.
LEMMA LatestIs == FindLatest \in 0 .. MaxStep
<1>1. Listed \in SUBSET Steps
  BY DEF Listed
<1>2. Listed # {} => Newest(Listed) \in Listed
  BY <1>1, NewestIs
<1>3. FindLatest \in {0} \cup Listed
  BY <1>2 DEF FindLatest
<1> QED BY <1>1, <1>3, Constants DEF Steps

\* Writing a file of a rank leaves the directories directories.
LEMMA FileTyped ==
  ASSUME TypeOK, NEW s, NEW kind \in {"plan", "shard", "result"}, NEW r \in Ranks,
         NEW file \in {Absent, Torn, job}
  PROVE  [dir EXCEPT ![s][kind][r] = file] \in [Steps -> Directories]
<1>1. dir \in [Steps -> Directories] /\ file \in Files
  BY DEF TypeOK, Directories, Files, Jobs
<1> QED BY <1>1 DEF Directories

\* The invariant holds initially.
LEMMA InitSafe == Init => SafeInv
<1> SUFFICES ASSUME Init PROVE SafeInv
  OBVIOUS
<1>1. TypeOK
  <2>1. EmptyDir \in Directories
    BY DEF EmptyDir, NoFiles, Directories, Files
  <2>2. dir \in [Steps -> Directories]
    BY <2>1 DEF Init
  <2>3. stale \in BOOLEAN /\ isAsync \in BOOLEAN
    BY DEF Init
  <2> QED
    BY <2>2, <2>3, Constants DEF Init, TypeOK, Directories, All, Absent, Jobs
<1>2. Processes /\ Rotation
  BY Constants DEF Init, Processes, Rotation, Together, Places, Place, Saves, Save,
     Targets, Target, OneSave, InFlight, Writing, All, Unsaved, InPlace, Waited
<1> QED BY <1>1, <1>2 DEF SafeInv

----------------------------------------------------------------------------
(***************************************************************************)
(* Steps of the writers change nothing else of the processes.              *)
(***************************************************************************)
WriterMoved(r) ==
  \/ writer'[r] = writer[r] /\ outcome'[r] = outcome[r]
  \/ /\ Writing(r) /\ writer'[r] # "none"
     /\ writer'[r] = "exiting" => outcome'[r] = "ok"
     /\ outcome'[r] # "none" => writer'[r] \in {"exiting", "exited"}

LEMMA WritersKeep ==
  ASSUME TypeOK, Processes, Rotation, \A r \in Ranks : WriterMoved(r),
         UNCHANGED <<parent, at, last, target, joiner, future, victim>>
  PROVE  Processes' /\ Rotation'
<1>1. Together' /\ Places'
  BY DEF Processes, Together, Places, Place
<1>2. Saves'
  <2> SUFFICES ASSUME NEW r \in Ranks PROVE Save(r)'
    BY DEF Saves
  <2>1. CASE writer'[r] = writer[r] /\ outcome'[r] = outcome[r]
    BY <2>1 DEF Processes, Saves, Save, Writing, InFlight
  <2>2. CASE Writing(r) /\ WriterMoved(r)
    <3>1. InFlight(r)
      BY <2>2 DEF Processes, Saves, Save
    <3>2. future[r] \in {"pending", "none"}
      BY <3>1 DEF Processes, Saves, Save, InFlight, Waited, InPlace
    <3> QED
      BY <2>2, <3>1, <3>2 DEF Processes, Saves, Save, Writing, InFlight, WriterMoved
  <2> QED BY <2>1, <2>2 DEF WriterMoved
<1>3. Targets' /\ OneSave'
  BY DEF Processes, Targets, Target, OneSave, InFlight
<1>4. Rotation'
  BY DEF Rotation
<1> QED BY <1>1, <1>2, <1>3, <1>4 DEF Processes

\* The writer of one rank.
LEMMA WriteSafe == ASSUME SafeInv, NEW r \in Ranks, Write(r) PROVE SafeInv'
<1>0. \A p \in Ranks : outcome[p] # "none" => writer[p] \in {"exiting", "exited"}
  BY DEF SafeInv, Processes, Saves, Save
<1>1. CASE UseCache(r)
  <2>1. TypeOK'
    BY <1>1, Constants
    DEF SafeInv, TypeOK, UseCache, Step, Files, Absent, Torn, loop, joining, disk
  <2>2. \A p \in Ranks : WriterMoved(p)
    BY <1>0, <1>1 DEF SafeInv, TypeOK, WriterMoved, Writing, UseCache, Step
  <2> QED
    BY <1>1, <2>1, <2>2, WritersKeep DEF SafeInv, UseCache, Step, loop, joining, disk
<1>2. CASE WritePlan(r)
  <2>1. TypeOK'
    <3>1. dir' \in [Steps -> Directories]
      BY <1>2, FileTyped DEF SafeInv, TypeOK, WritePlan, Close, Step, OnDisk
    <3> QED
      BY <1>2, <3>1
      DEF SafeInv, TypeOK, Directories, WritePlan, Close, Step, OnDisk, loop, joining
  <2>2. \A p \in Ranks : WriterMoved(p)
    BY <1>0, <1>2
    DEF SafeInv, TypeOK, WriterMoved, Writing, WritePlan, Close, Step, OnDisk
  <2> QED
    BY <1>2, <2>1, <2>2, WritersKeep
    DEF SafeInv, WritePlan, Close, Step, OnDisk, loop, joining, disk
<1>3. CASE \E q \in Ranks : ReadPlan(r, q)
  <2>1. TypeOK'
    BY <1>3, Constants, SMTT(30)
    DEF SafeInv, TypeOK, ReadPlan, Step, Files, Absent, Torn, loop, joining, disk
  <2>2. \A p \in Ranks : WriterMoved(p)
    BY <1>0, <1>3 DEF SafeInv, TypeOK, WriterMoved, Writing, ReadPlan, Step
  <2> QED
    BY <1>3, <2>1, <2>2, WritersKeep DEF SafeInv, ReadPlan, Step, loop, joining, disk
<1>4. CASE OpenShard(r)
  <2>1. TypeOK'
    <3>1. dir' \in [Steps -> Directories]
      BY <1>4, FileTyped DEF SafeInv, TypeOK, OpenShard, Open, Step, OnDisk
    <3> QED
      BY <1>4, <3>1
      DEF SafeInv, TypeOK, Directories, OpenShard, Open, Step, OnDisk, loop, joining
  <2>2. \A p \in Ranks : WriterMoved(p)
    BY <1>0, <1>4 DEF SafeInv, TypeOK, WriterMoved, Writing, OpenShard, Open, Step, OnDisk
  <2> QED
    BY <1>4, <2>1, <2>2, WritersKeep
    DEF SafeInv, OpenShard, Open, Step, OnDisk, loop, joining, disk
<1>5. CASE CloseShard(r)
  <2>1. TypeOK'
    <3>1. dir' \in [Steps -> Directories]
      BY <1>5, FileTyped DEF SafeInv, TypeOK, CloseShard, Close, Step, OnDisk
    <3> QED
      BY <1>5, <3>1
      DEF SafeInv, TypeOK, Directories, CloseShard, Close, Step, OnDisk, loop, joining
  <2>2. \A p \in Ranks : WriterMoved(p)
    BY <1>0, <1>5
    DEF SafeInv, TypeOK, WriterMoved, Writing, CloseShard, Close, Step, OnDisk
  <2> QED
    BY <1>5, <2>1, <2>2, WritersKeep
    DEF SafeInv, CloseShard, Close, Step, OnDisk, loop, joining, disk
<1>6. CASE OpenResult(r)
  <2>1. TypeOK'
    <3>1. dir' \in [Steps -> Directories]
      BY <1>6, FileTyped DEF SafeInv, TypeOK, OpenResult, Open, Step, OnDisk
    <3> QED
      BY <1>6, <3>1
      DEF SafeInv, TypeOK, Directories, OpenResult, Open, Step, OnDisk, loop, joining
  <2>2. \A p \in Ranks : WriterMoved(p)
    BY <1>0, <1>6
    DEF SafeInv, TypeOK, WriterMoved, Writing, OpenResult, Open, Step, OnDisk
  <2> QED
    BY <1>6, <2>1, <2>2, WritersKeep
    DEF SafeInv, OpenResult, Open, Step, OnDisk, loop, joining, disk
<1>7. CASE CloseResult(r)
  <2>1. TypeOK'
    <3>1. dir' \in [Steps -> Directories]
      BY <1>7, FileTyped DEF SafeInv, TypeOK, CloseResult, Close, Step, OnDisk
    <3> QED
      BY <1>7, <3>1
      DEF SafeInv, TypeOK, Directories, CloseResult, Close, Step, OnDisk, loop, joining
  <2>2. \A p \in Ranks : WriterMoved(p)
    BY <1>0, <1>7
    DEF SafeInv, TypeOK, WriterMoved, Writing, CloseResult, Close, Step, OnDisk
  <2> QED
    BY <1>7, <2>1, <2>2, WritersKeep
    DEF SafeInv, CloseResult, Close, Step, OnDisk, loop, joining, disk
<1>8. CASE Report(r)
  <2>1. TypeOK'
    BY <1>8, Constants
    DEF SafeInv, TypeOK, Report, Step, Files, Absent, Torn, loop, joining, disk
  <2>2. \A p \in Ranks : WriterMoved(p)
    BY <1>0, <1>8 DEF SafeInv, TypeOK, WriterMoved, Writing, Report, Step
  <2> QED
    BY <1>8, <2>1, <2>2, WritersKeep DEF SafeInv, Report, Step, loop, joining, disk
<1>9. CASE Exit(r)
  <2>1. TypeOK'
    BY <1>9, Constants
    DEF SafeInv, TypeOK, Exit, Step, Files, Absent, Torn, loop, joining, disk
  <2>2. \A p \in Ranks : WriterMoved(p)
    BY <1>0, <1>9 DEF SafeInv, TypeOK, WriterMoved, Writing, Exit, Step
  <2> QED
    BY <1>9, <2>1, <2>2, WritersKeep DEF SafeInv, Exit, Step, loop, joining, disk
<1>10. CASE ReadTimeout(r)
  <2>1. TypeOK'
    BY <1>10, Constants
    DEF SafeInv, TypeOK, ReadTimeout, Files, Absent, Torn, loop, joining, disk
  <2>2. \A p \in Ranks : WriterMoved(p)
    BY <1>0, <1>10 DEF SafeInv, TypeOK, WriterMoved, Writing, ReadTimeout
  <2> QED
    BY <1>10, <2>1, <2>2, WritersKeep DEF SafeInv, ReadTimeout, loop, joining, disk
<1> QED
  BY <1>1, <1>2, <1>3, <1>4, <1>5, <1>6, <1>7, <1>8, <1>9, <1>10 DEF Write

\* A child that fails.
LEMMA ChildFailsSafe == ASSUME SafeInv, NEW r \in Ranks, ChildFails(r) PROVE SafeInv'
<1>1. TypeOK'
  BY DEF SafeInv, TypeOK, ChildFails, loop, joining, disk
<1>2. \A p \in Ranks : WriterMoved(p)
  BY DEF SafeInv, TypeOK, WriterMoved, Writing, ChildFails
<1> QED BY <1>1, <1>2, WritersKeep DEF SafeInv, ChildFails, loop, joining, disk

\* Steps of the writers together, and of the coordinator.
LEMMA WriteAllSafe == ASSUME SafeInv, WriteAll PROVE SafeInv'
<1>0. \A p \in Ranks : outcome[p] # "none" => writer[p] \in {"exiting", "exited"}
  BY DEF SafeInv, Processes, Saves, Save
<1>1. CASE GatherPlans
  <2>1. TypeOK'
    BY <1>1, Constants
    DEF SafeInv, TypeOK, GatherPlans, All, Files, Absent, Torn, loop, joining, disk
  <2>2. \A p \in Ranks : WriterMoved(p)
    BY <1>0, <1>1 DEF SafeInv, TypeOK, WriterMoved, Writing, GatherPlans, All
  <2> QED
    BY <1>1, <2>1, <2>2, WritersKeep DEF SafeInv, GatherPlans, All, loop, joining, disk
<1>2. CASE GatherResults
  <2>1. TypeOK'
    BY <1>2, Constants
    DEF SafeInv, TypeOK, GatherResults, All, Files, Absent, Torn, loop, joining, disk
  <2>2. \A p \in Ranks : WriterMoved(p)
    BY <1>0, <1>2 DEF SafeInv, TypeOK, WriterMoved, Writing, GatherResults, All
  <2> QED
    BY <1>2, <2>1, <2>2, WritersKeep DEF SafeInv, GatherResults, All, loop, joining, disk
<1>3. CASE \E q \in Ranks : ReadResult(q)
  <2>0. PICK q \in Ranks : ReadResult(q)
    BY <1>3
  <2>1. TypeOK'
    <3>1. \/ /\ got' = [got EXCEPT ![0] = {}]
             /\ writer' = [writer EXCEPT ![0] = "meta"]
          \/ /\ got' = [got EXCEPT ![0] = got[0] \cup {q}]
             /\ writer' = writer
      BY <2>0, Constants DEF SafeInv, TypeOK, ReadResult, Step
    <3>2. dir' = [dir EXCEPT ![target[0]].result[q] = Absent]
      BY <2>0 DEF ReadResult
    <3>3. dir' \in [Steps -> Directories]
      BY <3>2, FileTyped DEF SafeInv
    <3>4. /\ UNCHANGED <<isAsync, job, parent, at, last, target, outcome, joiner,
                         future, cache, pointer, victim>>
          /\ stale' \in BOOLEAN
      BY <2>0 DEF ReadResult, loop, joining, SafeInv, TypeOK
    <3> QED
      BY <3>1, <3>3, <3>4, Constants DEF SafeInv, TypeOK, Directories
  <2>2. \A p \in Ranks : WriterMoved(p)
    BY <1>0, <1>3 DEF SafeInv, TypeOK, WriterMoved, Writing, ReadResult, Step
  <2> QED
    BY <1>3, <2>1, <2>2, WritersKeep DEF SafeInv, ReadResult, Step, loop, joining, disk
<1>4. CASE OpenMeta
  <2>1. TypeOK'
    <3>1. /\ writer' = [writer EXCEPT ![0] = "describing"]
          /\ dir' = [dir EXCEPT ![target[0]].meta = Torn]
          /\ UNCHANGED <<isAsync, job, parent, at, last, target, got, stale, outcome, joiner,
                         future, cache, pointer, victim>>
      BY <1>4 DEF OpenMeta, Step, OnDisk, loop, joining
    <3>2. dir \in [Steps -> Directories] /\ Torn \in Files
      BY DEF SafeInv, TypeOK, Directories, Files
    <3>3. dir' \in [Steps -> Directories]
      BY <3>1, <3>2 DEF Directories
    <3> QED
      BY <3>1, <3>3, Constants DEF SafeInv, TypeOK, Directories
  <2>2. \A p \in Ranks : WriterMoved(p)
    BY <1>0, <1>4 DEF SafeInv, TypeOK, WriterMoved, Writing, OpenMeta, Step, OnDisk
  <2> QED
    BY <1>4, <2>1, <2>2, WritersKeep
    DEF SafeInv, OpenMeta, Step, OnDisk, loop, joining, disk
<1>5. CASE CloseMeta
  <2>1. TypeOK'
    <3>1. /\ writer' = [writer EXCEPT ![0] = "report"]
          /\ dir' = [dir EXCEPT ![target[0]].meta = IF stale THEN Mixed ELSE job]
          /\ UNCHANGED <<isAsync, job, parent, at, last, target, got, stale, outcome, joiner,
                         future, cache, pointer, victim>>
      BY <1>5 DEF CloseMeta, Step, OnDisk, loop, joining
    <3>2. /\ dir \in [Steps -> Directories]
          /\ (IF stale THEN Mixed ELSE job) \in Files \cup {Mixed}
      BY DEF SafeInv, TypeOK, Directories, Files
    <3>3. dir' \in [Steps -> Directories]
      BY <3>1, <3>2 DEF Directories
    <3> QED
      BY <3>1, <3>3, Constants DEF SafeInv, TypeOK, Directories
  <2>2. \A p \in Ranks : WriterMoved(p)
    BY <1>0, <1>5 DEF SafeInv, TypeOK, WriterMoved, Writing, CloseMeta, Step, OnDisk
  <2> QED
    BY <1>5, <2>1, <2>2, WritersKeep
    DEF SafeInv, CloseMeta, Step, OnDisk, loop, joining, disk
<1> QED
  BY <1>1, <1>2, <1>3, <1>4, <1>5 DEF WriteAll

----------------------------------------------------------------------------
(***************************************************************************)
(* Steps of the threads that join the children.                            *)
(***************************************************************************)
JoinerMoved(r) ==
  \/ joiner'[r] = joiner[r] /\ future'[r] = future[r]
  \/ /\ joiner[r] # "none"
     /\ future'[r] = "pending" <=> joiner'[r] # "none"
     /\ joiner'[r] \in {"again", "callback", "resolve", "none"} => writer[r] = "exited"
     /\ joiner'[r] \in {"callback", "resolve"} => outcome[r] = "ok"
     /\ joiner'[r] = "callback" => r = 0
     /\ future'[r] = "failed" => outcome[r] # "ok"

LEMMA JoinersKeep ==
  ASSUME TypeOK, Processes, Rotation, \A r \in Ranks : JoinerMoved(r),
         UNCHANGED <<parent, at, last, writer, target, outcome, victim>>
  PROVE  Processes' /\ Rotation'
<1>1. Together' /\ Places'
  BY DEF Processes, Together, Places, Place
<1>2. Saves'
  <2> SUFFICES ASSUME NEW r \in Ranks PROVE Save(r)'
    BY DEF Saves
  <2>0. Save(r)
    BY DEF Processes, Saves
  <2>1. CASE joiner'[r] = joiner[r] /\ future'[r] = future[r]
    BY <2>0, <2>1 DEF Save, Writing, InFlight
  <2>2. CASE joiner[r] # "none" /\ JoinerMoved(r)
    <3>1. parent[r] \notin Waited
      BY <2>0, <2>2 DEF Save
    <3> QED BY <2>0, <2>2, <3>1 DEF Save, Writing, InFlight, JoinerMoved
  <2> QED BY <2>1, <2>2 DEF JoinerMoved
<1>3. Targets' /\ OneSave'
  <2>1. \A r \in Ranks : InFlight(r)' => InFlight(r)
    BY DEF InFlight, JoinerMoved
  <2>2. \A r \in Ranks : joiner'[r] # "none" => joiner[r] # "none"
    BY DEF JoinerMoved
  <2> QED BY <2>1, <2>2 DEF Processes, Targets, Target, OneSave
<1>4. Rotation'
  BY DEF Rotation
<1> QED BY <1>1, <1>2, <1>3, <1>4 DEF Processes

\* The thread that joins one child.
LEMMA ThreadSafe ==
  ASSUME SafeInv, NEW r \in Ranks, Polling(r) \/ Thread(r) PROVE SafeInv'
<1>0. \A p \in Ranks :
        /\ future[p] = "pending" <=> joiner[p] # "none"
        /\ joiner[p] \in {"again", "callback", "resolve"} => writer[p] = "exited"
        /\ joiner[p] \in {"callback", "resolve"} => outcome[p] = "ok"
  BY DEF SafeInv, Processes, Saves, Save
<1>1. CASE Poll(r)
  <2>1. TypeOK'
    BY <1>1 DEF SafeInv, TypeOK, Poll, Join, loop, saving, disk
  <2>2. \A p \in Ranks : JoinerMoved(p)
    BY <1>0, <1>1 DEF SafeInv, TypeOK, JoinerMoved, Poll, Join
  <2> QED
    BY <1>1, <2>1, <2>2, JoinersKeep DEF SafeInv, Poll, loop, saving, disk
<1>2. CASE LookAlive(r)
  <2>1. TypeOK'
    BY <1>2 DEF SafeInv, TypeOK, LookAlive, Join, loop, saving, disk
  <2>2. \A p \in Ranks : JoinerMoved(p)
    BY <1>0, <1>2 DEF SafeInv, TypeOK, JoinerMoved, LookAlive, Join
  <2> QED
    BY <1>2, <2>1, <2>2, JoinersKeep DEF SafeInv, LookAlive, loop, saving, disk
<1>3. CASE LookAgain(r)
  <2>1. TypeOK'
    BY <1>3 DEF SafeInv, TypeOK, LookAgain, Join, loop, saving, disk
  <2>2. \A p \in Ranks : JoinerMoved(p)
    BY <1>0, <1>3 DEF SafeInv, TypeOK, JoinerMoved, LookAgain, Join
  <2> QED
    BY <1>3, <2>1, <2>2, JoinersKeep DEF SafeInv, LookAgain, loop, saving, disk
<1>4. CASE Joined(r)
  <2>1. TypeOK'
    BY <1>4 DEF SafeInv, TypeOK, Joined, Join, loop, saving, disk
  <2>2. \A p \in Ranks : JoinerMoved(p)
    BY <1>0, <1>4 DEF SafeInv, TypeOK, JoinerMoved, Joined, Join
  <2> QED
    BY <1>4, <2>1, <2>2, JoinersKeep DEF SafeInv, Joined, loop, saving, disk
<1>5. CASE Resolve(r)
  <2>1. TypeOK'
    BY <1>5 DEF SafeInv, TypeOK, Resolve, Join, loop, saving, disk
  <2>2. \A p \in Ranks : JoinerMoved(p)
    BY <1>0, <1>5 DEF SafeInv, TypeOK, JoinerMoved, Resolve, Join
  <2> QED
    BY <1>5, <2>1, <2>2, JoinersKeep DEF SafeInv, Resolve, loop, saving, disk
<1> QED BY <1>1, <1>2, <1>3, <1>4, <1>5 DEF Polling, Thread

\* The coordinator publishes a save in the background.
LEMMA CallbackSafe == ASSUME SafeInv, Callback PROVE SafeInv'
<1>1. /\ target[0] \in Steps /\ future[0] = "pending"
      /\ writer[0] = "exited" /\ outcome[0] = "ok"
  BY Constants
  DEF SafeInv, Processes, Targets, Target, Saves, Save, InFlight, Callback, Join
<1>2. TypeOK'
  BY <1>1, Constants DEF SafeInv, TypeOK, Callback, Join, loop, saving
<1>3. \A p \in Ranks : JoinerMoved(p)
  BY <1>1, Constants DEF SafeInv, TypeOK, JoinerMoved, Callback, Join
<1> QED
  BY <1>2, <1>3, JoinersKeep DEF SafeInv, Callback, loop, saving

----------------------------------------------------------------------------
(***************************************************************************)
(* Steps of the training loop of one rank.                                 *)
(***************************************************************************)
\* A rank that stays out of saving, or has it behind it, moves on alone.
LEMMA MoveSafe ==
  ASSUME SafeInv, TypeOK', NEW r \in Ranks, NEW to,
         parent[r] \notin InPlace \cup {"down"},
         to \notin InPlace \cup {"dispatch", "down"},
         parent' = [parent EXCEPT ![r] = to],
         UNCHANGED <<at, last, writer, target, outcome, joiner, victim>>,
         future' = [future EXCEPT ![r] = future'[r]],
         Save(r)', Place(r)',
         r = 0 /\ victim # 0 => to \in Rotating
  PROVE  SafeInv'
<1>1. Together'
  BY DEF SafeInv, TypeOK, Processes, Together
<1>2. Places' /\ Saves'
  BY DEF SafeInv, TypeOK, Processes, Places, Place, Saves, Save, Writing, InFlight
<1>3. Targets'
  BY DEF SafeInv, TypeOK, Processes, Targets, Target, InFlight, InPlace
<1>4. OneSave'
  BY DEF SafeInv, TypeOK, Processes, OneSave, InFlight, InPlace
<1>5. Rotation'
  BY DEF SafeInv, TypeOK, Rotation
<1> QED BY <1>1, <1>2, <1>3, <1>4, <1>5 DEF SafeInv, Processes

\* on_step_end.
LEMMA StepEndSafe == ASSUME SafeInv, NEW r \in Ranks, StepEnd(r) PROVE SafeInv'
<1>0. /\ parent[r] = "end" /\ (r = 0 => victim = 0)
      /\ Place(r) /\ Save(r) /\ Target(r) /\ at[r] \in Nat
  BY Constants DEF SafeInv, TypeOK, Processes, Places, Saves, Targets, Rotation, Rotating, StepEnd
<1> DEFINE to == IF future[r] = "failed" THEN "raised"
                 ELSE IF at[r] \in Cadence /\ at[r] # last[r] THEN "wait"
                 ELSE AfterStep(r)
<1>1. /\ parent' = [parent EXCEPT ![r] = to]
      /\ future' = [future EXCEPT ![r] = IF @ = "pending" THEN @ ELSE "none"]
      /\ UNCHANGED <<isAsync, job, at, last, writer, target, got, stale, outcome, joiner,
                     cache, dir, pointer, victim>>
  BY DEF StepEnd, Goto, saving, disk
<1>2. to \in {"raised", "wait", "last", "step"}
  BY DEF AfterStep
<1>3. TypeOK'
  <2> HIDE DEF to
  <2> QED BY <1>1, <1>2 DEF SafeInv, TypeOK
<1>4. Place(r)'
  <2>1. /\ to = "wait" => at[r] \in Cadence /\ at[r] # last[r]
        /\ to = "last" => at[r] = MaxStep
        /\ to = "step" => at[r] # MaxStep
    BY DEF AfterStep
  <2>2. parent'[r] = to /\ at[r] <= MaxStep /\ last[r] \in Int
    BY <1>1, Constants DEF SafeInv, TypeOK, Steps
  <2> HIDE DEF to
  <2> QED
    BY <2>1, <2>2, <1>0, <1>1, <1>2, Constants DEF Place, Unsaved, InPlace, SaveSteps
<1>5. Save(r)'
  <2> HIDE DEF to
  <2> QED
    BY <1>0, <1>1, <1>2 DEF SafeInv, TypeOK, Save, Writing, InFlight, Waited, InPlace
<1> HIDE DEF to
<1> QED
  BY <1>0, <1>1, <1>2, <1>3, <1>4, <1>5, MoveSafe DEF InPlace

\* on_train_end.
LEMMA TrainEndSafe == ASSUME SafeInv, NEW r \in Ranks, TrainEnd(r) PROVE SafeInv'
<1>0. /\ parent[r] = "last" /\ (r = 0 => victim = 0)
      /\ Place(r) /\ Save(r) /\ Target(r) /\ at[r] \in Nat
  BY Constants DEF SafeInv, TypeOK, Processes, Places, Saves, Targets, Rotation, Rotating, TrainEnd
<1> DEFINE to == IF at[r] # last[r] THEN "wait" ELSE "drain"
<1>1. /\ parent' = [parent EXCEPT ![r] = to]
      /\ UNCHANGED <<isAsync, job, at, last, writer, target, got, stale, outcome, joiner, future,
                     cache, dir, pointer, victim>>
  BY DEF TrainEnd, Goto, saving, joining, disk
<1>2. to \in {"wait", "drain"}
  OBVIOUS
<1>3. TypeOK'
  <2> HIDE DEF to
  <2> QED BY <1>1, <1>2 DEF SafeInv, TypeOK
<1>4. Place(r)'
  <2>1. to = "wait" => at[r] # last[r]
    OBVIOUS
  <2>2. parent'[r] = to /\ last[r] \in Int
    BY <1>1, Constants DEF SafeInv, TypeOK, Steps
  <2> HIDE DEF to
  <2> QED
    BY <2>1, <2>2, <1>0, <1>1, <1>2, Constants DEF Place, Unsaved, InPlace, SaveSteps
<1>5. Save(r)' /\ future' = [future EXCEPT ![r] = future'[r]]
  <2> HIDE DEF to
  <2> QED
    BY <1>0, <1>1, <1>2 DEF SafeInv, TypeOK, Save, Writing, InFlight, Waited, InPlace
<1> HIDE DEF to
<1> QED
  BY <1>0, <1>1, <1>2, <1>3, <1>4, <1>5, MoveSafe DEF InPlace

\* maybe_wait_for_async_save.
LEMMA WaitSafe == ASSUME SafeInv, NEW r \in Ranks, Wait(r) PROVE SafeInv'
<1>0. /\ parent[r] \in {"wait", "drain"} /\ (r = 0 => victim = 0)
      /\ future[r] # "pending"
      /\ Place(r) /\ Save(r) /\ Target(r) /\ at[r] \in Nat
  BY Constants DEF SafeInv, TypeOK, Processes, Places, Saves, Targets, Rotation, Rotating, Wait
<1> DEFINE to == IF future[r] = "failed" THEN "raised"
                 ELSE IF parent[r] = "drain" THEN "final"
                 ELSE IF isAsync /\ last[r] >= 0 THEN "prune" ELSE "barrier"
<1>1. /\ parent' = [parent EXCEPT ![r] = to]
      /\ future' = [future EXCEPT ![r] = "none"]
      /\ UNCHANGED <<isAsync, job, at, last, writer, target, got, stale, outcome, joiner,
                     cache, dir, pointer, victim>>
  BY DEF Wait, Goto, saving, disk
<1>2. to \in {"raised", "final", "prune", "barrier"}
  OBVIOUS
<1>3. TypeOK'
  <2> HIDE DEF to
  <2> QED BY <1>1, <1>2 DEF SafeInv, TypeOK
<1>4. Place(r)'
  <2>1. to \in {"prune", "barrier"} => parent[r] = "wait"
    BY <1>0
  <2> HIDE DEF to
  <2> QED
    BY <2>1, <1>0, <1>1, <1>2 DEF SafeInv, TypeOK, Place, Unsaved, InPlace
<1>5. Save(r)'
  <2> HIDE DEF to
  <2> QED
    BY <1>0, <1>1, <1>2 DEF SafeInv, TypeOK, Save, Writing, InFlight, Waited, InPlace
<1> HIDE DEF to
<1> QED
  BY <1>0, <1>1, <1>2, <1>3, <1>4, <1>5, MoveSafe DEF InPlace

\* The end of _rotate_checkpoints.
LEMMA RotatedSafe == ASSUME SafeInv, NEW r \in Ranks, Rotated(r) PROVE SafeInv'
<1>0. /\ parent[r] \in Rotating /\ (r = 0 => victim = 0)
      /\ Place(r) /\ Save(r) /\ Target(r) /\ at[r] \in Nat
  BY Constants DEF SafeInv, TypeOK, Processes, Places, Saves, Targets, Rotated
<1> DEFINE to == AfterRotation(r)
<1>1. /\ parent' = [parent EXCEPT ![r] = to]
      /\ UNCHANGED <<isAsync, job, at, last, writer, target, got, stale, outcome, joiner, future,
                     cache, dir, pointer, victim>>
  BY DEF Rotated, Goto, saving, joining, disk
<1>2. to \in {"barrier", "last", "step", "done"}
  BY <1>0 DEF Rotating, AfterRotation, AfterStep
<1>3. TypeOK'
  <2> HIDE DEF to
  <2> QED BY <1>1, <1>2 DEF SafeInv, TypeOK
<1>4. Place(r)'
  <2>1. /\ to = "barrier" => parent[r] = "prune"
        /\ to = "last" => at[r] = MaxStep
        /\ to = "step" => at[r] # MaxStep
    BY <1>0 DEF Rotating, AfterRotation, AfterStep
  <2>2. parent'[r] = to /\ at[r] <= MaxStep /\ last[r] \in Int
    BY <1>1, Constants DEF SafeInv, TypeOK, Steps
  <2> HIDE DEF to
  <2> QED
    BY <2>1, <2>2, <1>0, <1>1, <1>2, Constants DEF Place, Unsaved, InPlace, Rotating
<1>5. Save(r)' /\ future' = [future EXCEPT ![r] = future'[r]]
  <2> HIDE DEF to
  <2> QED
    BY <1>0, <1>1, <1>2
    DEF SafeInv, TypeOK, Save, Writing, InFlight, Waited, InPlace, Rotating
<1> HIDE DEF to
<1> QED
  BY <1>0, <1>1, <1>2, <1>3, <1>4, <1>5, MoveSafe DEF InPlace, Rotating

\* dcp_save or dcp_async_save.
LEMMA DispatchSafe == ASSUME SafeInv, NEW r \in Ranks, Dispatch(r) PROVE SafeInv'
<1>0. /\ parent[r] = "dispatch" /\ (r = 0 => victim = 0)
      /\ Place(r) /\ Save(r) /\ Target(r) /\ at[r] \in Steps /\ joiner[r] = "none"
  <2>1. parent[r] = "dispatch"
    BY DEF Dispatch
  <2> QED
    BY <2>1, Constants DEF SafeInv, TypeOK, Processes, Places, Place, Saves, Save, Targets,
       Rotation, Rotating, Waited, InPlace, Steps
<1>1. /\ writer' = [writer EXCEPT ![r] = "start"]
      /\ target' = [target EXCEPT ![r] = at[r]]
      /\ got' = [got EXCEPT ![r] = {}] /\ stale' \in BOOLEAN
      /\ outcome' = [outcome EXCEPT ![r] = "none"]
      /\ UNCHANGED <<isAsync, job, at, cache, dir, pointer, victim>>
  BY DEF Dispatch, disk
<1>2. \/ /\ joiner' = [joiner EXCEPT ![r] = "poll"]
         /\ future' = [future EXCEPT ![r] = "pending"]
         /\ last' = [last EXCEPT ![r] = at[r]]
         /\ \/ parent' = [parent EXCEPT ![r] = "last"] /\ at[r] = MaxStep
            \/ parent' = [parent EXCEPT ![r] = "step"] /\ at[r] # MaxStep
      \/ /\ parent' = [parent EXCEPT ![r] = "saving"]
         /\ UNCHANGED <<joiner, future, last>>
  BY DEF Dispatch, Goto, AfterStep
<1>3. TypeOK'
  <2>1. /\ target' \in [Ranks -> 0 .. MaxStep] /\ got' \in [Ranks -> SUBSET Ranks]
        /\ last' \in [Ranks -> {-1} \cup Steps]
    BY <1>0, <1>1, <1>2, Constants DEF SafeInv, TypeOK, Steps
  <2>2. /\ \E to \in {"last", "step", "saving"} : parent' = [parent EXCEPT ![r] = to]
        /\ joiner' = joiner \/ joiner' = [joiner EXCEPT ![r] = "poll"]
        /\ future' = future \/ future' = [future EXCEPT ![r] = "pending"]
    BY <1>2
  <2>3. PICK to \in {"last", "step", "saving"} : parent' = [parent EXCEPT ![r] = to]
    BY <2>2
  <2>4. writer' \in [Ranks -> {"none", "start", "plan", "readPlans",
                             "shard", "sharding", "result", "resulting",
                             "readResults", "meta", "describing", "report",
                             "exiting", "exited"}]
    BY <1>1 DEF SafeInv, TypeOK
  <2>5. parent' \in [Ranks -> {"step", "end", "wait", "prune", "barrier",
                             "dispatch", "saving", "publish", "saved", "trim",
                             "last", "drain", "final", "done", "raised", "down"}]
    BY <2>3 DEF SafeInv, TypeOK
  <2>6. outcome' \in [Ranks -> {"none", "ok", "failed"}]
    BY <1>1 DEF SafeInv, TypeOK
  <2>7. joiner' \in [Ranks -> {"none", "poll", "look", "again", "join", "callback", "resolve"}]
    BY <2>2 DEF SafeInv, TypeOK
  <2>8. future' \in [Ranks -> {"none", "pending", "ok", "failed"}]
    BY <2>2 DEF SafeInv, TypeOK
  <2>9. stale' \in BOOLEAN /\ UNCHANGED <<isAsync, job, at, cache, dir, pointer, victim>>
    BY <1>1
  <2> QED
    BY <2>1, <2>4, <2>5, <2>6, <2>7, <2>8, <2>9 DEF SafeInv, TypeOK, Steps
<1>4. Together'
  BY <1>0, <1>1, <1>2 DEF SafeInv, TypeOK, Processes, Together
<1>5. Places'
  <2>1. at[r] <= MaxStep
    BY <1>0 DEF Steps
  <2> SUFFICES ASSUME NEW p \in Ranks PROVE Place(p)'
    BY DEF Places
  <2>2. CASE p = r
    BY <2>1, <2>2, <1>0, <1>1, <1>2, Constants
    DEF SafeInv, TypeOK, Place, Unsaved, InPlace, Steps
  <2>3. CASE p # r
    BY <2>3, <1>1, <1>2 DEF SafeInv, TypeOK, Processes, Places, Place
  <2> QED BY <2>2, <2>3
<1>6. Saves'
  <2> SUFFICES ASSUME NEW p \in Ranks PROVE Save(p)'
    BY DEF Saves
  <2>1. CASE p = r
    BY <2>1, <1>0, <1>1, <1>2
    DEF SafeInv, TypeOK, Save, Writing, InFlight, Waited, InPlace
  <2>2. CASE p # r
    BY <2>2, <1>1, <1>2 DEF SafeInv, TypeOK, Processes, Saves, Save, Writing, InFlight
  <2> QED BY <2>1, <2>2
<1>7. Targets'
  <2> SUFFICES ASSUME NEW p \in Ranks PROVE Target(p)'
    BY DEF Targets
  <2>1. CASE p = r
    BY <2>1, <1>0, <1>1, <1>2, Constants DEF SafeInv, TypeOK, Target, InFlight, InPlace
  <2>2. CASE p # r
    BY <2>2, <1>1, <1>2 DEF SafeInv, TypeOK, Processes, Targets, Target, InFlight
  <2> QED BY <2>1, <2>2
<1>8. OneSave'
  <2>1. \A p \in Ranks : p # r /\ InFlight(p) => target[p] = at[r]
    BY <1>0 DEF SafeInv, Processes, OneSave, Together
  <2>2. \A p \in Ranks : target'[p] = target[p] \/ (p = r /\ target'[p] = at[r])
    BY <1>1 DEF SafeInv, TypeOK
  <2>3. \A p \in Ranks : p # r /\ InFlight(p)' => InFlight(p)
    BY <1>2 DEF SafeInv, TypeOK, InFlight
  <2>4. \A p \in Ranks : InFlight(p)' => target'[p] = at[r]
    BY <2>1, <2>2, <2>3, <1>1 DEF SafeInv, TypeOK
  <2> QED BY <2>4, <1>1 DEF SafeInv, Processes, OneSave, Together
<1>9. Rotation'
  BY <1>0, <1>1, <1>2, Constants DEF SafeInv, TypeOK, Rotation
<1> QED BY <1>3, <1>4, <1>5, <1>6, <1>7, <1>8, <1>9 DEF SafeInv, Processes

\* The end of a save in place.
LEMMA SavedSafe == ASSUME SafeInv, NEW r \in Ranks, Saved(r) PROVE SafeInv'
<1>0. /\ parent[r] = "saved" /\ (r = 0 => victim = 0)
      /\ Place(r) /\ Save(r) /\ Target(r) /\ at[r] \in Steps /\ joiner[r] = "none"
  BY Constants DEF SafeInv, TypeOK, Processes, Places, Place, Saves, Save, Targets, Rotation,
     Rotating, Saved, Waited, InPlace, Steps
<1>1. /\ last' = [last EXCEPT ![r] = at[r]]
      /\ parent' = [parent EXCEPT ![r] = "trim"]
      /\ UNCHANGED <<isAsync, job, at, writer, target, got, stale, outcome, joiner, future,
                     cache, dir, pointer, victim>>
  BY DEF Saved, Goto, saving, joining, disk
<1>2. TypeOK'
  BY <1>0, <1>1, Constants DEF SafeInv, TypeOK
<1>3. Together'
  BY <1>0, <1>1 DEF SafeInv, TypeOK, Processes, Together
<1>4. Places'
  BY <1>0, <1>1, Constants
  DEF SafeInv, TypeOK, Processes, Places, Place, Unsaved, InPlace, Steps
<1>5. Saves'
  BY <1>0, <1>1 DEF SafeInv, TypeOK, Processes, Saves, Save, Writing, InFlight, Waited, InPlace
<1>6. Targets'
  BY <1>0, <1>1, Constants DEF SafeInv, TypeOK, Processes, Targets, Target, InFlight, InPlace
<1>7. OneSave'
  BY <1>0, <1>1 DEF SafeInv, TypeOK, Processes, OneSave, InFlight
<1>8. Rotation'
  BY <1>0, <1>1 DEF SafeInv, TypeOK, Rotation, Rotating
<1> QED BY <1>2, <1>3, <1>4, <1>5, <1>6, <1>7, <1>8 DEF SafeInv, Processes

----------------------------------------------------------------------------
(***************************************************************************)
(* Steps of all ranks together, and of rank 0.                             *)
(***************************************************************************)
\* A training step.
LEMMA TrainStepSafe == ASSUME SafeInv, TrainStep PROVE SafeInv'
<1>0. /\ parent = All("step") /\ parent' = All("end") /\ victim = 0
      /\ at' = [r \in Ranks |-> at[r] + 1]
      /\ \A r \in Ranks : at[r] < MaxStep /\ parent[r] = "step"
      /\ UNCHANGED <<isAsync, job, last, writer, target, got, stale, outcome, joiner, future,
                     cache, dir, pointer, victim>>
  BY Constants DEF SafeInv, Processes, Places, Place, Rotation, Rotating, TrainStep, All,
     saving, joining, disk
<1>1. TypeOK'
  BY <1>0, Constants DEF SafeInv, TypeOK, All
<1>2. Together' /\ Places'
  <2>1. \A r \in Ranks : /\ at[r] \in Nat /\ last[r] \in Int
                         /\ parent'[r] = "end" /\ at'[r] = at[r] + 1 /\ last'[r] = last[r]
    BY <1>0, Constants DEF SafeInv, TypeOK, All, Steps
  <2> QED
    BY <2>1 DEF SafeInv, Processes, Together, Places, Place, Unsaved, InPlace
<1>3. Saves'
  BY <1>0 DEF SafeInv, Processes, Saves, Save, Writing, InFlight, Waited, InPlace, All
<1>4. Targets' /\ OneSave'
  BY <1>0 DEF SafeInv, Processes, Targets, Target, OneSave, InFlight, InPlace, All
<1>5. Rotation'
  BY <1>0 DEF Rotation
<1> QED BY <1>1, <1>2, <1>3, <1>4, <1>5 DEF SafeInv, Processes

\* The barrier before a save: nobody has a child any more.
LEMMA BarrierSafe == ASSUME SafeInv, Barrier PROVE SafeInv'
<1>0. /\ parent = All("barrier") /\ parent' = All("dispatch") /\ victim = 0
      /\ \A r \in Ranks : parent[r] = "barrier" /\ ~InFlight(r)
      /\ UNCHANGED <<isAsync, job, at, last, writer, target, got, stale, outcome, joiner, future,
                     cache, dir, pointer, victim>>
  BY Constants DEF SafeInv, Processes, Saves, Save, Waited, InFlight, Rotation, Rotating,
     Barrier, All, saving, joining, disk
<1>1. TypeOK'
  BY <1>0 DEF SafeInv, TypeOK, All
<1>2. Together' /\ Places'
  BY <1>0 DEF SafeInv, Processes, Together, Places, Place, Unsaved, InPlace, All
<1>3. Saves'
  BY <1>0 DEF SafeInv, Processes, Saves, Save, Writing, InFlight, Waited, InPlace, All
<1>4. Targets' /\ OneSave'
  BY <1>0 DEF SafeInv, Processes, Targets, Target, OneSave, InFlight, InPlace, All
<1>5. Rotation'
  BY <1>0 DEF Rotation
<1> QED BY <1>1, <1>2, <1>3, <1>4, <1>5 DEF SafeInv, Processes

\* The barriers after a save in place.
LEMMA FinalizeSafe == ASSUME SafeInv, Finalize PROVE SafeInv'
<1>0. /\ parent' = [r \in Ranks |-> IF r = 0 THEN "publish" ELSE "saved"]
      /\ writer' = All("none") /\ victim = 0
      /\ \A r \in Ranks : /\ parent[r] = "saving" /\ writer[r] = "report"
                          /\ joiner[r] = "none" /\ outcome[r] = "none"
      /\ UNCHANGED <<isAsync, job, at, last, target, got, stale, outcome, joiner, future,
                     cache, dir, pointer, victim>>
  BY Constants DEF SafeInv, TypeOK, Processes, Saves, Save, Waited, InPlace, Rotation,
     Rotating, Finalize, All, joining, disk
<1>1. TypeOK'
  BY <1>0 DEF SafeInv, TypeOK, All
<1>2. Together' /\ Places'
  BY <1>0 DEF SafeInv, Processes, Together, Places, Place, Unsaved, InPlace
<1>3. Saves'
  BY <1>0 DEF SafeInv, Processes, Saves, Save, Writing, InFlight, Waited, InPlace, All
<1>4. Targets' /\ OneSave'
  BY <1>0 DEF SafeInv, Processes, Targets, Target, OneSave, InFlight, InPlace
<1>5. Rotation'
  BY <1>0 DEF Rotation
<1> QED BY <1>1, <1>2, <1>3, <1>4, <1>5 DEF SafeInv, Processes

\* _write_latest_pointer, after a save in place.
LEMMA PublishSafe == ASSUME SafeInv, Publish PROVE SafeInv'
<1>a. at[0] \in Steps
  <2>1. \A r \in Ranks : parent[r] = "publish" => at[r] \in Steps
    <3> TAKE r \in Ranks
    <3>1. at[r] \in 0 .. MaxStep /\ Place(r)
      BY DEF SafeInv, TypeOK, Processes, Places
    <3> QED BY <3>1, Constants DEF Place, Steps
  <2> QED BY <2>1, Constants DEF Publish
<1>0. /\ parent[0] = "publish" /\ victim = 0
      /\ Place(0) /\ Save(0) /\ Target(0) /\ at[0] \in Steps
      /\ \/ parent' = [parent EXCEPT ![0] = "publish"]
         \/ parent' = [parent EXCEPT ![0] = "saved"]
      /\ pointer' \in {Torn, at[0]}
      /\ UNCHANGED <<isAsync, job, at, last, writer, target, got, stale, outcome, joiner, future,
                     cache, dir, victim>>
  BY <1>a, Constants DEF SafeInv, Processes, Places, Saves, Targets, Rotation, Rotating,
     Publish, Goto, saving, joining
<1>1. TypeOK'
  <2>1. pointer' \in {Absent, Torn} \cup Steps
    BY <1>0
  <2>2. CASE parent' = [parent EXCEPT ![0] = "publish"]
    BY <1>0, <2>1, <2>2 DEF SafeInv, TypeOK
  <2>3. CASE parent' = [parent EXCEPT ![0] = "saved"]
    BY <1>0, <2>1, <2>3 DEF SafeInv, TypeOK
  <2> QED BY <1>0, <2>2, <2>3
<1>2. Together' /\ Places'
  BY <1>0 DEF SafeInv, TypeOK, Processes, Together, Places, Place, Unsaved, InPlace
<1>3. Saves'
  BY <1>0 DEF SafeInv, TypeOK, Processes, Saves, Save, Writing, InFlight, Waited, InPlace
<1>4. Targets' /\ OneSave'
  BY <1>0 DEF SafeInv, TypeOK, Processes, Targets, Target, OneSave, InFlight, InPlace
<1>5. Rotation'
  BY <1>0 DEF Rotation
<1> QED BY <1>1, <1>2, <1>3, <1>4, <1>5 DEF SafeInv, Processes

\* A step that leaves the processes alone.
LEMMA DiskSafe ==
  ASSUME SafeInv, TypeOK', Rotation',
         UNCHANGED <<parent, at, last, writer, target, outcome, joiner, future>>
  PROVE  SafeInv'
<1>1. Together' /\ Places' /\ Targets' /\ OneSave'
  BY DEF SafeInv, Processes, Together, Places, Place, Targets, Target, OneSave, InFlight
<1>2. Saves'
  BY DEF SafeInv, Processes, Saves, Save, Writing, InFlight
<1> QED BY <1>1, <1>2 DEF SafeInv, Processes

\* What _rotate_checkpoints deletes is listed, and not the step last saved.
LEMMA VictimIs ==
  ASSUME SafeInv, Delete
  PROVE  /\ victim' \in Listed /\ victim' # last[0] /\ victim' \in Steps
         /\ \A s \in Deletable : victim' <= s
<1>1. Deletable \in SUBSET Steps /\ Deletable # {}
  BY DEF Delete, Excess, Deletable, Listed
<1>2. victim' = Oldest(Deletable)
  BY DEF Delete
<1>3. victim' \in Deletable /\ \A s \in Deletable : victim' <= s
  BY <1>1, <1>2, OldestIs
<1> QED BY <1>1, <1>3 DEF Deletable

\* The deletion of a directory.
LEMMA DeleteSafe == ASSUME SafeInv, Delete \/ Deleted PROVE SafeInv'
<1>1. CASE Delete
  <2>1. victim' \in Steps
    BY <1>1, VictimIs
  <2>2. PICK meta \in {Absent, dir[victim'].meta} :
          dir' = [dir EXCEPT ![victim'] = [@ EXCEPT !.shard = All(Torn), !.meta = meta]]
    BY <1>1 DEF Delete
  <2>3. dir' \in [Steps -> Directories]
    <3>1. dir \in [Steps -> Directories] /\ All(Torn) \in [Ranks -> Files]
      BY DEF SafeInv, TypeOK, Directories, All, Files
    <3>2. meta \in Files \cup {Mixed}
      BY <2>1, <3>1 DEF Directories, Files
    <3> QED BY <2>1, <2>2, <3>1, <3>2 DEF Directories
  <2>4. TypeOK'
    BY <1>1, <2>1, <2>3 DEF SafeInv, TypeOK, Delete, Directories, loop, saving, joining, Steps
  <2>5. Rotation'
    BY <1>1 DEF Delete, Rotation, loop
  <2> QED BY <1>1, <2>4, <2>5, DiskSafe DEF Delete, loop, saving, joining
<1>2. CASE Deleted
  <2>1. dir' \in [Steps -> Directories]
    BY <1>2 DEF SafeInv, TypeOK, Deleted, Directories, EmptyDir, NoFiles, Files
  <2>2. TypeOK'
    BY <1>2, <2>1, Constants
    DEF SafeInv, TypeOK, Deleted, Directories, loop, saving, joining
  <2>3. Rotation'
    BY <1>2 DEF Deleted, Rotation
  <2> QED BY <1>2, <2>2, <2>3, DiskSafe DEF Deleted, loop, saving, joining
<1> QED BY <1>1, <1>2

----------------------------------------------------------------------------
(***************************************************************************)
(* The end of a job, and its next start.                                   *)
(***************************************************************************)
\* Nothing is left of the processes of a job that is down.
LEMMA DownSafe ==
  ASSUME SafeInv, parent' = All("down"), Quiet,
         UNCHANGED <<isAsync, job, at, last, dir, pointer>>
  PROVE  SafeInv'
<1>1. TypeOK'
  <2>1. stale' \in BOOLEAN
    BY DEF Quiet
  <2>2. /\ cache' = All(FALSE) /\ writer' = All("none") /\ target' = All(0)
        /\ got' = All({}) /\ outcome' = All("none") /\ joiner' = All("none")
        /\ future' = All("none") /\ victim' = 0
    BY DEF Quiet
  <2> QED BY <2>1, <2>2, Constants DEF SafeInv, TypeOK, All
<1>2. Together' /\ Places'
  BY DEF SafeInv, Processes, Together, Places, Place, Unsaved, InPlace, All
<1>3. Saves'
  BY DEF Saves, Save, Quiet, Writing, InFlight, Waited, InPlace, All
<1>4. Targets' /\ OneSave'
  BY DEF Targets, Target, OneSave, Quiet, InFlight, InPlace, All
<1>5. Rotation'
  BY DEF Rotation, Quiet
<1> QED BY <1>1, <1>2, <1>3, <1>4, <1>5 DEF SafeInv, Processes

\* A restart finds no process of the job that was, and starts at one step.
LEMMA RestartSafe == ASSUME SafeInv, Restart PROVE SafeInv'
<1> DEFINE from == FindLatest
<1>0. from \in 0 .. MaxStep
  BY LatestIs
<1>1. /\ at' = All(from) /\ last' = All(IF from = 0 THEN -1 ELSE from)
      /\ parent' = All(IF from = MaxStep THEN "last" ELSE "step")
  BY DEF Restart
<1> HIDE DEF from
<1>2. /\ job' = job + 1 /\ job < MaxJobs /\ parent = All("down")
      /\ UNCHANGED <<isAsync, writer, target, got, stale, outcome, joiner, future, cache,
                     dir, pointer, victim>>
  BY DEF Restart, saving, joining, disk
<1>3. \A r \in Ranks : /\ future[r] = "none" /\ joiner[r] = "none"
                       /\ Save(r) /\ target[r] = 0 /\ parent[r] = "down"
  BY <1>2 DEF SafeInv, Processes, Saves, Save, Waited, Targets, Target, All
<1>4. TypeOK'
  <2>1. /\ job' \in Jobs /\ at' \in [Ranks -> 0 .. MaxStep]
        /\ last' \in [Ranks -> {-1} \cup Steps]
    BY <1>0, <1>1, <1>2, Constants DEF SafeInv, TypeOK, Jobs, Steps, All
  <2> QED BY <1>1, <1>2, <2>1 DEF SafeInv, TypeOK, All
<1>5. Together' /\ Places'
  BY <1>0, <1>1, Constants DEF Together, Places, Place, Unsaved, InPlace, All
<1>6. Saves'
  BY <1>1, <1>2, <1>3 DEF Saves, Save, Writing, InFlight, Waited, InPlace, All
<1>7. Targets' /\ OneSave'
  BY <1>1, <1>2, <1>3 DEF Targets, Target, OneSave, InFlight, InPlace, All
<1>8. Rotation'
  BY <1>2, Constants DEF SafeInv, Rotation, Rotating, All
<1> QED BY <1>4, <1>5, <1>6, <1>7, <1>8 DEF SafeInv, Processes

----------------------------------------------------------------------------
\* Every step keeps the invariant.
LEMMA NextSafe == SafeInv /\ [Next]_vars => SafeInv'
<1> SUFFICES ASSUME SafeInv, [Next]_vars PROVE SafeInv'
  OBVIOUS
<1>1. ASSUME NEW r \in Ranks, Loop(r) PROVE SafeInv'
  BY <1>1, StepEndSafe, TrainEndSafe, WaitSafe, RotatedSafe, DispatchSafe, SavedSafe DEF Loop
<1>2. CASE LoopAll
  BY <1>2, TrainStepSafe, DeleteSafe, BarrierSafe, FinalizeSafe, PublishSafe DEF LoopAll
<1>3. CASE Crash \/ Teardown
  BY <1>3, DownSafe DEF Crash, Teardown
<1>4. CASE Work
  BY <1>1, <1>2, <1>3, <1>4, WriteSafe, WriteAllSafe, ThreadSafe, CallbackSafe DEF Work
<1>5. CASE UNCHANGED vars
  <2>1. TypeOK' /\ Rotation'
    BY <1>5 DEF vars, loop, saving, joining, disk, SafeInv, TypeOK, Rotation
  <2> QED BY <1>5, <2>1, DiskSafe DEF vars, loop, saving, joining, disk
<1> QED
  BY <1>3, <1>4, <1>5, RestartSafe, ThreadSafe, ChildFailsSafe DEF Next, Over

\* The states of the job, of its writers and of the storage.
LEMMA SafeAlways == Spec => []SafeInv
BY InitSafe, NextSafe, PTL DEF Spec

\* Types, which the other results rest on.
THEOREM TypeCorrect == Spec => []TypeOK
<1>1. SafeInv => TypeOK
  BY DEF SafeInv
<1> QED BY <1>1, SafeAlways, PTL

\* maybe_wait_for_async_save, "two saves never overlap": on any number of
\* ranks, over any number of crashes, failed children and restarts, and also
\* where a restart finds what interrupted saves left, all the writers that are
\* active write the same checkpoint.
THEOREM SavesApart == Spec => []SavesNeverOverlap
<1>1. SafeInv => SavesNeverOverlap
  BY DEF SafeInv, Processes, Saves, Save, OneSave, SavesNeverOverlap
<1> QED BY <1>1, SafeAlways, PTL

----------------------------------------------------------------------------
(***************************************************************************)
(* Durable checkpoints.  The argument follows the coordinator.  While it   *)
(* has nothing in flight (Idle), the pointer names the step it saved last, *)
(* or that step is the newest checkpoint there is (Settled).  While it     *)
(* has, it passes on to the metadata when every rank has delivered its     *)
(* shard in this incarnation, unless one of the results it gathered was    *)
(* left by an earlier one (Gathering, over Results and Ages); it knows     *)
(* which of the two is the case, and so do the metadata (Described).  A    *)
(* rank whose result is older than its save may still be writing when the  *)
(* coordinator has finished (Others), so that what is still to be written  *)
(* lies beyond the pointer or in a directory with Mixed metadata (NotYet). *)
(* That no checkpoint is newer than the one being published rests on the   *)
(* order of the saves: the next one is at the first step to be saved after *)
(* the one the job can go back to (NextSave, OneAhead), whatever           *)
(* directories an earlier incarnation left.                                *)
(***************************************************************************)
\* A checkpoint that is whole, or has metadata of two incarnations.
Accounted(s) == Whole(s) \/ Spoiled(s)

\* The coordinator has no save to finish, and no failure to report.
Idle == /\ joiner[0] = "none" /\ future[0] # "failed"
        /\ parent[0] \notin InPlace \cup {"dispatch", "raised", "down"}

\* Step x is later than the checkpoint the job can go back to.
Below(x) == IF pointer \in Steps THEN pointer < x ELSE \A s \in DescribedSteps : s < x

\* Step x is later than the pointer, or than all there is.
Beyond(x) == IF pointer \in Steps THEN pointer < x ELSE \A s \in Listed : s < x

\* The shards of step x may change.
Untold(x) == Below(x) \/ Spoiled(x)

\* Rank q has not written its shard, or the coordinator not its metadata.
Early(q) == writer[q] \in {"start", "plan", "readPlans", "shard", "sharding",
                           "result", "resulting", "readResults", "meta"}

\* The save of the coordinator has gathered the write results.
Gathered == InFlight(0) /\ \/ writer[0] \in {"meta", "describing", "report", "exiting"}
                           \/ writer[0] = "exited" /\ outcome[0] = "ok"

\* The shard of rank q is written.
Delivered(q) ==
  /\ target[q] = target[0] /\ dir[target[0]].shard[q] = job
  /\ \/ writer[q] \in {"report", "exiting", "exited"}
     \/ q = 0 /\ writer[q] \in {"readResults", "meta", "describing"}

\* Only the coordinator gathers results and writes metadata.
Coordinator == \A q \in Ranks :
  writer[q] \in {"readResults", "meta", "describing"} => q = 0

\* Only children write and read results.
Children == \A q \in Ranks :
  /\ writer[q] \in {"resulting", "readResults"} => joiner[q] # "none"
  /\ joiner[q] # "none" => isAsync

\* A rank that has closed its shard wrote it in this incarnation.
Shards == \A q \in Ranks :
  writer[q] \in {"result", "resulting", "readResults", "meta", "describing",
                 "report", "exiting"}
  => dir[target[q]].shard[q] = job

\* Where a write result of this incarnation may lie, and what it promises.
ResultOf(s, q) == dir[s].result[q] = job =>
  /\ s <= target[q]
  /\ s = target[q] =>
       /\ parent[q] \notin InPlace
       /\ writer[q] \in {"readResults", "meta", "describing", "report", "exiting",
                         "exited"}
       /\ s # victim => dir[s].shard[q] = job
Results == parent[0] # "down" => \A s \in Steps, q \in Ranks : ResultOf(s, q)

\* No result is of a later incarnation; and the first one finds none, nor does
\* a job that saves in place read any.
Dates == \A s \in Steps, q \in Ranks : dir[s].result[q] \in {Absent, Torn} \cup 1 .. job
Unmixed == job = 1 \/ ~isAsync => ~stale /\ \A s \in Steps : ~Spoiled(s)
Ages == Dates /\ Unmixed

\* What the coordinator has gathered.
Gathering ==
  /\ writer[0] \in {"start", "plan", "shard", "sharding", "result", "resulting"}
     => got[0] = {}
  /\ (~stale /\ writer[0] = "readResults") => \A q \in got[0] : Delivered(q)
  /\ (~stale /\ Gathered) => \A q \in Ranks : Delivered(q)

\* What it has written of it.
Described ==
  /\ writer[0] = "describing" => dir[target[0]].meta = Torn
  /\ Gathered /\ writer[0] \notin {"meta", "describing"} =>
       dir[target[0]].meta = IF stale THEN Mixed ELSE job

\* Where the coordinator stands to the pointer between two saves.
Settled == Idle \/ parent[0] = "dispatch" =>
  IF pointer \in Steps THEN pointer = last[0]
  ELSE /\ \A s \in Listed : s <= last[0]
       /\ last[0] # -1 => last[0] \in DescribedSteps

\* Where the other ranks stand when the coordinator has finished.
Late(q) == Early(q) \/ parent[q] = "dispatch"
Others ==
  /\ Idle => \A q \in Ranks :
       /\ InFlight(q) => target[q] = last[0]
       /\ parent[q] = "dispatch" => at[q] = last[0]
       /\ Late(q) => last[0] \in Steps /\ Spoiled(last[0])
  /\ parent[0] \in {"publish", "saved"} => \A q \in Ranks :
       /\ parent[q] \notin {"dispatch", "saving"}
       /\ writer[q] = "none" /\ joiner[q] = "none"

\* The pointer while the coordinator publishes.
Publishing ==
  /\ parent[0] = "publish" => Accounted(at[0]) /\ (pointer \in Steps => pointer < at[0])
  /\ parent[0] = "saved" => pointer = at[0]
  /\ joiner[0] = "resolve" => pointer = target[0]
  /\ (InFlight(0) /\ joiner[0] # "resolve" /\ pointer \in Steps) => pointer < target[0]
  /\ future[0] = "ok" => pointer \in Steps /\ pointer = target[0]

\* The checkpoint the pointer names, or else the newest one, is accounted for.
Sound ==
  /\ pointer \in Steps => Accounted(pointer)
  /\ pointer \notin Steps => \A s \in DescribedSteps :
       (\A t \in DescribedSteps : t <= s) => Accounted(s)

\* What is still to be written is not what the job can go back to.
NotYet == /\ Early(0) => Beyond(target[0])
          /\ \A q \in Ranks : /\ parent[q] = "dispatch" => Untold(at[q])
                              /\ Early(q) => Untold(target[q])

\* The coordinator saves each step there is to save.
NextSave == \A c \in SaveSteps : last[0] < c =>
  \/ at[0] < c
  \/ at[0] = c /\ parent[0] \in Unsaved \cup {"end", "last", "raised", "down"}

\* Nothing lies beyond the next step to be saved, or the save in flight.
OneAhead ==
  /\ \A c \in SaveSteps : Below(c) => \A s \in Listed : s <= c
  /\ InFlight(0) \/ parent[0] = "publish" =>
       /\ \A c \in SaveSteps : Below(c) => target[0] <= c
       /\ \A s \in Listed : s <= target[0]
  /\ InFlight(0) => \A q \in Ranks : target[q] <= target[0]

Spared == victim # 0 => victim # last[0]

Gathers == Shards /\ Results /\ Coordinator /\ Children /\ Ages /\ Gathering /\ Described
Points == Settled /\ Others /\ Publishing /\ Sound /\ NotYet
Orders == NextSave /\ OneAhead /\ Spared
DurableInv == Gathers /\ Points /\ Orders

----------------------------------------------------------------------------
(***************************************************************************)
(* Lemmas on what the properties read of the disk.                         *)
(***************************************************************************)
\* What a step keeps that leaves the pointer and the metadata alone.
LEMMA SameMeta ==
  ASSUME pointer' = pointer, \A s \in Steps : dir'[s].meta = dir[s].meta
  PROVE  /\ Listed' = Listed /\ DescribedSteps' = DescribedSteps
         /\ \A s \in Steps : Spoiled(s)' <=> Spoiled(s)
         /\ \A x : Below(x)' <=> Below(x)
         /\ \A x : Beyond(x)' <=> Beyond(x)
         /\ \A x \in Steps : Untold(x)' <=> Untold(x)
<1>1. Listed' = Listed
  BY DEF Listed, Absent
<1>2. DescribedSteps' = DescribedSteps
  BY DEF DescribedSteps, Complete, Absent, Torn
<1>3. \A s \in Steps : Spoiled(s)' <=> Spoiled(s)
  BY DEF Spoiled, Mixed
<1> QED BY <1>1, <1>2, <1>3 DEF Below, Beyond, Untold

\* And one that leaves the shards alone as well.
LEMMA SameDisk ==
  ASSUME pointer' = pointer,
         \A s \in Steps : dir'[s].meta = dir[s].meta /\ dir'[s].shard = dir[s].shard
  PROVE  /\ \A s \in Steps : /\ Whole(s)' <=> Whole(s)
                             /\ Spoiled(s)' <=> Spoiled(s)
                             /\ Accounted(s)' <=> Accounted(s)
         /\ Listed' = Listed /\ DescribedSteps' = DescribedSteps
         /\ \A x : Below(x)' <=> Below(x)
         /\ \A x : Beyond(x)' <=> Beyond(x)
         /\ \A x \in Steps : Untold(x)' <=> Untold(x)
         /\ Sound => Sound'
<1>1. \A s \in Steps : Whole(s)' <=> Whole(s)
  BY DEF Whole, Complete, Absent, Torn
<1>2. /\ Listed' = Listed /\ DescribedSteps' = DescribedSteps
      /\ \A s \in Steps : Spoiled(s)' <=> Spoiled(s)
      /\ \A x : Below(x)' <=> Below(x)
      /\ \A x : Beyond(x)' <=> Beyond(x)
      /\ \A x \in Steps : Untold(x)' <=> Untold(x)
  BY SameMeta
<1>3. \A s \in Steps : Accounted(s)' <=> Accounted(s)
  BY <1>1, <1>2 DEF Accounted
<1>4. Sound => Sound'
  <2>1. DescribedSteps \subseteq Steps
    BY DEF DescribedSteps
  <2> QED BY <1>2, <1>3, <2>1 DEF Sound
<1> QED BY <1>1, <1>2, <1>3, <1>4

\* A checkpoint that is accounted for is described, and a described one listed.
LEMMA AccountedListed ==
  /\ \A s \in Steps : Accounted(s) => s \in DescribedSteps
  /\ DescribedSteps \subseteq Listed /\ Listed \subseteq Steps
BY DEF Accounted, Whole, Spoiled, Complete, Mixed, Absent, Torn, DescribedSteps, Listed

\* What lies beyond all there is lies beyond what the job can go back to.
LEMMA BeyondBelow == \A x : Beyond(x) => Below(x)
BY AccountedListed DEF Beyond, Below

\* Where the steps of the coordinator lie.
LEMMA CoordinatorSteps ==
  ASSUME SafeInv
  PROVE  /\ at[0] \in Nat /\ last[0] \in Int /\ last[0] <= at[0]
         /\ last[0] # -1 => last[0] \in Steps
         /\ parent[0] \notin {"step", "down"} => at[0] \in Steps
         /\ InFlight(0) => target[0] \in Steps
         /\ \A q \in Ranks : at[q] = at[0]
         /\ \A q \in Ranks : parent[q] = "dispatch" => at[q] \in Steps
         /\ \A q \in Ranks : Writing(q) => InFlight(q) /\ target[q] \in Steps
         /\ \A q \in Ranks : Early(q) => Writing(q) /\ target[q] \in Steps
<1>1. /\ at[0] \in 0 .. MaxStep /\ last[0] \in {-1} \cup Steps /\ Place(0)
      /\ \A q \in Ranks : Save(q) /\ Target(q) /\ Place(q) /\ at[q] = at[0]
  BY Constants DEF SafeInv, TypeOK, Processes, Places, Saves, Targets, Together
<1>2. /\ parent[0] \notin {"step", "down"} => at[0] \in Steps
      /\ last[0] \in Int /\ last[0] <= at[0]
  BY <1>1, Constants DEF Place, Steps
<1>3. \A q \in Ranks : parent[q] = "dispatch" => at[q] \in Steps
  BY <1>1, Constants DEF Place, Steps
<1>4. \A q \in Ranks : Writing(q) => InFlight(q) /\ target[q] \in Steps
  BY <1>1 DEF Save, Target
<1>5. \A q \in Ranks : Early(q) => Writing(q)
  BY DEF Early, Writing
<1> QED BY <1>1, <1>2, <1>3, <1>4, <1>5, Constants DEF Target

\* The invariant holds initially.
LEMMA InitDurable == Init => DurableInv
<1> SUFFICES ASSUME Init PROVE DurableInv
  OBVIOUS
<1>1. /\ Listed = {} /\ ~InFlight(0) /\ pointer \notin Steps /\ last[0] = -1 /\ at[0] = 0
      /\ parent[0] = "step" /\ victim = 0 /\ future[0] = "none" /\ job = 1 /\ ~stale
      /\ \A q \in Ranks : /\ writer[q] = "none" /\ joiner[q] = "none"
                          /\ parent[q] = "step"
      /\ \A s \in Steps : /\ dir[s].meta = Absent
                          /\ \A q \in Ranks : dir[s].result[q] = Absent
  BY Constants DEF Init, Listed, EmptyDir, NoFiles, Absent, Steps, InFlight, All
<1>2. DescribedSteps = {}
  BY <1>1, AccountedListed
<1>3. Gathers
  BY <1>1, Constants DEF Gathers, Shards, Results, ResultOf, Coordinator, Children, Ages,
     Dates, Unmixed, Spoiled, Mixed, Absent, Gathering, Gathered, Described
<1>4. Points
  BY <1>1, <1>2, Constants DEF Points, Settled, Others, Late, InFlight, Publishing, Sound,
     NotYet, Early
<1>5. Orders
  <2>1. \A c \in SaveSteps : 0 < c
    BY Constants DEF Steps
  <2> QED BY <1>1, <2>1 DEF Orders, NextSave, OneAhead, Spared, InFlight
<1> QED BY <1>3, <1>4, <1>5 DEF DurableInv

----------------------------------------------------------------------------
(***************************************************************************)
(* Steps of the writers that leave shards, results and metadata alone.     *)
(***************************************************************************)
Advanced(q) ==
  \/ writer'[q] = writer[q] /\ outcome'[q] = outcome[q]
  \/ /\ Writing(q) /\ writer'[q] = "exited"
     /\ outcome'[q] = "ok" => writer[q] = "exiting"
  \/ writer[q] = "report" /\ writer'[q] = "exiting"
  \/ /\ writer[q] \in {"start", "plan", "readPlans"}
     /\ writer'[q] \in {"plan", "readPlans", "shard"}

LEMMA WritersAdvance ==
  ASSUME SafeInv, DurableInv, \A q \in Ranks : Advanced(q),
         UNCHANGED <<isAsync, stale, job, parent, at, last, target, joiner, future,
                     pointer, victim>>,
         \A s \in Steps : /\ dir'[s].meta = dir[s].meta /\ dir'[s].shard = dir[s].shard
                          /\ dir'[s].result = dir[s].result,
         writer[0] # "readPlans" => got'[0] = got[0],
         writer[0] = "readPlans" /\ writer'[0] \in {"plan", "shard"} => got'[0] = {}
  PROVE  DurableInv'
<1>0. /\ \A s \in Steps : /\ Accounted(s)' <=> Accounted(s)
                          /\ Spoiled(s)' <=> Spoiled(s)
      /\ Listed' = Listed /\ DescribedSteps' = DescribedSteps
      /\ \A x : Below(x)' <=> Below(x)
      /\ \A x : Beyond(x)' <=> Beyond(x)
      /\ \A x \in Steps : Untold(x)' <=> Untold(x)
      /\ Sound => Sound'
  BY SameDisk
<1>1. /\ \A q \in Ranks : /\ InFlight(q)' <=> InFlight(q)
                          /\ Early(q)' => Early(q)
      /\ Idle' <=> Idle
  BY DEF InFlight, Idle, Early, Advanced
<1>2. Shards' /\ Coordinator' /\ Children'
  <2>1. \A q \in Ranks : target[q] \in Steps \/ ~Writing(q)
    BY DEF SafeInv, Processes, Saves, Save, Targets, Target
  <2> QED BY <2>1 DEF DurableInv, Gathers, Shards, Coordinator, Children, Advanced, Writing
<1>3. Results'
  BY DEF DurableInv, Gathers, Results, ResultOf, Advanced, Writing
<1>4. Ages'
  BY <1>0 DEF DurableInv, Gathers, Ages, Dates, Unmixed
<1>5. Gathered' => Gathered
  BY <1>1, Constants DEF Gathered, Advanced
<1>6. \A q \in Ranks : target[0] \in Steps /\ Delivered(q) => Delivered(q)'
  BY <1>1 DEF Delivered, Advanced, Writing
<1>7. /\ Writing(0) => target[0] \in Steps
      /\ Gathered => target[0] \in Steps
  BY Constants DEF SafeInv, Processes, Saves, Save, Targets, Target, Gathered
<1>8. Gathering'
  <2>1. ~stale /\ Gathered' => \A q \in Ranks : Delivered(q)'
    BY <1>5, <1>6, <1>7 DEF DurableInv, Gathers, Gathering
  <2>2. writer'[0] = "readResults" => writer[0] = "readResults" /\ got'[0] = got[0]
    BY Constants DEF Advanced
  <2>3. ~stale /\ writer'[0] = "readResults" => \A q \in got'[0] : Delivered(q)'
    <3>1. got[0] \subseteq Ranks
      BY Constants DEF SafeInv, TypeOK
    <3> QED
      BY <1>6, <1>7, <2>2, <3>1 DEF DurableInv, Gathers, Gathering, Writing
  <2>4. writer'[0] \in {"start", "plan", "shard", "sharding", "result", "resulting"}
        => got'[0] = {}
    BY Constants DEF DurableInv, Gathers, Gathering, Advanced
  <2> QED BY <2>1, <2>3, <2>4 DEF Gathering
<1>9. Described'
  <2>1. writer'[0] = "describing" => writer[0] = "describing"
    BY Constants DEF Advanced
  <2>2. Gathered' /\ writer'[0] \notin {"meta", "describing"} =>
          writer[0] \notin {"meta", "describing"}
    BY <1>5, Constants DEF Gathered, Advanced
  <2> QED BY <1>5, <1>7, <2>1, <2>2 DEF DurableInv, Gathers, Described, Writing
<1>10. Settled' /\ Sound'
  BY <1>0, <1>1, CoordinatorSteps DEF DurableInv, Points, Settled
<1>11. Others'
  BY <1>0, <1>1 DEF DurableInv, Points, Others, Late, Advanced, Writing
<1>12. Publishing' /\ NotYet'
  <2>1. Publishing'
    BY <1>0, <1>1, CoordinatorSteps, Constants DEF DurableInv, Points, Publishing
  <2>2. NotYet'
    BY <1>0, <1>1, CoordinatorSteps, Constants DEF DurableInv, Points, NotYet
  <2> QED BY <2>1, <2>2
<1>13. Orders'
  BY <1>0, <1>1, Constants DEF DurableInv, Orders, NextSave, OneAhead, Spared
<1> QED
  BY <1>2, <1>3, <1>4, <1>8, <1>9, <1>10, <1>11, <1>12, <1>13
  DEF DurableInv, Gathers, Points

\* Planning, its exchange, the report and the end of a writer.
LEMMA WriterAdvances ==
  ASSUME SafeInv, DurableInv, NEW r \in Ranks,
         \/ UseCache(r) \/ WritePlan(r) \/ (\E q \in Ranks : ReadPlan(r, q))
         \/ Report(r) \/ Exit(r) \/ ReadTimeout(r) \/ ChildFails(r)
  PROVE  DurableInv'
<1>0. /\ writer = [q \in Ranks |-> writer[q]] /\ outcome = [q \in Ranks |-> outcome[q]]
      /\ got \in [Ranks -> SUBSET Ranks]
  BY DEF SafeInv, TypeOK
<1>1. CASE UseCache(r)
  <2>1. \A q \in Ranks : Advanced(q)
    BY <1>0, <1>1 DEF Advanced, Writing, UseCache, Step
  <2>2. /\ writer[0] # "readPlans" => got'[0] = got[0]
        /\ writer[0] = "readPlans" /\ writer'[0] \in {"plan", "shard"} => got'[0] = {}
    BY <1>0, <1>1, Constants DEF UseCache, Step
  <2> QED
    BY <1>1, <2>1, <2>2, WritersAdvance DEF UseCache, Step, loop, joining, disk
<1>2. CASE \E q \in Ranks : ReadPlan(r, q)
  <2>1. \A q \in Ranks : Advanced(q)
    BY <1>0, <1>2 DEF Advanced, Writing, ReadPlan, Step
  <2>2. /\ writer[0] # "readPlans" => got'[0] = got[0]
        /\ writer[0] = "readPlans" /\ writer'[0] \in {"plan", "shard"} => got'[0] = {}
    BY <1>0, <1>2, Constants DEF ReadPlan, Step
  <2> QED
    BY <1>2, <2>1, <2>2, WritersAdvance DEF ReadPlan, Step, loop, joining, disk
<1>3. CASE Report(r)
  <2>1. \A q \in Ranks : Advanced(q)
    BY <1>0, <1>3 DEF Advanced, Writing, Report, Step
  <2>2. /\ writer[0] # "readPlans" => got'[0] = got[0]
        /\ writer[0] = "readPlans" /\ writer'[0] \in {"plan", "shard"} => got'[0] = {}
    BY <1>0, <1>3, Constants DEF Report, Step
  <2> QED
    BY <1>3, <2>1, <2>2, WritersAdvance DEF Report, Step, loop, joining, disk
<1>4. CASE Exit(r)
  <2>1. \A q \in Ranks : Advanced(q)
    BY <1>0, <1>4 DEF Advanced, Writing, Exit, Step
  <2>2. /\ writer[0] # "readPlans" => got'[0] = got[0]
        /\ writer[0] = "readPlans" /\ writer'[0] \in {"plan", "shard"} => got'[0] = {}
    BY <1>0, <1>4, Constants DEF Exit, Step
  <2> QED
    BY <1>4, <2>1, <2>2, WritersAdvance DEF Exit, Step, loop, joining, disk
<1>5. CASE ReadTimeout(r)
  <2>1. \A q \in Ranks : Advanced(q)
    BY <1>0, <1>5 DEF Advanced, Writing, ReadTimeout
  <2>2. /\ writer[0] # "readPlans" => got'[0] = got[0]
        /\ writer[0] = "readPlans" /\ writer'[0] \in {"plan", "shard"} => got'[0] = {}
    BY <1>0, <1>5, Constants DEF ReadTimeout
  <2> QED
    BY <1>5, <2>1, <2>2, WritersAdvance DEF ReadTimeout, loop, joining, disk
<1>6. CASE ChildFails(r)
  <2>1. \A q \in Ranks : Advanced(q)
    BY <1>0, <1>6 DEF Advanced, Writing, ChildFails
  <2>2. /\ writer[0] # "readPlans" => got'[0] = got[0]
        /\ writer[0] = "readPlans" /\ writer'[0] \in {"plan", "shard"} => got'[0] = {}
    BY <1>0, <1>6, Constants DEF ChildFails
  <2> QED
    BY <1>6, <2>1, <2>2, WritersAdvance DEF ChildFails, loop, joining, disk
<1>7. CASE WritePlan(r)
  <2>1. \A q \in Ranks : Advanced(q)
    BY <1>0, <1>7 DEF Advanced, WritePlan, Close, Step, OnDisk
  <2>2. \A s \in Steps : /\ dir'[s].meta = dir[s].meta /\ dir'[s].shard = dir[s].shard
                         /\ dir'[s].result = dir[s].result
    BY <1>7 DEF WritePlan, Close, SafeInv, TypeOK
  <2>3. /\ writer[0] # "readPlans" => got'[0] = got[0]
        /\ writer[0] = "readPlans" /\ writer'[0] \in {"plan", "shard"} => got'[0] = {}
    BY <1>0, <1>7, Constants DEF WritePlan, Close, Step, OnDisk
  <2> QED
    BY <1>7, <2>1, <2>2, <2>3, WritersAdvance DEF WritePlan, OnDisk, loop, joining
<1> QED
  BY <1>1, <1>2, <1>3, <1>4, <1>5, <1>6, <1>7

\* Plans that are gathered in place.
LEMMA GatherPlansAdvances == ASSUME SafeInv, DurableInv, GatherPlans PROVE DurableInv'
<1>1. \A q \in Ranks : Advanced(q) /\ writer[q] = "plan"
  BY DEF Advanced, GatherPlans, All
<1>2. writer[0] # "readPlans"
  BY <1>1, Constants
<1> QED BY <1>1, <1>2, WritersAdvance DEF GatherPlans, loop, joining, disk

----------------------------------------------------------------------------
(***************************************************************************)
(* Steps of the threads, except those that publish and resolve the save of *)
(* the coordinator.                                                        *)
(***************************************************************************)
LEMMA ThreadsAdvance ==
  ASSUME SafeInv, DurableInv,
         UNCHANGED <<isAsync, stale, job, parent, at, last, writer, target, got, outcome, dir,
                     pointer, victim>>,
         \A q \in Ranks : joiner[q] = "none" => joiner'[q] = "none",
         \A q \in Ranks : Writing(q) /\ joiner[q] # "none" => joiner'[q] # "none",
         joiner'[0] = "resolve" <=> joiner[0] = "resolve",
         joiner'[0] = "none" => \/ joiner[0] = "none" /\ future'[0] = future[0]
                                \/ future'[0] = "failed",
         joiner'[0] # "none" => future'[0] # "ok"
  PROVE  DurableInv'
<1>0. /\ \A s \in Steps : /\ Accounted(s)' <=> Accounted(s)
                          /\ Spoiled(s)' <=> Spoiled(s)
      /\ Listed' = Listed /\ DescribedSteps' = DescribedSteps
      /\ \A x : Below(x)' <=> Below(x)
      /\ \A x : Beyond(x)' <=> Beyond(x)
      /\ \A x \in Steps : Untold(x)' <=> Untold(x)
      /\ Sound => Sound'
  BY SameDisk
<1>1. /\ \A q \in Ranks : /\ InFlight(q)' => InFlight(q)
                          /\ Early(q)' <=> Early(q)
                          /\ Delivered(q)' <=> Delivered(q)
                          /\ Writing(q)' <=> Writing(q)
      /\ Idle' => Idle
      /\ Gathered' => Gathered
  BY Constants DEF InFlight, Idle, Early, Delivered, Gathered, Writing
<1>2. Gathers'
  <2>1. Shards' /\ Results' /\ Coordinator' /\ Children'
    BY <1>1 DEF DurableInv, Gathers, Shards, Results, ResultOf, Coordinator, Children,
       Writing
  <2>2. Ages'
    BY <1>0 DEF DurableInv, Gathers, Ages, Dates, Unmixed
  <2>3. Gathering' /\ Described'
    BY <1>1, Constants DEF DurableInv, Gathers, Gathering, Described, SafeInv, TypeOK
  <2> QED BY <2>1, <2>2, <2>3 DEF Gathers
<1>3. Settled' /\ Sound'
  BY <1>0, <1>1, CoordinatorSteps DEF DurableInv, Points, Settled
<1>4. Others'
  BY <1>0, <1>1 DEF DurableInv, Points, Others, Late
<1>5. Publishing'
  BY <1>0, <1>1, CoordinatorSteps, Constants DEF DurableInv, Points, Publishing
<1>6. NotYet'
  BY <1>0, <1>1, CoordinatorSteps, Constants DEF DurableInv, Points, NotYet
<1>7. Orders'
  BY <1>0, <1>1, Constants DEF DurableInv, Orders, NextSave, OneAhead, Spared
<1> QED BY <1>2, <1>3, <1>4, <1>5, <1>6, <1>7 DEF DurableInv, Points

\* The thread that joins one child, but for the resolution on rank 0.
LEMMA ThreadAdvances ==
  ASSUME SafeInv, DurableInv, NEW r \in Ranks,
         \/ Poll(r) \/ LookAlive(r) \/ LookAgain(r) \/ Joined(r) \/ (Resolve(r) /\ r # 0)
  PROVE  DurableInv'
<1>0. \A q \in Ranks : Writing(q) /\ joiner[q] # "none" => joiner'[q] # "none"
  <2>1. Writing(r) => joiner[r] # "resolve" /\ writer[r] # "exited"
    BY DEF SafeInv, Processes, Saves, Save, Writing
  <2> QED
    BY <2>1 DEF SafeInv, TypeOK, Poll, LookAlive, LookAgain, Joined, Resolve, Join
<1>1. /\ \A q \in Ranks : joiner[q] = "none" => joiner'[q] = "none"
      /\ joiner'[0] = "resolve" <=> joiner[0] = "resolve"
      /\ \/ r # 0 /\ joiner'[0] = joiner[0] /\ future'[0] = future[0]
         \/ r = 0 /\ joiner[0] # "none" /\ joiner'[0] # "none" /\ future'[0] = future[0]
         \/ r = 0 /\ joiner[0] # "none" /\ future'[0] = "failed"
  BY Constants
  DEF SafeInv, TypeOK, Poll, LookAlive, LookAgain, Joined, Resolve, Join
<1>2. joiner[0] # "none" => future[0] = "pending"
  BY Constants DEF SafeInv, Processes, Saves, Save
<1>3. UNCHANGED <<isAsync, stale, job, parent, at, last, writer, target, got, outcome, dir, pointer, victim>>
  BY DEF Poll, LookAlive, LookAgain, Joined, Resolve, loop, saving, disk
<1> QED BY <1>0, <1>1, <1>2, <1>3, ThreadsAdvance

----------------------------------------------------------------------------
(***************************************************************************)
(* Steps of the training loop of one rank.                                 *)
(***************************************************************************)
LEMMA LoopMoves ==
  ASSUME SafeInv, DurableInv, NEW r \in Ranks, NEW to,
         parent[r] \notin InPlace \cup {"dispatch", "down"},
         to \notin InPlace \cup {"dispatch", "down"},
         parent' = [parent EXCEPT ![r] = to],
         UNCHANGED <<isAsync, stale, job, at, last, writer, target, got, outcome, joiner, dir,
                     pointer, victim>>,
         Idle' => Idle, future'[0] = "ok" => future[0] = "ok", NextSave'
  PROVE  DurableInv'
<1>0. /\ \A s \in Steps : /\ Accounted(s)' <=> Accounted(s)
                          /\ Spoiled(s)' <=> Spoiled(s)
      /\ Listed' = Listed /\ DescribedSteps' = DescribedSteps
      /\ \A x : Below(x)' <=> Below(x)
      /\ \A x : Beyond(x)' <=> Beyond(x)
      /\ \A x \in Steps : Untold(x)' <=> Untold(x)
      /\ Sound => Sound'
  BY SameDisk
<1>1. /\ \A q \in Ranks : \/ parent'[q] = parent[q]
                          \/ /\ parent[q] \notin {"saving", "publish", "saved", "dispatch", "down"}
                             /\ parent'[q] \notin {"saving", "publish", "saved", "dispatch", "down"}
  BY DEF SafeInv, TypeOK, InPlace
<1>2. /\ \A q \in Ranks : /\ InFlight(q)' <=> InFlight(q)
                          /\ Early(q)' <=> Early(q)
                          /\ Delivered(q)' <=> Delivered(q)
                          /\ Writing(q)' <=> Writing(q)
      /\ Gathered' <=> Gathered
  BY <1>1, Constants DEF InFlight, Early, Delivered, Gathered, Writing
<1>3. Results'
  <2>1. parent'[0] # "down" => parent[0] # "down"
    BY <1>1, Constants
  <2> QED BY <1>1, <2>1 DEF DurableInv, Gathers, Results, ResultOf
<1>4. Ages'
  BY <1>0 DEF DurableInv, Gathers, Ages, Dates, Unmixed
<1>5. Shards' /\ Coordinator' /\ Children' /\ Gathering' /\ Described'
  BY <1>2, Constants DEF DurableInv, Gathers, Shards, Coordinator, Children, Gathering,
     Described, SafeInv, TypeOK
<1>6. Settled' /\ Sound'
  BY <1>0, <1>1, CoordinatorSteps, Constants DEF DurableInv, Points, Settled
<1>7. Others'
  BY <1>0, <1>1, <1>2, Constants DEF DurableInv, Points, Others, Late
<1>8. Publishing'
  BY <1>0, <1>1, <1>2, CoordinatorSteps, Constants DEF DurableInv, Points, Publishing
<1>9. NotYet'
  BY <1>0, <1>1, <1>2, CoordinatorSteps, Constants DEF DurableInv, Points, NotYet
<1>10. Orders'
  BY <1>0, <1>1, <1>2, Constants DEF DurableInv, Orders, OneAhead, Spared
<1> QED BY <1>3, <1>4, <1>5, <1>6, <1>7, <1>8, <1>9, <1>10 DEF DurableInv, Gathers, Points

\* Where an idle coordinator stands.
LEMMA IdleIs == Idle <=> /\ joiner[0] = "none" /\ future[0] # "failed"
                         /\ parent[0] \notin {"saving", "publish", "saved", "dispatch",
                                              "raised", "down"}
BY DEF Idle, InPlace

\* on_step_end: no step that is to be saved is passed over.
LEMMA StepEndMoves ==
  ASSUME SafeInv, DurableInv, NEW r \in Ranks, StepEnd(r) PROVE DurableInv'
<1> DEFINE to == IF future[r] = "failed" THEN "raised"
                 ELSE IF at[r] \in Cadence /\ at[r] # last[r] THEN "wait"
                 ELSE AfterStep(r)
<1>1. /\ parent[r] = "end" /\ parent' = [parent EXCEPT ![r] = to]
      /\ future' = [future EXCEPT ![r] = IF @ = "pending" THEN @ ELSE "none"]
      /\ UNCHANGED <<isAsync, stale, job, at, last, writer, target, got, outcome, joiner,
                     dir, pointer, victim>>
  BY DEF StepEnd, Goto, saving, disk
<1>2. /\ to \in {"raised", "wait", "last", "step"}
      /\ future[r] = "failed" => to = "raised"
  BY DEF AfterStep
<1>3. NextSave'
  <2>1. r # 0 => parent'[0] = parent[0]
    <3> HIDE DEF to
    <3> QED BY <1>1, Constants DEF SafeInv, TypeOK
  <2>2. CASE r # 0
    BY <1>1, <2>1, <2>2 DEF DurableInv, Orders, NextSave
  <2>3. CASE r = 0
    <3>1. ASSUME at[0] \in SaveSteps, last[0] < at[0]
          PROVE  to \in {"raised", "wait", "last"}
      BY <2>3, <3>1, CoordinatorSteps DEF AfterStep, SaveSteps
    <3>2. parent'[0] = to /\ parent[0] = "end"
      <4> HIDE DEF to
      <4> QED BY <1>1, <2>3, Constants DEF SafeInv, TypeOK
    <3> HIDE DEF to
    <3> QED BY <1>1, <3>1, <3>2 DEF DurableInv, Orders, NextSave, Unsaved
  <2> QED BY <2>2, <2>3
<1> HIDE DEF to
<1>4. /\ Idle' => Idle
      /\ future'[0] = "ok" => future[0] = "ok"
  BY <1>1, <1>2, IdleIs, Constants DEF SafeInv, TypeOK, Idle, InPlace
<1> QED BY <1>1, <1>2, <1>3, <1>4, LoopMoves DEF InPlace

\* on_train_end.
LEMMA TrainEndMoves ==
  ASSUME SafeInv, DurableInv, NEW r \in Ranks, TrainEnd(r) PROVE DurableInv'
<1> DEFINE to == IF at[r] # last[r] THEN "wait" ELSE "drain"
<1>1. /\ parent[r] = "last" /\ parent' = [parent EXCEPT ![r] = to]
      /\ UNCHANGED <<isAsync, stale, job, at, last, writer, target, got, outcome, joiner, future,
                     dir, pointer, victim>>
  BY DEF TrainEnd, Goto, saving, joining, disk
<1>2. to \in {"wait", "drain"} /\ (at[r] # last[r] => to = "wait")
  OBVIOUS
<1> HIDE DEF to
<1>3. NextSave'
  <2>1. parent'[0] = IF r = 0 THEN to ELSE parent[0]
    BY <1>1, Constants DEF SafeInv, TypeOK
  <2> QED
    BY <1>1, <1>2, <2>1, CoordinatorSteps DEF DurableInv, Orders, NextSave, Unsaved
<1>4. Idle' => Idle
  BY <1>1, <1>2, Constants DEF SafeInv, TypeOK, Idle, InPlace
<1> QED BY <1>1, <1>2, <1>3, <1>4, LoopMoves DEF InPlace

\* maybe_wait_for_async_save.
LEMMA WaitMoves ==
  ASSUME SafeInv, DurableInv, NEW r \in Ranks, Wait(r) PROVE DurableInv'
<1> DEFINE to == IF future[r] = "failed" THEN "raised"
                 ELSE IF parent[r] = "drain" THEN "final"
                 ELSE IF isAsync /\ last[r] >= 0 THEN "prune" ELSE "barrier"
<1>1. /\ parent[r] \in {"wait", "drain"} /\ parent' = [parent EXCEPT ![r] = to]
      /\ future' = [future EXCEPT ![r] = "none"]
      /\ UNCHANGED <<isAsync, stale, job, at, last, writer, target, got, outcome, joiner,
                     dir, pointer, victim>>
  BY DEF Wait, Goto, saving, disk
<1>2. /\ to \in {"raised", "final", "prune", "barrier"}
      /\ parent[r] # "drain" => to # "final"
      /\ future[r] = "failed" => to = "raised"
  OBVIOUS
<1> HIDE DEF to
<1>3. NextSave'
  <2>1. parent'[0] = IF r = 0 THEN to ELSE parent[0]
    BY <1>1, Constants DEF SafeInv, TypeOK
  <2> QED
    BY <1>1, <1>2, <2>1 DEF DurableInv, Orders, NextSave, Unsaved, InPlace
<1>4. /\ Idle' => Idle
      /\ future'[0] = "ok" => future[0] = "ok"
  BY <1>1, <1>2, Constants DEF SafeInv, TypeOK, Idle, InPlace
<1> QED BY <1>1, <1>2, <1>3, <1>4, LoopMoves DEF InPlace

\* The end of _rotate_checkpoints.
LEMMA RotatedMoves ==
  ASSUME SafeInv, DurableInv, NEW r \in Ranks, Rotated(r) PROVE DurableInv'
<1> DEFINE to == AfterRotation(r)
<1>1. /\ parent[r] \in {"prune", "trim", "final"} /\ parent' = [parent EXCEPT ![r] = to]
      /\ UNCHANGED <<isAsync, stale, job, at, last, writer, target, got, outcome, joiner, future,
                     dir, pointer, victim>>
  BY DEF Rotated, Rotating, Goto, saving, joining, disk
<1>2. /\ to \in {"barrier", "last", "step", "done"}
      /\ parent[r] = "prune" => to = "barrier"
  BY <1>1 DEF AfterRotation, AfterStep
<1> HIDE DEF to
<1>3. NextSave'
  <2>1. parent'[0] = IF r = 0 THEN to ELSE parent[0]
    BY <1>1, Constants DEF SafeInv, TypeOK
  <2> QED
    BY <1>1, <1>2, <2>1 DEF DurableInv, Orders, NextSave, Unsaved, InPlace
<1>4. Idle' => Idle
  BY <1>1, <1>2, Constants DEF SafeInv, TypeOK, Idle, InPlace
<1> QED BY <1>1, <1>2, <1>3, <1>4, LoopMoves DEF InPlace

----------------------------------------------------------------------------
(***************************************************************************)
(* Steps of the training loop that begin a save.                           *)
(***************************************************************************)
\* A training step.
LEMMA TrainStepMoves == ASSUME SafeInv, DurableInv, TrainStep PROVE DurableInv'
<1>1. /\ \A q \in Ranks : parent[q] = "step" /\ parent'[q] = "end" /\ at'[q] = at[q] + 1
      /\ UNCHANGED <<isAsync, stale, job, last, writer, target, got, outcome, joiner, future,
                     dir, pointer, victim>>
  BY DEF TrainStep, All, saving, joining, disk
<1>0. /\ \A s \in Steps : /\ Accounted(s)' <=> Accounted(s)
                          /\ Spoiled(s)' <=> Spoiled(s)
      /\ Listed' = Listed /\ DescribedSteps' = DescribedSteps
      /\ \A x : Below(x)' <=> Below(x)
      /\ \A x : Beyond(x)' <=> Beyond(x)
      /\ \A x \in Steps : Untold(x)' <=> Untold(x)
      /\ Sound => Sound'
  BY <1>1, SameDisk
<1>2. /\ \A q \in Ranks : /\ InFlight(q)' <=> InFlight(q)
                          /\ Early(q)' <=> Early(q)
                          /\ Delivered(q)' <=> Delivered(q)
                          /\ Writing(q)' <=> Writing(q)
      /\ Gathered' <=> Gathered
      /\ Idle' <=> Idle
  BY <1>1, Constants DEF InFlight, Early, Delivered, Gathered, Writing, Idle, InPlace
<1>3. Results' /\ Ages'
  <2>1. Results'
    BY <1>1, <1>2, Constants DEF DurableInv, Gathers, Results, ResultOf, InPlace
  <2>2. Ages'
    BY <1>0, <1>1 DEF DurableInv, Gathers, Ages, Dates, Unmixed
  <2> QED BY <2>1, <2>2
<1>4. Shards' /\ Coordinator' /\ Children' /\ Gathering' /\ Described'
  BY <1>1, <1>2, Constants DEF DurableInv, Gathers, Shards, Coordinator, Children, Gathering,
     Described, SafeInv, TypeOK
<1>5. Settled' /\ Sound'
  BY <1>0, <1>1, <1>2, CoordinatorSteps, Constants DEF DurableInv, Points, Settled
<1>6. Others' /\ Publishing' /\ NotYet'
  <2>1. Others' /\ Publishing'
    BY <1>0, <1>1, <1>2, Constants DEF DurableInv, Points, Others, Late, Publishing
  <2>2. NotYet'
    BY <1>0, <1>1, <1>2, CoordinatorSteps, Constants DEF DurableInv, Points, NotYet
  <2> QED BY <2>1, <2>2
<1>7. NextSave'
  <2>1. \A c \in SaveSteps : c \in Nat
    BY Constants
  <2> QED
    BY <1>1, <2>1, CoordinatorSteps, Constants
    DEF DurableInv, Orders, NextSave, Unsaved, InPlace
<1>8. OneAhead' /\ Spared'
  BY <1>0, <1>1, <1>2, Constants DEF DurableInv, Orders, OneAhead, Spared
<1> QED BY <1>3, <1>4, <1>5, <1>6, <1>7, <1>8 DEF DurableInv, Gathers, Points, Orders

\* Behind the barrier the coordinator has settled its last save, and the
\* directory that all ranks are about to write lies beyond the pointer.
LEMMA BarrierMoves == ASSUME SafeInv, DurableInv, Barrier PROVE DurableInv'
<1>1. /\ \A q \in Ranks : parent[q] = "barrier" /\ parent'[q] = "dispatch"
      /\ UNCHANGED <<isAsync, stale, job, at, last, writer, target, got, outcome, joiner, future,
                     dir, pointer, victim>>
  BY DEF Barrier, All, saving, joining, disk
<1>0. /\ \A s \in Steps : /\ Accounted(s)' <=> Accounted(s)
                          /\ Spoiled(s)' <=> Spoiled(s)
      /\ Listed' = Listed /\ DescribedSteps' = DescribedSteps
      /\ \A x : Below(x)' <=> Below(x)
      /\ \A x : Beyond(x)' <=> Beyond(x)
      /\ \A x \in Steps : Untold(x)' <=> Untold(x)
      /\ Sound => Sound'
  BY <1>1, SameDisk
<1>2. /\ \A q \in Ranks : /\ InFlight(q)' <=> InFlight(q)
                          /\ Early(q)' <=> Early(q)
                          /\ Delivered(q)' <=> Delivered(q)
      /\ Gathered' <=> Gathered
      /\ ~Idle'
  BY <1>1, Constants DEF InFlight, Early, Delivered, Gathered, Idle
<1>3. Idle /\ last[0] < at[0] /\ at[0] \in Steps
  BY <1>1, CoordinatorSteps, Constants
  DEF SafeInv, Processes, Places, Place, Saves, Save, Waited, Unsaved, Idle, InPlace
<1>4. Results' /\ Ages'
  <2>1. Results'
    BY <1>1, Constants DEF DurableInv, Gathers, Results, ResultOf, InPlace
  <2>2. Ages'
    BY <1>0, <1>1 DEF DurableInv, Gathers, Ages, Dates, Unmixed
  <2> QED BY <2>1, <2>2
<1>5. Shards' /\ Coordinator' /\ Children' /\ Gathering' /\ Described'
  BY <1>1, <1>2, Constants DEF DurableInv, Gathers, Shards, Coordinator, Children, Gathering,
     Described, SafeInv, TypeOK
<1>6. Settled' /\ Sound'
  BY <1>0, <1>1, <1>3, CoordinatorSteps, Constants DEF DurableInv, Points, Settled
<1>7. Others' /\ Publishing'
  BY <1>0, <1>1, <1>2, Constants DEF DurableInv, Points, Others, Late, Publishing
<1>8. NotYet'
  <2>1. Untold(at[0])
    <3>1. Listed \subseteq Nat
      BY Constants DEF Listed
    <3>2. Beyond(at[0])
      BY <1>3, <3>1, CoordinatorSteps DEF DurableInv, Points, Settled, Beyond
    <3> QED BY <3>2, BeyondBelow DEF Untold
  <2>2. /\ Early(0)' => Beyond(target[0])'
        /\ \A q \in Ranks : Early(q)' => Untold(target[q])'
    BY <1>0, <1>1, <1>2, CoordinatorSteps, Constants DEF DurableInv, Points, NotYet
  <2>3. \A q \in Ranks : at'[q] = at[0]
    BY <1>1, CoordinatorSteps
  <2>4. \A q \in Ranks : Untold(at[q])'
    BY <1>0, <1>1, <1>3, <2>1, <2>3, CoordinatorSteps
  <2> QED BY <2>2, <2>4 DEF NotYet
<1>9. Orders'
  BY <1>0, <1>1, <1>2, Constants DEF DurableInv, Orders, NextSave, OneAhead, Spared, Unsaved
<1> QED BY <1>4, <1>5, <1>6, <1>7, <1>8, <1>9 DEF DurableInv, Gathers, Points

\* When the coordinator has gathered what this incarnation wrote, nobody is
\* about to dispatch.
LEMMA GatheredTogether ==
  ASSUME SafeInv, DurableInv
  PROVE  /\ ~stale /\ Gathered => \A q \in Ranks : parent[q] # "dispatch"
         /\ \A q \in Ranks : parent[q] = "dispatch" => ~Delivered(q) \/ ~InFlight(0)
<1>1. ASSUME NEW q \in Ranks, parent[q] = "dispatch", InFlight(0), Delivered(q)
      PROVE  FALSE
  <2>1. target[0] = at[q] /\ target[0] \in Steps
    BY <1>1, CoordinatorSteps, Constants DEF SafeInv, Processes, OneSave
  <2>2. target[q] = 0 \/ target[q] <= last[q]
    BY <1>1 DEF SafeInv, Processes, Targets, Target, InPlace
  <2>3. last[q] < at[q]
    BY <1>1 DEF SafeInv, Processes, Places, Place, Unsaved
  <2>4. target[q] = target[0]
    BY <1>1 DEF Delivered
  <2>5. last[q] \in Int /\ at[q] \in Int /\ at[q] # 0
    BY <2>1, Constants DEF SafeInv, TypeOK, Steps
  <2> QED BY <2>1, <2>2, <2>3, <2>4, <2>5
<1> QED BY <1>1 DEF Gathered, DurableInv, Gathers, Gathering

\* When the coordinator has written the metadata, the directory is accounted
\* for, and a rank that has still to write there does it under Mixed metadata.
LEMMA GatheredAccounted ==
  ASSUME SafeInv, DurableInv, Gathered, writer[0] \notin {"meta", "describing"}
  PROVE  /\ Accounted(target[0])
         /\ \A q \in Ranks : /\ InFlight(q) => target[q] = target[0]
                             /\ parent[q] = "dispatch" => at[q] = target[0]
                             /\ Late(q) => Spoiled(target[0])
<1>1. \A q \in Ranks : /\ InFlight(q) => target[q] = target[0]
                       /\ parent[q] = "dispatch" => at[q] = target[0]
  BY CoordinatorSteps, Constants DEF Gathered, SafeInv, Processes, OneSave
<1>2. CASE stale
  BY <1>1, <1>2 DEF DurableInv, Gathers, Described, Spoiled, Accounted
<1>3. CASE ~stale
  <2>1. \A q \in Ranks : Delivered(q) /\ parent[q] # "dispatch"
    BY <1>3, GatheredTogether DEF DurableInv, Gathers, Gathering
  <2>2. dir[target[0]].meta = job /\ job \in Jobs
    BY <1>3 DEF DurableInv, Gathers, Described, SafeInv, TypeOK
  <2>3. Whole(target[0])
    BY <2>1, <2>2, Constants DEF Whole, Complete, Delivered, Jobs, Absent, Torn
  <2>4. \A q \in Ranks : ~Late(q)
    <3>1. writer[0] \in {"report", "exiting", "exited"}
      BY DEF Gathered
    <3>2. \A q \in Ranks : writer[q] \in {"report", "exiting", "exited"}
      BY <2>1, <3>1 DEF Delivered
    <3> QED BY <2>1, <3>2 DEF Late, Early
  <2> QED BY <1>1, <2>3, <2>4 DEF Accounted
<1> QED BY <1>2, <1>3

\* The save of a rank begins: it writes beyond the pointer, or in a directory
\* the coordinator has finished with.
LEMMA DispatchMoves ==
  ASSUME SafeInv, DurableInv, NEW r \in Ranks, Dispatch(r) PROVE DurableInv'
<1>1. /\ parent[r] = "dispatch"
      /\ writer' = [writer EXCEPT ![r] = "start"]
      /\ target' = [target EXCEPT ![r] = at[r]]
      /\ got' = [got EXCEPT ![r] = {}]
      /\ outcome' = [outcome EXCEPT ![r] = "none"]
      /\ UNCHANGED <<isAsync, job, at, cache, dir, pointer, victim>>
  BY DEF Dispatch, disk
<1>2. \/ /\ isAsync
         /\ joiner' = [joiner EXCEPT ![r] = "poll"]
         /\ future' = [future EXCEPT ![r] = "pending"]
         /\ last' = [last EXCEPT ![r] = at[r]]
         /\ \/ parent' = [parent EXCEPT ![r] = "last"]
            \/ parent' = [parent EXCEPT ![r] = "step"]
      \/ /\ parent' = [parent EXCEPT ![r] = "saving"]
         /\ UNCHANGED <<joiner, future, last>>
  BY DEF Dispatch, InBackground, Goto, AfterStep
<1>3. /\ joiner[r] = "none" /\ future[r] = "none" /\ last[r] < at[r] /\ at[r] \in SaveSteps
      /\ at[r] = at[0]
  BY <1>1, CoordinatorSteps
  DEF SafeInv, Processes, Places, Place, Saves, Save, Waited, Unsaved, InPlace
<1>4. /\ writer'[r] = "start" /\ target'[r] = at[r] /\ got'[r] = {}
      /\ future'[r] \in {"pending", "none"}
      /\ \A q \in Ranks \ {r} :
           /\ writer'[q] = writer[q] /\ target'[q] = target[q] /\ got'[q] = got[q]
           /\ outcome'[q] = outcome[q] /\ parent'[q] = parent[q] /\ joiner'[q] = joiner[q]
           /\ future'[q] = future[q] /\ last'[q] = last[q]
  BY <1>1, <1>2, <1>3 DEF SafeInv, TypeOK
<1>5. /\ parent'[r] \in {"last", "step", "saving"}
      /\ parent'[r] # "saving" => joiner'[r] = "poll" /\ last'[r] = at[r] /\ isAsync
      /\ parent'[r] = "saving" => joiner'[r] = "none" /\ last'[r] = last[r]
  BY <1>1, <1>2, <1>3 DEF SafeInv, TypeOK
<1>6. /\ r # 0 => (stale' <=> stale)
      /\ r = 0 => ~stale'
  BY DEF Dispatch
<1>7. /\ \A s \in Steps : /\ Accounted(s)' <=> Accounted(s)
                          /\ Spoiled(s)' <=> Spoiled(s)
      /\ Listed' = Listed /\ DescribedSteps' = DescribedSteps
      /\ \A x : Below(x)' <=> Below(x)
      /\ \A x : Beyond(x)' <=> Beyond(x)
      /\ \A x \in Steps : Untold(x)' <=> Untold(x)
      /\ Sound => Sound'
  BY <1>1, SameDisk
<1>8. /\ r = 0 => ~Idle' /\ ~Gathered' /\ Beyond(at[0]) /\ ~Idle
      /\ r # 0 => (Idle' <=> Idle) /\ (Gathered' <=> Gathered)
  <2>1. CASE r = 0
    <3>1. ~Idle' /\ ~Gathered' /\ ~Idle
      BY <1>1, <1>4, <1>5, <2>1 DEF Gathered, Idle, InPlace
    <3>2. Beyond(at[0])
      <4>1. Listed \subseteq Nat
        BY Constants DEF Listed
      <4> QED
        BY <1>1, <1>3, <2>1, <4>1, CoordinatorSteps DEF DurableInv, Points, Settled, Beyond
    <3> QED BY <2>1, <3>1, <3>2
  <2>2. CASE r # 0
    BY <2>2, <1>4, Constants DEF Gathered, Idle, InFlight
  <2> QED BY <2>1, <2>2
<1>9. parent[0] \notin {"publish", "saved"} /\ parent'[0] \notin {"publish", "saved"}
  <2>1. parent[0] \notin {"publish", "saved"}
    BY <1>1 DEF DurableInv, Points, Others
  <2> QED BY <2>1, <1>4, <1>5, Constants
<1>10. Shards' /\ Coordinator' /\ Children'
  BY <1>1, <1>4, <1>5 DEF DurableInv, Gathers, Shards, Coordinator, Children
<1>11. Results'
  <2>1. parent[0] # "down"
    BY <1>1, Constants DEF SafeInv, Processes, Together
  <2>2. ASSUME NEW s \in Steps, dir[s].result[r] = job PROVE s < at[r]
    <3>1. ResultOf(s, r)
      BY <2>1 DEF DurableInv, Gathers, Results
    <3>2. target[r] = 0 \/ target[r] <= last[r]
      BY <1>1 DEF SafeInv, Processes, Targets, Target, InPlace
    <3>3. s \in Nat /\ s # 0 /\ target[r] \in Int /\ last[r] \in Int /\ at[r] \in Int
      BY Constants DEF SafeInv, TypeOK, Steps
    <3> QED BY <1>3, <2>2, <3>1, <3>2, <3>3 DEF ResultOf
  <2> SUFFICES ASSUME NEW s \in Steps, NEW q \in Ranks PROVE ResultOf(s, q)'
    BY DEF Results
  <2>3. CASE q = r
    <3>1. s \in Int /\ at[r] \in Int
      BY Constants DEF SafeInv, TypeOK, Steps
    <3> QED BY <1>1, <1>4, <2>2, <2>3, <3>1 DEF ResultOf
  <2>4. CASE q # r
    BY <1>1, <1>4, <2>1, <2>4 DEF DurableInv, Gathers, Results, ResultOf
  <2> QED BY <2>3, <2>4
<1>12. Ages' /\ Described'
  <2>1. Ages'
    BY <1>1, <1>6, <1>7 DEF DurableInv, Gathers, Ages, Dates, Unmixed
  <2>2. Described'
    BY <1>1, <1>4, <1>6, <1>8, Constants DEF DurableInv, Gathers, Described
  <2> QED BY <2>1, <2>2
<1>13. Gathering'
  <2>1. CASE r = 0
    BY <1>4, <1>8, <2>1 DEF Gathering
  <2>2. CASE r # 0
    <3>1. /\ writer'[0] = writer[0] /\ got'[0] = got[0] /\ target'[0] = target[0]
          /\ stale' <=> stale
      BY <1>4, <1>6, <2>2, Constants
    <3>2. \A q \in Ranks \ {r} : Delivered(q) => Delivered(q)'
      BY <1>1, <1>4, <3>1 DEF Delivered
    <3>3. writer[0] = "readResults" => InFlight(0)
      BY CoordinatorSteps, Constants DEF Writing
    <3>4. (~stale /\ writer[0] = "readResults") => r \notin got[0] /\ got[0] \subseteq Ranks
      BY <1>1, <3>3, GatheredTogether, Constants
      DEF DurableInv, Gathers, Gathering, SafeInv, TypeOK
    <3>5. stale \/ ~Gathered'
      BY <1>1, <1>8, <2>2, GatheredTogether
    <3> QED
      BY <3>1, <3>2, <3>4, <3>5 DEF DurableInv, Gathers, Gathering
  <2> QED BY <2>1, <2>2
<1>14. Settled'
  <2>1. CASE r = 0
    BY <1>5, <1>8, <2>1 DEF Settled
  <2>2. CASE r # 0
    BY <1>1, <1>4, <1>7, <1>8, <2>2, Constants DEF DurableInv, Points, Settled
  <2> QED BY <2>1, <2>2
<1>15. Others'
  <2> SUFFICES ASSUME Idle', NEW q \in Ranks
               PROVE  /\ InFlight(q)' => target'[q] = last'[0]
                      /\ parent'[q] = "dispatch" => at'[q] = last'[0]
                      /\ Late(q)' => last'[0] \in Steps /\ Spoiled(last[0])'
    BY <1>9 DEF Others
  <2>1. /\ r # 0 /\ Idle /\ last'[0] = last[0]
        /\ last[0] \in Steps => (Spoiled(last[0])' <=> Spoiled(last[0]))
    <3>1. r # 0 /\ Idle
      BY <1>8
    <3>2. last'[0] = last[0]
      BY <1>4, <3>1, Constants
    <3> QED BY <1>1, <3>1, <3>2 DEF Spoiled
  <2>2. CASE q = r
    BY <1>1, <1>4, <1>5, <2>1, <2>2 DEF DurableInv, Points, Others, Late
  <2>3. CASE q # r
    <3>1. (InFlight(q)' <=> InFlight(q)) /\ (Late(q)' <=> Late(q))
      BY <1>4, <2>3 DEF InFlight, Late, Early
    <3> QED BY <1>1, <1>4, <2>1, <2>3, <3>1 DEF DurableInv, Points, Others
  <2> QED BY <2>2, <2>3
<1>16. Publishing'
  <2>1. CASE r = 0
    <3>1. pointer \in Steps => pointer < at[0]
      BY <1>1, <1>3, <2>1 DEF DurableInv, Points, Settled
    <3> QED BY <1>1, <1>4, <1>5, <1>9, <2>1, <3>1 DEF Publishing
  <2>2. CASE r # 0
    BY <1>1, <1>4, <1>9, <2>2, Constants DEF DurableInv, Points, Publishing, InFlight
  <2> QED BY <2>1, <2>2
<1>17. NotYet'
  <2>1. Untold(at[r])
    BY <1>1 DEF DurableInv, Points, NotYet
  <2>2. Early(0)' => Beyond(target[0])'
    <3>1. CASE r = 0
      BY <1>4, <1>7, <1>8, <3>1
    <3>2. CASE r # 0
      BY <1>4, <1>7, <3>2, Constants DEF DurableInv, Points, NotYet, Early
    <3> QED BY <3>1, <3>2
  <2> SUFFICES ASSUME NEW q \in Ranks
               PROVE  /\ parent'[q] = "dispatch" => Untold(at[q])'
                      /\ Early(q)' => Untold(target[q])'
    BY <2>2 DEF NotYet
  <2>3. CASE q = r
    BY <1>1, <1>4, <1>5, <1>7, <2>1, <2>3, CoordinatorSteps
  <2>4. CASE q # r
    <3>1. Early(q)' <=> Early(q)
      BY <1>4, <2>4 DEF Early
    <3> QED BY <1>1, <1>4, <1>7, <2>4, <3>1, CoordinatorSteps DEF DurableInv, Points, NotYet
  <2> QED BY <2>3, <2>4
<1>18. NextSave'
  <2>1. CASE r = 0
    BY <1>1, <1>3, <1>4, <1>5, <2>1, CoordinatorSteps
    DEF DurableInv, Orders, NextSave, Unsaved, InPlace
  <2>2. CASE r # 0
    BY <1>1, <1>4, <2>2, Constants DEF DurableInv, Orders, NextSave
  <2> QED BY <2>1, <2>2
<1>19. OneAhead'
  <2>1. CASE r = 0
    <3>1. ASSUME NEW c \in SaveSteps, Below(c) PROVE at[0] <= c
      <4>1. last[0] < c
        <5>1. last[0] = -1 \/ last[0] \in DescribedSteps \/ pointer \in Steps
          BY <1>1, <2>1 DEF DurableInv, Points, Settled
        <5> QED
          BY <1>1, <2>1, <3>1, <5>1, Constants DEF DurableInv, Points, Settled, Below, Steps
      <4> QED
        BY <4>1, CoordinatorSteps, Constants DEF DurableInv, Orders, NextSave
    <3>2. \A s \in Listed : s <= at[0]
      BY <1>3, <1>8, <2>1, BeyondBelow DEF DurableInv, Orders, OneAhead
    <3>3. \A q \in Ranks : target'[q] <= at[0]
      <4> SUFFICES ASSUME NEW q \in Ranks, q # 0 PROVE target[q] <= at[0]
        BY <1>4, <2>1, CoordinatorSteps
      <4>1. Target(q) /\ Place(q) /\ at[q] = at[0]
        BY CoordinatorSteps DEF SafeInv, Processes, Targets, Places
      <4>2. target[q] \in Int /\ last[q] \in Int /\ at[q] \in Nat
        BY Constants DEF SafeInv, TypeOK, Steps
      <4> QED BY <4>1, <4>2 DEF Target, Place
    <3> QED BY <1>4, <1>7, <2>1, <3>1, <3>2, <3>3 DEF DurableInv, Orders, OneAhead
  <2>2. CASE r # 0
    <3>1. InFlight(0)' => InFlight(0) /\ target'[r] = target[0] /\ target[0] \in Int
      BY <1>1, <1>3, <1>4, <2>2, CoordinatorSteps, Constants
      DEF InFlight, SafeInv, Processes, OneSave
    <3>2. InFlight(0)' => \A q \in Ranks : target'[q] <= target'[0]
      BY <1>4, <2>2, <3>1, Constants DEF DurableInv, Orders, OneAhead
    <3>3. /\ \A c \in SaveSteps : Below(c)' => \A s \in Listed' : s <= c
          /\ InFlight(0)' \/ parent'[0] = "publish" =>
               /\ \A c \in SaveSteps : Below(c)' => target'[0] <= c
               /\ \A s \in Listed' : s <= target'[0]
      BY <1>4, <1>7, <1>9, <2>2, <3>1, Constants DEF DurableInv, Orders, OneAhead
    <3> QED BY <3>2, <3>3 DEF OneAhead
  <2> QED BY <2>1, <2>2
<1>20. Spared'
  <2>1. r = 0 => victim = 0
    BY <1>1 DEF SafeInv, Rotation, Rotating
  <2> QED BY <1>1, <1>4, <2>1, Constants DEF DurableInv, Orders, Spared
<1>21. Gathers'
  BY <1>10, <1>11, <1>12, <1>13 DEF Gathers
<1>22. Points'
  BY <1>7, <1>14, <1>15, <1>16, <1>17 DEF DurableInv, Points
<1> QED BY <1>18, <1>19, <1>20, <1>21, <1>22 DEF DurableInv, Orders

----------------------------------------------------------------------------
(***************************************************************************)
(* Steps that publish a save.                                              *)
(***************************************************************************)
\* The end of a save in place, on all ranks.
LEMMA FinalizeMoves == ASSUME SafeInv, DurableInv, Finalize PROVE DurableInv'
<1>1. /\ \A q \in Ranks : /\ parent[q] = "saving" /\ writer[q] = "report"
                          /\ parent'[q] = IF q = 0 THEN "publish" ELSE "saved"
                          /\ writer'[q] = "none"
      /\ UNCHANGED <<isAsync, stale, job, at, last, target, got, outcome, joiner, future,
                     dir, pointer, victim>>
  BY DEF Finalize, All, joining, disk
<1>0. /\ \A s \in Steps : /\ Accounted(s)' <=> Accounted(s)
                          /\ Spoiled(s)' <=> Spoiled(s)
      /\ Listed' = Listed
      /\ \A x : Below(x)' <=> Below(x)
      /\ Sound => Sound'
  BY <1>1, SameDisk
<1>2. /\ \A q \in Ranks : joiner[q] = "none" /\ future[q] = "none"
      /\ target[0] = at[0] /\ at[0] \in Steps /\ InFlight(0)
  BY <1>1, CoordinatorSteps, Constants
  DEF SafeInv, Processes, Saves, Save, Targets, Target, Waited, InPlace, InFlight
<1>3. Accounted(at[0])
  BY <1>1, <1>2, GatheredAccounted, Constants DEF Gathered
<1>4. ~Gathered' /\ ~Idle' /\ ~InFlight(0)'
  BY <1>1, <1>2, Constants DEF Gathered, InFlight, Idle, InPlace
<1>5. Results'
  BY <1>1, Constants DEF DurableInv, Gathers, Results, ResultOf, InPlace
<1>6. Ages'
  BY <1>0, <1>1 DEF DurableInv, Gathers, Ages, Dates, Unmixed
<1>7. Gathers'
  BY <1>1, <1>2, <1>4, <1>5, <1>6, Constants
  DEF Gathers, Shards, Coordinator, Children, Gathering, Described
<1>8. Settled' /\ Others' /\ NotYet'
  BY <1>1, <1>2, <1>4, Constants DEF Settled, Others, NotYet, Early
<1>9. Publishing' /\ Sound'
  BY <1>0, <1>1, <1>2, <1>3, <1>4, Constants DEF DurableInv, Points, Publishing
<1>10. Orders'
  BY <1>0, <1>1, <1>2, <1>4, Constants
  DEF DurableInv, Orders, NextSave, OneAhead, Spared, Unsaved, InPlace
<1> QED BY <1>7, <1>8, <1>9, <1>10 DEF DurableInv, Points

\* The pointer loses the step it had, or gets the step of a directory that is
\* accounted for and beyond which there is none.
LEMMA PointerMoves ==
  ASSUME SafeInv, DurableInv, NEW x \in Steps, Accounted(x),
         pointer \in Steps => pointer < x,
         \A s \in Listed : s <= x, \A c \in SaveSteps : Below(c) => x <= c,
         UNCHANGED <<dir, target>>,
         pointer' = IF pointer = Torn THEN x ELSE Torn
  PROVE  /\ Sound'
         /\ \A c \in SaveSteps : Below(c)' => x <= c /\ \A s \in Listed : s <= c
         /\ \A s \in Steps : /\ Accounted(s)' <=> Accounted(s)
                             /\ Spoiled(s)' <=> Spoiled(s)
         /\ Listed' = Listed
<1>1. /\ \A s \in Steps : /\ Accounted(s)' <=> Accounted(s)
                          /\ Spoiled(s)' <=> Spoiled(s)
      /\ Listed' = Listed /\ DescribedSteps' = DescribedSteps
  BY DEF Accounted, Spoiled, Whole, Complete, Listed, DescribedSteps
<1>2. Torn \notin Steps
  BY Constants DEF Torn, Steps
<1>3. /\ x \in DescribedSteps /\ x \in Nat /\ Listed \subseteq Nat /\ SaveSteps \subseteq Nat
      /\ DescribedSteps \subseteq Listed /\ DescribedSteps \subseteq Steps
  BY AccountedListed, Constants
<1>4. ASSUME NEW c \in SaveSteps, Below(c)' PROVE x <= c /\ \A s \in Listed : s <= c
  <2>1. x <= c
    <3>1. CASE pointer = Torn
      BY <1>3, <1>4, <3>1 DEF Below
    <3>2. CASE pointer # Torn
      BY <1>1, <1>2, <1>3, <1>4, <3>2 DEF Below
    <3> QED BY <3>1, <3>2
  <2> QED BY <1>3, <2>1
<1>5. ASSUME NEW s \in DescribedSteps, \A t \in DescribedSteps : t <= s
      PROVE  Accounted(s)
  <2>1. x <= s /\ s <= x /\ s \in Nat
    BY <1>3, <1>5
  <2>2. x = s
    BY <1>3, <2>1
  <2> QED BY <2>2
<1>6. Sound'
  BY <1>1, <1>2, <1>3, <1>5 DEF Sound
<1> QED BY <1>1, <1>4, <1>6

\* _write_latest_pointer, after a save in place.
LEMMA PublishMoves == ASSUME SafeInv, DurableInv, Publish PROVE DurableInv'
<1>1. /\ parent[0] = "publish"
      /\ pointer' = IF pointer = Torn THEN at[0] ELSE Torn
      /\ parent' = [parent EXCEPT ![0] = IF pointer = Torn THEN "saved" ELSE "publish"]
      /\ UNCHANGED <<isAsync, stale, job, at, last, writer, target, got, outcome, joiner, future,
                     dir, victim>>
  BY DEF Publish, Goto, saving, joining
<1>2. /\ target[0] = at[0] /\ at[0] \in Steps /\ future[0] = "none" /\ joiner[0] = "none"
  BY <1>1, CoordinatorSteps, Constants
  DEF SafeInv, Processes, Saves, Save, Targets, Target, Waited, InPlace
<1>3. /\ parent'[0] = IF pointer = Torn THEN "saved" ELSE "publish"
      /\ \A q \in Ranks \ {0} : parent'[q] = parent[q]
  BY <1>1, Constants DEF SafeInv, TypeOK
<1>4. /\ Sound'
      /\ \A c \in SaveSteps : Below(c)' => at[0] <= c /\ \A s \in Listed : s <= c
      /\ \A s \in Steps : /\ Accounted(s)' <=> Accounted(s)
                          /\ Spoiled(s)' <=> Spoiled(s)
      /\ Listed' = Listed
  BY <1>1, <1>2, PointerMoves DEF DurableInv, Points, Publishing, Orders, OneAhead
<1>5. /\ \A q \in Ranks : /\ writer[q] = "none" /\ parent[q] # "dispatch"
                          /\ parent[q] = "saving" <=> parent'[q] = "saving"
                          /\ parent[q] = "dispatch" <=> parent'[q] = "dispatch"
      /\ ~Idle' /\ ~InFlight(0)' /\ ~Gathered'
  BY <1>1, <1>2, <1>3, Constants
  DEF DurableInv, Points, Others, Idle, InPlace, InFlight, Gathered
<1>6. Results'
  BY <1>1, <1>3, <1>5, Constants DEF DurableInv, Gathers, Results, ResultOf, InPlace
<1>7. Ages'
  BY <1>1, <1>4 DEF DurableInv, Gathers, Ages, Dates, Unmixed
<1>8. Gathers'
  BY <1>1, <1>5, <1>6, <1>7, Constants
  DEF DurableInv, Gathers, Shards, Coordinator, Children, Gathering, Described
<1>9. Settled' /\ Others' /\ NotYet'
  BY <1>1, <1>3, <1>5, Constants DEF DurableInv, Points, Settled, Others, NotYet, Early
<1>10. Publishing'
  <2>1. Torn \notin Steps
    BY Constants DEF Torn, Steps
  <2> QED
    BY <1>1, <1>2, <1>3, <1>4, <1>5, <2>1 DEF DurableInv, Points, Publishing
<1>11. Orders'
  BY <1>1, <1>2, <1>3, <1>4, <1>5, Constants
  DEF DurableInv, Orders, NextSave, OneAhead, Spared, Unsaved, InPlace
<1> QED BY <1>4, <1>8, <1>9, <1>10, <1>11 DEF DurableInv, Points

\* A rank notes the step it has saved in place.
LEMMA SavedMoves ==
  ASSUME SafeInv, DurableInv, NEW r \in Ranks, Saved(r) PROVE DurableInv'
<1>1. /\ parent[r] = "saved"
      /\ parent' = [parent EXCEPT ![r] = "trim"]
      /\ last' = [last EXCEPT ![r] = at[r]]
      /\ UNCHANGED <<isAsync, stale, job, at, writer, target, got, outcome, joiner, future,
                     dir, pointer, victim>>
  BY DEF Saved, Goto, saving, joining, disk
<1>2. /\ parent'[r] = "trim" /\ last'[r] = at[r]
      /\ \A q \in Ranks \ {r} : parent'[q] = parent[q] /\ last'[q] = last[q]
      /\ future[r] = "none" /\ joiner[r] = "none"
  BY <1>1 DEF SafeInv, TypeOK, Processes, Saves, Save, Waited, InPlace
<1>0. /\ \A s \in Steps : /\ Accounted(s)' <=> Accounted(s)
                          /\ Spoiled(s)' <=> Spoiled(s)
      /\ Listed' = Listed /\ DescribedSteps' = DescribedSteps
      /\ \A x : Below(x)' <=> Below(x)
      /\ \A x : Beyond(x)' <=> Beyond(x)
      /\ \A x \in Steps : Untold(x)' <=> Untold(x)
      /\ Sound => Sound'
  BY <1>1, SameDisk
<1>3. /\ \A q \in Ranks : /\ InFlight(q)' <=> InFlight(q)
                          /\ Early(q)' <=> Early(q)
                          /\ Late(q)' <=> Late(q)
                          /\ Delivered(q)' <=> Delivered(q)
                          /\ parent'[q] = "dispatch" <=> parent[q] = "dispatch"
      /\ Gathered' <=> Gathered
      /\ parent'[0] # "down" => parent[0] # "down"
  BY <1>1, <1>2, Constants DEF InFlight, Early, Late, Delivered, Gathered
<1>4. ASSUME r = 0 PROVE Settled' /\ Others' /\ Publishing' /\ NextSave' /\ Spared'
  <2>1. /\ pointer = at[0] /\ at[0] \in Steps
        /\ \A q \in Ranks : /\ parent[q] \notin {"dispatch", "saving"} /\ writer[q] = "none"
                            /\ joiner[q] = "none"
    BY <1>1, <1>4, CoordinatorSteps DEF DurableInv, Points, Publishing, Others
  <2>2. \A q \in Ranks : ~InFlight(q) /\ ~Late(q)
    BY <2>1 DEF InFlight, Late, Early
  <2>3. Settled' /\ Others'
    BY <1>1, <1>2, <1>3, <1>4, <2>1, <2>2 DEF Settled, Others
  <2>4. Publishing'
    BY <1>0, <1>1, <1>2, <1>3, <1>4, <2>1 DEF Publishing, InFlight
  <2>5. NextSave' /\ Spared'
    <3>1. victim = 0
      BY <1>1, <1>4 DEF SafeInv, Rotation, Rotating
    <3>2. \A c \in SaveSteps : c \in Nat
      BY Constants
    <3> QED
      BY <1>1, <1>2, <1>4, <3>1, <3>2, CoordinatorSteps DEF NextSave, Spared
  <2> QED BY <2>3, <2>4, <2>5
<1>5. ASSUME r # 0 PROVE Settled' /\ Others' /\ Publishing' /\ NextSave' /\ Spared'
  <2>1. /\ parent'[0] = parent[0] /\ last'[0] = last[0]
        /\ Idle' <=> Idle
    BY <1>1, <1>2, <1>5, Constants DEF Idle
  <2>2. Settled'
    BY <1>0, <1>1, <2>1, CoordinatorSteps, Constants DEF DurableInv, Points, Settled
  <2>3. Others'
    BY <1>0, <1>1, <1>2, <1>3, <2>1, Constants DEF DurableInv, Points, Others
  <2>4. Publishing'
    BY <1>0, <1>1, <1>3, <2>1, CoordinatorSteps, Constants DEF DurableInv, Points, Publishing
  <2>5. NextSave' /\ Spared'
    BY <1>1, <2>1 DEF DurableInv, Orders, NextSave, Spared
  <2> QED BY <2>2, <2>3, <2>4, <2>5
<1>6. Results' /\ Ages'
  <2>1. Results'
    BY <1>1, <1>2, <1>3, Constants DEF DurableInv, Gathers, Results, ResultOf, InPlace
  <2>2. Ages'
    BY <1>0, <1>1 DEF DurableInv, Gathers, Ages, Dates, Unmixed
  <2> QED BY <2>1, <2>2
<1>7. Shards' /\ Coordinator' /\ Children' /\ Gathering' /\ Described'
  BY <1>1, <1>3, Constants DEF DurableInv, Gathers, Shards, Coordinator, Children,
     Gathering, Described, SafeInv, TypeOK
<1>8. Sound' /\ NotYet'
  BY <1>0, <1>1, <1>3, CoordinatorSteps, Constants DEF DurableInv, Points, NotYet
<1>9. OneAhead'
  BY <1>0, <1>1, <1>2, <1>3, Constants DEF DurableInv, Orders, OneAhead
<1> QED BY <1>4, <1>5, <1>6, <1>7, <1>8, <1>9 DEF DurableInv, Points, Gathers, Orders

\* async_callback: a save in the background is published.
LEMMA CallbackMoves == ASSUME SafeInv, DurableInv, Callback PROVE DurableInv'
<1>1. /\ joiner[0] = "callback"
      /\ pointer' = IF pointer = Torn THEN target[0] ELSE Torn
      /\ joiner' = [joiner EXCEPT ![0] = IF pointer = Torn THEN "resolve" ELSE "callback"]
      /\ UNCHANGED <<isAsync, stale, job, parent, at, last, writer, target, got, outcome, future,
                     dir, victim>>
  BY DEF Callback, Join, loop, saving
<1>2. /\ target[0] \in Steps /\ InFlight(0) /\ writer[0] = "exited" /\ outcome[0] = "ok"
      /\ future[0] = "pending" /\ parent[0] \notin Waited
  BY <1>1, CoordinatorSteps, Constants
  DEF SafeInv, Processes, Saves, Save, InFlight
<1>3. /\ Accounted(target[0])
      /\ \A q \in Ranks : /\ InFlight(q) => target[q] = target[0]
                          /\ parent[q] = "dispatch" => at[q] = target[0]
                          /\ Late(q) => Spoiled(target[0])
  BY <1>2, GatheredAccounted DEF Gathered
<1>4. /\ joiner'[0] = IF pointer = Torn THEN "resolve" ELSE "callback"
      /\ \A q \in Ranks \ {0} : joiner'[q] = joiner[q]
  BY <1>1, Constants DEF SafeInv, TypeOK
<1>5. /\ Sound'
      /\ \A c \in SaveSteps : Below(c)' => target[0] <= c /\ \A s \in Listed : s <= c
      /\ \A s \in Steps : /\ Accounted(s)' <=> Accounted(s)
                          /\ Spoiled(s)' <=> Spoiled(s)
      /\ Listed' = Listed
  BY <1>1, <1>2, <1>3, PointerMoves DEF DurableInv, Points, Publishing, Orders, OneAhead
<1>6. /\ \A q \in Ranks : /\ InFlight(q)' <=> InFlight(q)
                          /\ Early(q)' <=> Early(q)
                          /\ Delivered(q)' <=> Delivered(q)
                          /\ joiner'[q] = "none" <=> joiner[q] = "none"
      /\ ~Idle'
      /\ Gathered' <=> Gathered
  BY <1>1, <1>4, Constants DEF InFlight, Early, Delivered, Gathered, Idle
<1>7. Results' /\ Ages'
  <2>1. Results'
    BY <1>1 DEF DurableInv, Gathers, Results, ResultOf
  <2>2. Ages'
    BY <1>1, <1>5 DEF DurableInv, Gathers, Ages, Dates, Unmixed
  <2> QED BY <2>1, <2>2
<1>8. Gathers'
  BY <1>1, <1>6, <1>7, Constants
  DEF DurableInv, Gathers, Shards, Coordinator, Children, Gathering, Described, SafeInv, TypeOK
<1>9. Settled' /\ Others'
  BY <1>1, <1>2, <1>6, Constants DEF Settled, Others, Waited, InPlace
<1>10. NotYet'
  <2>1. ~Early(0)
    BY <1>2 DEF Early
  <2>2. \A q \in Ranks : /\ Early(q) => target[q] = target[0] /\ Spoiled(target[0])
                         /\ parent[q] = "dispatch" => at[q] = target[0] /\ Spoiled(target[0])
    BY <1>3, CoordinatorSteps DEF Late
  <2> QED BY <1>1, <1>2, <1>5, <1>6, <2>1, <2>2, Constants DEF NotYet, Untold
<1>11. Publishing'
  <2>1. Torn \notin Steps
    BY Constants DEF Torn, Steps
  <2> QED BY <1>1, <1>2, <1>4, <2>1 DEF Publishing, Waited, InPlace
<1>12. Orders'
  BY <1>1, <1>2, <1>5, <1>6, Constants
  DEF DurableInv, Orders, NextSave, OneAhead, Spared
<1> QED BY <1>5, <1>8, <1>9, <1>10, <1>11, <1>12 DEF DurableInv, Points

\* The save of the coordinator is resolved: it has settled.
LEMMA ResolveMoves == ASSUME SafeInv, DurableInv, Resolve(0) PROVE DurableInv'
<1>1. /\ joiner[0] = "resolve"
      /\ joiner' = [joiner EXCEPT ![0] = "none"]
      /\ future' = [future EXCEPT ![0] = "ok"]
      /\ UNCHANGED <<isAsync, stale, job, parent, at, last, writer, target, got, outcome,
                     dir, pointer, victim>>
  BY DEF Resolve, Join, loop, saving, disk
<1>2. /\ target[0] \in Steps /\ InFlight(0) /\ writer[0] = "exited" /\ outcome[0] = "ok"
      /\ target[0] = last[0] /\ parent[0] \notin Waited
  BY <1>1, CoordinatorSteps, Constants
  DEF SafeInv, Processes, Saves, Save, Targets, Target, InFlight
<1>3. \A q \in Ranks : /\ InFlight(q) => target[q] = target[0]
                       /\ parent[q] = "dispatch" => at[q] = target[0]
                       /\ Late(q) => Spoiled(target[0])
  BY <1>2, GatheredAccounted DEF Gathered
<1>4. /\ joiner'[0] = "none" /\ future'[0] = "ok"
      /\ \A q \in Ranks \ {0} : joiner'[q] = joiner[q]
  BY <1>1, Constants DEF SafeInv, TypeOK
<1>0. /\ \A s \in Steps : /\ Accounted(s)' <=> Accounted(s)
                          /\ Spoiled(s)' <=> Spoiled(s)
      /\ Listed' = Listed /\ DescribedSteps' = DescribedSteps
      /\ \A x : Below(x)' <=> Below(x)
      /\ \A x : Beyond(x)' <=> Beyond(x)
      /\ \A x \in Steps : Untold(x)' <=> Untold(x)
      /\ Sound => Sound'
  BY <1>1, SameDisk
<1>5. /\ \A q \in Ranks : /\ InFlight(q)' => InFlight(q)
                          /\ Early(q)' <=> Early(q)
                          /\ Late(q)' <=> Late(q)
      /\ ~InFlight(0)' /\ ~Gathered'
  BY <1>1, <1>2, <1>4, Constants DEF InFlight, Early, Late, Gathered, Waited, InPlace
<1>6. Results' /\ Ages'
  <2>1. Results'
    BY <1>1 DEF DurableInv, Gathers, Results, ResultOf
  <2>2. Ages'
    BY <1>0, <1>1 DEF DurableInv, Gathers, Ages, Dates, Unmixed
  <2> QED BY <2>1, <2>2
<1>7. Gathers'
  BY <1>1, <1>2, <1>4, <1>5, <1>6, Constants
  DEF DurableInv, Gathers, Shards, Coordinator, Children, Gathering, Described
<1>8. pointer = target[0]
  BY <1>1 DEF DurableInv, Points, Publishing
<1>9. Settled' /\ Publishing'
  BY <1>1, <1>2, <1>4, <1>5, <1>8, Constants
  DEF Settled, Publishing, Waited, InPlace
<1>10. Others'
  BY <1>0, <1>1, <1>2, <1>3, <1>5 DEF Others, Waited, InPlace
<1>11. Sound' /\ NotYet'
  BY <1>0, <1>1, <1>5, CoordinatorSteps, Constants DEF DurableInv, Points, NotYet
<1>12. Orders'
  BY <1>0, <1>1, <1>2, <1>5, Constants
  DEF DurableInv, Orders, NextSave, OneAhead, Spared, Waited, InPlace
<1> QED BY <1>7, <1>9, <1>10, <1>11, <1>12 DEF DurableInv, Points

----------------------------------------------------------------------------
(***************************************************************************)
(* Steps of the writers that write shards and write results.               *)
(***************************************************************************)
\* A rank that has not delivered its shard goes on: the files of its directory
\* may change, as long as the metadata do not.
LEMMA FileMoves ==
  ASSUME SafeInv, DurableInv, NEW r \in Ranks,
         writer[r] \in {"shard", "sharding", "result", "resulting"},
         Writing(r)', \A q \in Ranks : q # r => writer'[q] = writer[q],
         UNCHANGED <<isAsync, stale, job, parent, at, last, target, joiner, future, pointer, victim>>,
         \A s \in Steps : /\ dir'[s].meta = dir[s].meta
                          /\ s # target[r] => dir'[s].shard = dir[s].shard
  PROVE  Points' /\ Orders' /\ \A s \in Steps : Spoiled(s)' <=> Spoiled(s)
<1>1. /\ target[r] \in Steps /\ Untold(target[r]) /\ Early(r)
      /\ parent[0] \notin {"publish", "saved"}
  <2>1. Early(r)
    BY DEF Early
  <2> QED
    BY <2>1, CoordinatorSteps DEF DurableInv, Points, NotYet, Others
<1>2. /\ Listed' = Listed /\ DescribedSteps' = DescribedSteps
      /\ \A s \in Steps : Spoiled(s)' <=> Spoiled(s)
      /\ \A x : Below(x)' <=> Below(x)
      /\ \A x : Beyond(x)' <=> Beyond(x)
      /\ \A x \in Steps : Untold(x)' <=> Untold(x)
  BY SameMeta
<1>3. /\ \A q \in Ranks : /\ InFlight(q)' <=> InFlight(q)
                          /\ Early(q)' => Early(q)
                          /\ Late(q)' => Late(q)
      /\ Idle' <=> Idle
  BY <1>1 DEF InFlight, Idle, Early, Late
<1>4. Sound'
  <2>1. \A s \in Steps : Accounted(s) /\ (s # target[r] \/ Spoiled(s)) => Accounted(s)'
    BY <1>2 DEF Accounted, Whole, Complete
  <2>2. Spoiled(target[r]) \/ Below(target[r])
    BY <1>1 DEF Untold
  <2>3. ASSUME pointer \in Steps PROVE Accounted(pointer)'
    <3>1. pointer # target[r] \/ Spoiled(target[r])
      BY <1>1, <2>2, <2>3, Constants DEF Below
    <3> QED BY <2>1, <2>3, <3>1 DEF DurableInv, Points, Sound
  <2>4. ASSUME pointer \notin Steps, NEW s \in DescribedSteps,
               \A t \in DescribedSteps : t <= s
        PROVE  Accounted(s)'
    <3>1. s \in Steps /\ Accounted(s)
      BY <2>4, AccountedListed DEF DurableInv, Points, Sound
    <3>2. s # target[r] \/ Spoiled(s)
      BY <1>1, <2>2, <2>4, <3>1, Constants DEF Below
    <3> QED BY <2>1, <3>1, <3>2
  <2> QED BY <1>2, <2>3, <2>4 DEF Sound
<1>5. Settled'
  BY <1>2, <1>3, CoordinatorSteps DEF DurableInv, Points, Settled
<1>6. Others'
  BY <1>1, <1>2, <1>3 DEF DurableInv, Points, Others
<1>7. Publishing'
  BY <1>1, <1>3, Constants DEF DurableInv, Points, Publishing
<1>8. NotYet'
  BY <1>2, <1>3, CoordinatorSteps, Constants DEF DurableInv, Points, NotYet
<1>9. Orders'
  BY <1>2, <1>3, Constants DEF DurableInv, Orders, NextSave, OneAhead, Spared
<1> QED BY <1>2, <1>4, <1>5, <1>6, <1>7, <1>8, <1>9 DEF Points

\* What the coordinator has gathered is not that rank's.
LEMMA GatheringMoves ==
  ASSUME SafeInv, DurableInv, NEW r \in Ranks,
         writer[r] \in {"shard", "sharding", "result", "resulting"},
         writer'[r] \in {"sharding", "result", "resulting", "readResults", "report"},
         writer'[r] = "readResults" <=> r = 0 /\ writer[r] = "resulting",
         writer'[r] = "report" => r # 0,
         writer'[r] \in {"resulting", "readResults"} => joiner[r] # "none",
         \A q \in Ranks : q # r => writer'[q] = writer[q],
         UNCHANGED <<isAsync, stale, job, parent, target, got, outcome, joiner>>,
         \A s \in Steps : dir'[s].meta = dir[s].meta,
         \A s \in Steps, q \in Ranks : q # r =>
           /\ dir'[s].shard[q] = dir[s].shard[q]
           /\ dir'[s].result[q] = dir[s].result[q]
  PROVE  Coordinator' /\ Children' /\ Gathering' /\ Described'
<1>1. Coordinator' /\ Children'
  BY DEF DurableInv, Gathers, Coordinator, Children
<1>2. ~Delivered(r) /\ (~stale => ~Gathered)
  BY DEF Delivered, DurableInv, Gathers, Gathering
<1>3. Gathered' => r # 0 /\ Gathered /\ writer'[0] = writer[0] /\ target[0] \in Steps
  BY CoordinatorSteps, Constants DEF Gathered, InFlight
<1>4. \A q \in Ranks : target[0] \in Steps /\ Delivered(q) => Delivered(q)'
  BY <1>2 DEF Delivered
<1>5. ASSUME ~stale, writer'[0] = "readResults" PROVE \A q \in got'[0] : Delivered(q)'
  <2>1. CASE r = 0
    BY <1>5, <2>1 DEF DurableInv, Gathers, Gathering
  <2>2. CASE r # 0
    <3>1. writer[0] = "readResults" /\ target[0] \in Steps /\ got[0] \subseteq Ranks
      BY <1>5, <2>2, CoordinatorSteps, Constants DEF Writing, SafeInv, TypeOK
    <3> QED BY <1>4, <1>5, <3>1 DEF DurableInv, Gathers, Gathering
  <2> QED BY <2>1, <2>2
<1>6. writer'[0] \in {"start", "plan", "shard", "sharding", "result", "resulting"}
      => got'[0] = {}
  BY Constants DEF DurableInv, Gathers, Gathering
<1>7. Gathering'
  BY <1>2, <1>3, <1>5, <1>6 DEF Gathering
<1>8. Described'
  <2>1. writer'[0] = "describing" => writer[0] = "describing" /\ target[0] \in Steps
    BY CoordinatorSteps, Constants DEF Writing
  <2> QED BY <1>3, <2>1 DEF DurableInv, Gathers, Described
<1> QED BY <1>1, <1>7, <1>8

\* A rank begins to write its shard.
LEMMA OpenShardMoves ==
  ASSUME SafeInv, DurableInv, NEW r \in Ranks, OpenShard(r) PROVE DurableInv'
<1>1. /\ writer[r] = "shard"
      /\ writer' = [writer EXCEPT ![r] = "sharding"]
      /\ dir' = [dir EXCEPT ![target[r]].shard[r] = Torn]
      /\ UNCHANGED <<isAsync, stale, job, parent, at, last, target, got, outcome, joiner, future,
                     pointer, victim>>
  BY DEF OpenShard, Open, Step, OnDisk, loop, joining
<1>2. target[r] \in Steps
  BY <1>1, CoordinatorSteps DEF Writing
<1>3. /\ writer'[r] = "sharding"
      /\ \A q \in Ranks : q # r => writer'[q] = writer[q]
  BY <1>1 DEF SafeInv, TypeOK
<1>4. /\ dir'[target[r]].shard[r] = Torn
      /\ \A s \in Steps, q \in Ranks :
           s # target[r] \/ q # r => dir'[s].shard[q] = dir[s].shard[q]
  BY <1>1, <1>2 DEF SafeInv, TypeOK
<1>5. \A s \in Steps : /\ dir'[s].meta = dir[s].meta
                        /\ dir'[s].result = dir[s].result
                        /\ s # target[r] => dir'[s] = dir[s]
  BY <1>1, <1>2 DEF SafeInv, TypeOK
<1>6. Points' /\ Orders' /\ \A s \in Steps : Spoiled(s)' <=> Spoiled(s)
  <2>1. Writing(r)'
    BY <1>3 DEF Writing
  <2> QED BY <1>1, <1>3, <1>5, <2>1, FileMoves
<1>7. Coordinator' /\ Children' /\ Gathering' /\ Described'
  BY <1>1, <1>2, <1>3, <1>4, <1>5, GatheringMoves
<1>8. Shards'
  BY <1>1, <1>2, <1>3, <1>4, <1>5, CoordinatorSteps
  DEF DurableInv, Gathers, Shards, Writing
<1>9. Results'
  <2> SUFFICES ASSUME parent'[0] # "down", NEW s \in Steps, NEW q \in Ranks PROVE ResultOf(s, q)'
    BY DEF Results
  <2>1. ResultOf(s, q)
    BY <1>1 DEF DurableInv, Gathers, Results
  <2>2. CASE q = r
    BY <1>1, <1>5, <2>1, <2>2 DEF ResultOf
  <2>3. CASE q # r
    BY <1>1, <1>3, <1>4, <1>5, <2>1, <2>3 DEF ResultOf
  <2> QED BY <2>2, <2>3
<1>10. Ages'
  <2>1. Dates'
    BY <1>1, <1>5 DEF DurableInv, Gathers, Ages, Dates
  <2>2. Unmixed'
    BY <1>1, <1>6 DEF DurableInv, Gathers, Ages, Unmixed
  <2> QED BY <2>1, <2>2 DEF Ages
<1> QED BY <1>6, <1>7, <1>8, <1>9, <1>10 DEF DurableInv, Gathers

\* A rank ends its shard: it is of this incarnation.
LEMMA CloseShardMoves ==
  ASSUME SafeInv, DurableInv, NEW r \in Ranks, CloseShard(r) PROVE DurableInv'
<1>1. /\ writer[r] = "sharding"
      /\ writer' = [writer EXCEPT ![r] = "result"]
      /\ dir' = [dir EXCEPT ![target[r]].shard[r] = job]
      /\ UNCHANGED <<isAsync, stale, job, parent, at, last, target, got, outcome, joiner, future,
                     pointer, victim>>
  BY DEF CloseShard, Close, Step, OnDisk, loop, joining
<1>2. target[r] \in Steps
  BY <1>1, CoordinatorSteps DEF Writing
<1>3. /\ writer'[r] = "result"
      /\ \A q \in Ranks : q # r => writer'[q] = writer[q]
  BY <1>1 DEF SafeInv, TypeOK
<1>4. /\ dir'[target[r]].shard[r] = job
      /\ \A s \in Steps, q \in Ranks :
           s # target[r] \/ q # r => dir'[s].shard[q] = dir[s].shard[q]
  BY <1>1, <1>2 DEF SafeInv, TypeOK
<1>5. \A s \in Steps : /\ dir'[s].meta = dir[s].meta
                        /\ dir'[s].result = dir[s].result
                        /\ s # target[r] => dir'[s] = dir[s]
  BY <1>1, <1>2 DEF SafeInv, TypeOK
<1>6. Points' /\ Orders' /\ \A s \in Steps : Spoiled(s)' <=> Spoiled(s)
  <2>1. Writing(r)'
    BY <1>3 DEF Writing
  <2> QED BY <1>1, <1>3, <1>5, <2>1, FileMoves
<1>7. Coordinator' /\ Children' /\ Gathering' /\ Described'
  BY <1>1, <1>2, <1>3, <1>4, <1>5, GatheringMoves
<1>8. Shards'
  BY <1>1, <1>2, <1>3, <1>4, <1>5, CoordinatorSteps
  DEF DurableInv, Gathers, Shards, Writing
<1>9. Results'
  <2> SUFFICES ASSUME parent'[0] # "down", NEW s \in Steps, NEW q \in Ranks PROVE ResultOf(s, q)'
    BY DEF Results
  <2>1. ResultOf(s, q)
    BY <1>1 DEF DurableInv, Gathers, Results
  <2>2. CASE q = r
    BY <1>1, <1>5, <2>1, <2>2 DEF ResultOf
  <2>3. CASE q # r
    BY <1>1, <1>3, <1>4, <1>5, <2>1, <2>3 DEF ResultOf
  <2> QED BY <2>2, <2>3
<1>10. Ages'
  <2>1. Dates'
    BY <1>1, <1>5 DEF DurableInv, Gathers, Ages, Dates
  <2>2. Unmixed'
    BY <1>1, <1>6 DEF DurableInv, Gathers, Ages, Unmixed
  <2> QED BY <2>1, <2>2 DEF Ages
<1> QED BY <1>6, <1>7, <1>8, <1>9, <1>10 DEF DurableInv, Gathers

\* A rank begins to write its write result.
LEMMA OpenResultMoves ==
  ASSUME SafeInv, DurableInv, NEW r \in Ranks, OpenResult(r) PROVE DurableInv'
<1>1. /\ writer[r] = "result"
      /\ writer' = [writer EXCEPT ![r] = "resulting"]
      /\ dir' = [dir EXCEPT ![target[r]].result[r] = Torn]
      /\ UNCHANGED <<isAsync, stale, job, parent, at, last, target, got, outcome, joiner, future,
                     pointer, victim>>
  BY DEF OpenResult, Open, Step, OnDisk, loop, joining
<1>2. target[r] \in Steps /\ joiner[r] # "none" /\ parent[r] \notin InPlace
  <2>1. target[r] \in Steps
    BY <1>1, CoordinatorSteps DEF Writing
  <2>2. joiner[r] # "none"
    BY <1>1 DEF OpenResult, InChild
  <2> QED
    BY <2>1, <2>2 DEF SafeInv, Processes, Saves, Save, Waited
<1>3. /\ writer'[r] = "resulting"
      /\ \A q \in Ranks : q # r => writer'[q] = writer[q]
  BY <1>1 DEF SafeInv, TypeOK
<1>4. /\ dir'[target[r]].result[r] = Torn
      /\ \A s \in Steps, q \in Ranks :
           s # target[r] \/ q # r => dir'[s].result[q] = dir[s].result[q]
  BY <1>1, <1>2 DEF SafeInv, TypeOK
<1>5. \A s \in Steps : /\ dir'[s].meta = dir[s].meta
                        /\ dir'[s].shard = dir[s].shard
                        /\ s # target[r] => dir'[s] = dir[s]
  BY <1>1, <1>2 DEF SafeInv, TypeOK
<1>6. Points' /\ Orders' /\ \A s \in Steps : Spoiled(s)' <=> Spoiled(s)
  <2>1. Writing(r)'
    BY <1>3 DEF Writing
  <2> QED BY <1>1, <1>3, <1>5, <2>1, FileMoves
<1>7. Coordinator' /\ Children' /\ Gathering' /\ Described'
  BY <1>1, <1>2, <1>3, <1>4, <1>5, GatheringMoves
<1>8. Shards'
  BY <1>1, <1>2, <1>3, <1>4, <1>5, CoordinatorSteps
  DEF DurableInv, Gathers, Shards, Writing
<1>9. Results'
  <2> SUFFICES ASSUME parent'[0] # "down", NEW s \in Steps, NEW q \in Ranks PROVE ResultOf(s, q)'
    BY DEF Results
  <2>1. ResultOf(s, q)
    BY <1>1 DEF DurableInv, Gathers, Results
  <2>2. CASE q = r
    <3>1. job # Torn /\ target[r] <= target[r]
      BY <1>2, Constants DEF SafeInv, TypeOK, Torn, Jobs
    <3>2. dir[target[r]].shard[r] = job
      BY <1>1 DEF DurableInv, Gathers, Shards
    <3> QED
      BY <1>1, <1>2, <1>3, <1>4, <1>5, <2>1, <2>2, <3>1, <3>2 DEF ResultOf
  <2>3. CASE q # r
    BY <1>1, <1>3, <1>4, <1>5, <2>1, <2>3 DEF ResultOf
  <2> QED BY <2>2, <2>3
<1>10. Ages'
  <2>1. Dates'
    BY <1>1, <1>2, <1>4 DEF DurableInv, Gathers, Ages, Dates
  <2>2. Unmixed'
    BY <1>1, <1>6 DEF DurableInv, Gathers, Ages, Unmixed
  <2> QED BY <2>1, <2>2 DEF Ages
<1> QED BY <1>6, <1>7, <1>8, <1>9, <1>10 DEF DurableInv, Gathers

\* A rank ends its write result, which promises its shard.
LEMMA CloseResultMoves ==
  ASSUME SafeInv, DurableInv, NEW r \in Ranks, CloseResult(r) PROVE DurableInv'
<1>1. /\ writer[r] = "resulting"
      /\ writer' = [writer EXCEPT ![r] = IF r = 0 THEN "readResults" ELSE "report"]
      /\ dir' = [dir EXCEPT ![target[r]].result[r] = job]
      /\ UNCHANGED <<isAsync, stale, job, parent, at, last, target, got, outcome, joiner, future,
                     pointer, victim>>
  BY DEF CloseResult, Close, Step, OnDisk, loop, joining
<1>2. target[r] \in Steps /\ joiner[r] # "none" /\ parent[r] \notin InPlace
  <2>1. target[r] \in Steps
    BY <1>1, CoordinatorSteps DEF Writing
  <2>2. joiner[r] # "none"
    BY <1>1 DEF DurableInv, Gathers, Children
  <2> QED
    BY <2>1, <2>2 DEF SafeInv, Processes, Saves, Save, Waited
<1>3. /\ writer'[r] = IF r = 0 THEN "readResults" ELSE "report"
      /\ \A q \in Ranks : q # r => writer'[q] = writer[q]
  BY <1>1 DEF SafeInv, TypeOK
<1>4. /\ dir'[target[r]].result[r] = job
      /\ \A s \in Steps, q \in Ranks :
           s # target[r] \/ q # r => dir'[s].result[q] = dir[s].result[q]
  BY <1>1, <1>2 DEF SafeInv, TypeOK
<1>5. \A s \in Steps : /\ dir'[s].meta = dir[s].meta
                        /\ dir'[s].shard = dir[s].shard
                        /\ s # target[r] => dir'[s] = dir[s]
  BY <1>1, <1>2 DEF SafeInv, TypeOK
<1>6. Points' /\ Orders' /\ \A s \in Steps : Spoiled(s)' <=> Spoiled(s)
  <2>1. Writing(r)'
    BY <1>3 DEF Writing
  <2> QED BY <1>1, <1>3, <1>5, <2>1, FileMoves
<1>7. Coordinator' /\ Children' /\ Gathering' /\ Described'
  BY <1>1, <1>2, <1>3, <1>4, <1>5, GatheringMoves
<1>8. Shards'
  BY <1>1, <1>2, <1>3, <1>4, <1>5, CoordinatorSteps
  DEF DurableInv, Gathers, Shards, Writing
<1>9. Results'
  <2> SUFFICES ASSUME parent'[0] # "down", NEW s \in Steps, NEW q \in Ranks PROVE ResultOf(s, q)'
    BY DEF Results
  <2>1. ResultOf(s, q)
    BY <1>1 DEF DurableInv, Gathers, Results
  <2>2. CASE q = r
    <3>1. job # Torn /\ target[r] <= target[r]
      BY <1>2, Constants DEF SafeInv, TypeOK, Torn, Jobs
    <3>2. dir[target[r]].shard[r] = job
      BY <1>1 DEF DurableInv, Gathers, Shards
    <3> QED
      BY <1>1, <1>2, <1>3, <1>4, <1>5, <2>1, <2>2, <3>1, <3>2 DEF ResultOf
  <2>3. CASE q # r
    BY <1>1, <1>3, <1>4, <1>5, <2>1, <2>3 DEF ResultOf
  <2> QED BY <2>2, <2>3
<1>10. Ages'
  <2>1. Dates'
    <3>1. job \in 1 .. job
      BY Constants DEF SafeInv, TypeOK, Jobs
    <3> QED BY <1>1, <1>2, <1>4, <3>1 DEF DurableInv, Gathers, Ages, Dates
  <2>2. Unmixed'
    BY <1>1, <1>6 DEF DurableInv, Gathers, Ages, Unmixed
  <2> QED BY <2>1, <2>2 DEF Ages
<1> QED BY <1>6, <1>7, <1>8, <1>9, <1>10 DEF DurableInv, Gathers

----------------------------------------------------------------------------
(***************************************************************************)
(* Steps of the coordinator that gather the results and write metadata.    *)
(***************************************************************************)
\* A coordinator that writes has neither finished nor published its save.
LEMMA CoordinatorWrites ==
  ASSUME SafeInv, Writing(0)
  PROVE  /\ InFlight(0) /\ target[0] \in Steps /\ ~Idle
         /\ parent[0] \notin {"dispatch", "publish", "saved", "down"}
         /\ joiner[0] # "resolve"
<1>1. InFlight(0) /\ target[0] \in Steps /\ Save(0)
  BY CoordinatorSteps, Constants DEF SafeInv, Processes, Saves
<1> QED BY <1>1 DEF InFlight, Save, Idle, Waited, InPlace, Writing

\* A step of the writers after which the coordinator's is as far as before, or
\* has gathered all results, and that leaves metadata and shards alone.
LEMMA GatherMoves ==
  ASSUME SafeInv, DurableInv, writer[0] \in {"result", "readResults"},
         Writing(0)', \A q \in Ranks : Early(q)' => Early(q),
         UNCHANGED <<isAsync, job, parent, at, last, target, joiner, future, pointer, victim>>,
         \A s \in Steps : dir'[s].meta = dir[s].meta /\ dir'[s].shard = dir[s].shard
  PROVE  Points' /\ Orders' /\ InFlight(0)
         /\ parent[0] \notin {"dispatch", "publish", "saved", "down"}
         /\ \A s \in Steps : Spoiled(s)' <=> Spoiled(s)
<1>0. /\ \A s \in Steps : /\ Accounted(s)' <=> Accounted(s)
                          /\ Spoiled(s)' <=> Spoiled(s)
      /\ Listed' = Listed
      /\ \A x : Below(x)' <=> Below(x)
      /\ \A x : Beyond(x)' <=> Beyond(x)
      /\ \A x \in Steps : Untold(x)' <=> Untold(x)
      /\ Sound => Sound'
  BY SameDisk
<1>1. /\ InFlight(0) /\ ~Idle
      /\ parent[0] \notin {"dispatch", "publish", "saved", "down"}
  BY CoordinatorWrites DEF Writing
<1>2. ~Idle' /\ (InFlight(0)' <=> InFlight(0))
  BY <1>1 DEF Idle, InFlight
<1>3. Settled' /\ Others'
  BY <1>1, <1>2 DEF Settled, Others
<1>4. Publishing' /\ Sound'
  BY <1>0, <1>1, <1>2, Constants DEF DurableInv, Points, Publishing
<1>5. NotYet'
  BY <1>0, CoordinatorSteps, Constants DEF DurableInv, Points, NotYet
<1>6. Orders'
  BY <1>0, <1>1, <1>2, Constants DEF DurableInv, Orders, NextSave, OneAhead, Spared
<1> QED BY <1>0, <1>1, <1>3, <1>4, <1>5, <1>6 DEF Points

\* In place, the write results are gathered at once.
LEMMA GatherResultsMoves == ASSUME SafeInv, DurableInv, GatherResults PROVE DurableInv'
<1>1. /\ \A q \in Ranks : /\ writer[q] = "result" /\ joiner[q] = "none"
                          /\ writer'[q] = IF q = 0 THEN "meta" ELSE "report"
      /\ UNCHANGED <<isAsync, stale, job, parent, at, last, target, got, outcome, joiner, future,
                     dir, pointer, victim>>
  BY DEF GatherResults, All, InChild, loop, joining, disk
<1>2. Points' /\ Orders' /\ InFlight(0)
      /\ parent[0] \notin {"dispatch", "publish", "saved", "down"}
      /\ \A s \in Steps : Spoiled(s)' <=> Spoiled(s)
  BY <1>1, GatherMoves, Constants DEF Writing, Early
<1>3. \A q \in Ranks : /\ target[q] = target[0] /\ target[q] \in Steps
                       /\ dir[target[q]].shard[q] = job
  <2> SUFFICES ASSUME NEW q \in Ranks
               PROVE  /\ target[q] = target[0] /\ target[q] \in Steps
                      /\ dir[target[q]].shard[q] = job
    OBVIOUS
  <2>1. InFlight(q) /\ target[q] \in Steps
    BY <1>1, CoordinatorSteps DEF Writing
  <2>2. target[q] = target[0]
    BY <1>2, <2>1, Constants DEF SafeInv, Processes, OneSave
  <2> QED BY <1>1, <2>1, <2>2 DEF DurableInv, Gathers, Shards
<1>4. \A q \in Ranks : Delivered(q)'
  BY <1>1, <1>3, Constants DEF Delivered
<1>5. Shards' /\ Coordinator' /\ Children'
  BY <1>1, <1>3 DEF DurableInv, Gathers, Shards, Coordinator, Children
<1>6. Results'
  BY <1>1, <1>2 DEF DurableInv, Gathers, Results, ResultOf
<1>7. Ages'
  BY <1>1, <1>2 DEF DurableInv, Gathers, Ages, Dates, Unmixed
<1>8. Gathering' /\ Described'
  BY <1>1, <1>4, Constants DEF Gathering, Described
<1> QED BY <1>2, <1>5, <1>6, <1>7, <1>8 DEF DurableInv, Gathers

\* The coordinator reads a write result: the shard it promises is there, or
\* the result is of an earlier incarnation.
LEMMA ReadResultMoves ==
  ASSUME SafeInv, DurableInv, NEW q \in Ranks, ReadResult(q) PROVE DurableInv'
<1>1. /\ writer[0] = "readResults" /\ q \notin got[0]
      /\ Complete(dir[target[0]].result[q])
      /\ dir' = [dir EXCEPT ![target[0]].result[q] = Absent]
      /\ UNCHANGED <<isAsync, job, parent, at, last, target, outcome, joiner, future,
                     pointer, victim>>
      /\ \/ got[0] \cup {q} = Ranks /\ writer' = [writer EXCEPT ![0] = "meta"]
         \/ got' = [got EXCEPT ![0] = got[0] \cup {q}] /\ writer' = writer
  BY DEF ReadResult, Step, loop, joining
<1>2. /\ \A p \in Ranks : p # 0 => writer'[p] = writer[p]
      /\ \/ got[0] \cup {q} = Ranks /\ writer'[0] = "meta"
         \/ got'[0] = got[0] \cup {q} /\ writer'[0] = "readResults"
  BY <1>1, Constants DEF SafeInv, TypeOK
<1>3. ~stale' <=> ~stale /\ dir[target[0]].result[q] = job
  BY DEF ReadResult
<1>4. /\ InFlight(0) /\ target[0] \in Steps /\ parent[0] # "down"
      /\ joiner[0] # "none" /\ isAsync /\ victim = 0
  <2>1. InFlight(0) /\ target[0] \in Steps /\ parent[0] # "down"
    BY <1>1, CoordinatorWrites DEF Writing
  <2>2. joiner[0] # "none" /\ isAsync
    BY <1>1, Constants DEF DurableInv, Gathers, Children
  <2>3. parent[0] \notin Waited
    BY <2>2, Constants DEF SafeInv, Processes, Saves, Save
  <2> QED BY <2>1, <2>2, <2>3 DEF SafeInv, Rotation, Rotating, Waited
<1>5. /\ \A s \in Steps : dir'[s].meta = dir[s].meta /\ dir'[s].shard = dir[s].shard
      /\ dir'[target[0]].result[q] = Absent
      /\ \A s \in Steps, p \in Ranks :
           s # target[0] \/ p # q => dir'[s].result[p] = dir[s].result[p]
  BY <1>1, <1>4 DEF SafeInv, TypeOK
<1>6. Points' /\ Orders' /\ \A s \in Steps : Spoiled(s)' <=> Spoiled(s)
  <2>1. Writing(0)' /\ \A p \in Ranks : Early(p)' => Early(p)
    BY <1>1, <1>2 DEF Writing, Early
  <2> QED BY <1>1, <1>5, <2>1, GatherMoves
<1>7. ASSUME ~stale' PROVE \A p \in got[0] \cup {q} : Delivered(p)'
  <2>1. Delivered(q)'
    <3>1. ResultOf(target[0], q) /\ dir[target[0]].result[q] = job
      BY <1>3, <1>4, <1>7 DEF DurableInv, Gathers, Results
    <3>2. target[q] <= target[0] /\ target[q] \in Int /\ target[0] \in Int
      BY <1>4, Constants DEF DurableInv, Orders, OneAhead, SafeInv, TypeOK
    <3>3. target[0] <= target[q]
      BY <3>1 DEF ResultOf
    <3>4. target[q] = target[0]
      BY <3>2, <3>3
    <3>5. target[0] # 0
      BY <1>4, Constants DEF Steps
    <3>6. /\ dir[target[0]].shard[q] = job
          /\ writer[q] \in {"readResults", "meta", "describing", "report", "exiting",
                            "exited"}
      BY <1>4, <3>1, <3>4, <3>5 DEF ResultOf
    <3>7. q # 0 => writer[q] \notin {"readResults", "meta", "describing"}
      BY DEF DurableInv, Gathers, Coordinator
    <3> QED BY <1>1, <1>2, <1>4, <1>5, <3>4, <3>6, <3>7 DEF Delivered
  <2>2. \A p \in got[0] : p \in Ranks /\ Delivered(p)
    BY <1>1, <1>3, <1>7, Constants DEF DurableInv, Gathers, Gathering, SafeInv, TypeOK
  <2>3. \A p \in got[0] : Delivered(p)'
    BY <1>1, <1>2, <1>4, <1>5, <2>2 DEF Delivered
  <2> QED BY <2>1, <2>3
<1>8. Gathering'
  <2>1. ~stale' /\ writer'[0] = "readResults" => \A p \in got'[0] : Delivered(p)'
    BY <1>2, <1>7
  <2>2. ~stale' /\ Gathered' => \A p \in Ranks : Delivered(p)'
    BY <1>2, <1>7 DEF Gathered
  <2> QED BY <1>2, <2>1, <2>2 DEF Gathering
<1>9. Described'
  BY <1>2 DEF Described, Gathered
<1>10. Shards' /\ Coordinator' /\ Children'
  BY <1>1, <1>2, <1>5, CoordinatorSteps, Constants
  DEF DurableInv, Gathers, Shards, Coordinator, Children, Writing
<1>11. Dates' /\ Unmixed'
  <2>1. Dates'
    BY <1>1, <1>5 DEF DurableInv, Gathers, Ages, Dates
  <2>2. ASSUME job = 1 \/ ~isAsync PROVE ~stale'
    <3>1. job = 1 /\ ~stale
      BY <1>4, <2>2 DEF DurableInv, Gathers, Ages, Unmixed
    <3>2. dir[target[0]].result[q] \in 1 .. 1
      BY <1>1, <1>4, <3>1 DEF DurableInv, Gathers, Ages, Dates, Complete
    <3> QED BY <1>3, <3>1, <3>2
  <2>3. (job = 1 \/ ~isAsync) => \A s \in Steps : ~Spoiled(s)'
    BY <1>6 DEF DurableInv, Gathers, Ages, Unmixed
  <2> QED BY <1>1, <2>1, <2>2, <2>3 DEF Unmixed
<1>12. Results'
  <2> SUFFICES ASSUME NEW s \in Steps, NEW p \in Ranks PROVE ResultOf(s, p)'
    BY DEF Results
  <2>1. ResultOf(s, p)
    BY <1>4 DEF DurableInv, Gathers, Results
  <2>2. job # Absent
    BY Constants DEF SafeInv, TypeOK, Jobs, Absent
  <2>3. dir'[s].result[p] = job => dir[s].result[p] = job
    BY <1>5, <2>2
  <2> QED BY <1>1, <1>2, <1>5, <2>1, <2>3 DEF ResultOf
<1> QED BY <1>6, <1>8, <1>9, <1>10, <1>11, <1>12 DEF DurableInv, Gathers, Ages

\* The coordinator writes the metadata of what it has gathered.
LEMMA MetaMoves ==
  ASSUME SafeInv, DurableInv, NEW to, NEW file,
         \/ writer[0] = "meta" /\ to = "describing" /\ file = Torn
         \/ /\ writer[0] = "describing" /\ to = "report"
            /\ file = IF stale THEN Mixed ELSE job,
         writer' = [writer EXCEPT ![0] = to],
         dir' = [dir EXCEPT ![target[0]].meta = file],
         UNCHANGED <<isAsync, stale, job, parent, at, last, target, got, outcome, joiner, future,
                     pointer, victim>>
  PROVE  /\ DurableInv' /\ Gathered /\ target[0] \in Steps
         /\ to = "describing" /\ pointer \notin Steps => target[0] \notin Listed
         /\ to = "report" => Accounted(target[0])'
<1>1. /\ InFlight(0) /\ target[0] \in Steps /\ ~Idle /\ Gathered
      /\ parent[0] \notin {"dispatch", "publish", "saved", "down"}
      /\ joiner[0] # "resolve" /\ job \in Jobs
  BY CoordinatorWrites DEF Writing, Gathered, SafeInv, TypeOK
<1>2. /\ pointer \in Steps => pointer < target[0]
      /\ \A q \in Ranks : /\ InFlight(q) => target[q] = target[0]
                          /\ parent[q] = "dispatch" => at[q] = target[0]
  BY <1>1, CoordinatorSteps, Constants
  DEF DurableInv, Points, Publishing, SafeInv, Processes, OneSave
<1>3. /\ writer'[0] = to /\ \A q \in Ranks : q # 0 => writer'[q] = writer[q]
  BY Constants DEF SafeInv, TypeOK
<1>4. /\ dir'[target[0]].meta = file
      /\ \A s \in Steps : /\ dir'[s].shard = dir[s].shard /\ dir'[s].result = dir[s].result
                          /\ s # target[0] => dir'[s].meta = dir[s].meta
  BY <1>1 DEF SafeInv, TypeOK
<1>5. /\ \A q \in Ranks : InFlight(q)' <=> InFlight(q)
      /\ ~Idle' /\ Gathered'
      /\ ~stale => \A q \in Ranks : Delivered(q) /\ Delivered(q)'
  <2>1. (\A q \in Ranks : InFlight(q)' <=> InFlight(q)) /\ ~Idle' /\ Gathered'
    BY <1>1, <1>3 DEF InFlight, Idle, Gathered
  <2>2. ASSUME ~stale, NEW q \in Ranks PROVE Delivered(q) /\ Delivered(q)'
    <3>1. Delivered(q)
      BY <1>1, <2>2 DEF DurableInv, Gathers, Gathering
    <3> QED BY <1>1, <1>3, <1>4, <3>1 DEF Delivered
  <2> QED BY <2>1, <2>2
<1>6. to = "describing" => /\ Beyond(target[0])
                           /\ pointer \notin Steps => target[0] \notin Listed
  <2>1. to = "describing" => Beyond(target[0])
    BY Constants DEF DurableInv, Points, NotYet, Early
  <2> QED BY <1>1, <2>1, Constants DEF Beyond
<1>7. \A s \in Steps : s # target[0] =>
        /\ Accounted(s)' <=> Accounted(s)
        /\ Spoiled(s)' <=> Spoiled(s)
        /\ s \in DescribedSteps' <=> s \in DescribedSteps
  BY <1>4 DEF Accounted, Whole, Complete, Spoiled, DescribedSteps
<1>8. to = "report" => Accounted(target[0])' /\ (stale => Spoiled(target[0])')
  <2>1. CASE stale
    BY <1>4, <2>1 DEF Spoiled, Accounted
  <2>2. ASSUME ~stale, to = "report" PROVE Whole(target[0])'
    <3>1. dir'[target[0]].meta = job /\ job \notin {Absent, Torn} /\ job' = job
      BY <1>1, <1>4, <2>2, Constants DEF Jobs, Absent, Torn
    <3>2. \A q \in Ranks : dir'[target[0]].shard[q] = job
      BY <1>5, <2>2 DEF Delivered
    <3> QED BY <1>1, <3>1, <3>2 DEF Whole, Complete
  <2> QED BY <2>1, <2>2 DEF Accounted
<1>9. /\ to = "describing" => target[0] \notin DescribedSteps'
      /\ to = "report" => target[0] \in DescribedSteps'
  <2>1. to = "describing" => target[0] \notin DescribedSteps'
    BY <1>4 DEF DescribedSteps, Complete
  <2>2. to = "report" => dir'[target[0]].meta \notin {Absent, Torn}
    BY <1>1, <1>4, Constants DEF Jobs, Mixed, Absent, Torn
  <2> QED BY <1>1, <2>1, <2>2 DEF DescribedSteps, Complete
<1>10. Listed' \subseteq Listed \cup {target[0]}
  BY <1>4 DEF Listed
<1>11. /\ \A c : Below(c)' => Below(c)
       /\ to = "describing" => Below(target[0])'
  <2>1. CASE pointer \in Steps
    BY <1>2, <2>1 DEF Below
  <2>2. CASE pointer \notin Steps
    <3>1. DescribedSteps \subseteq DescribedSteps'
      BY <1>6, <1>7, <1>9, <2>2, AccountedListed
    <3>2. to = "describing" => \A s \in DescribedSteps' : s \in Listed /\ s < target[0]
      <4>1. DescribedSteps' \subseteq Steps
        BY DEF DescribedSteps
      <4> QED BY <1>6, <1>7, <1>9, <2>2, <4>1, AccountedListed DEF Beyond
    <3> QED BY <2>2, <3>1, <3>2 DEF Below
  <2> QED BY <2>1, <2>2
<1>12. Shards' /\ Coordinator' /\ Children'
  BY <1>1, <1>3, <1>4, CoordinatorSteps, Constants
  DEF DurableInv, Gathers, Shards, Coordinator, Children, Writing
<1>13. Results'
  BY <1>1, <1>3, <1>4 DEF DurableInv, Gathers, Results, ResultOf
<1>14. Dates' /\ Unmixed'
  <2>1. Dates'
    BY <1>4 DEF DurableInv, Gathers, Ages, Dates
  <2>2. ASSUME job = 1 \/ ~isAsync PROVE ~stale /\ \A s \in Steps : ~Spoiled(s)'
    <3>1. ~stale /\ \A s \in Steps : ~Spoiled(s)
      BY <2>2 DEF DurableInv, Gathers, Ages, Unmixed
    <3>2. file # Mixed
      BY <1>1, <3>1, Constants DEF Jobs, Mixed, Torn
    <3> QED BY <1>4, <1>7, <3>1, <3>2 DEF Spoiled
  <2> QED BY <2>1, <2>2 DEF Unmixed
<1>15. Gathering' /\ Described'
  BY <1>1, <1>3, <1>4, <1>5 DEF Gathering, Described
<1>16. Settled' /\ Others'
  BY <1>1, <1>5 DEF Settled, Others
<1>17. Publishing'
  BY <1>1, <1>2, <1>5, Constants DEF DurableInv, Points, Publishing
<1>18. Sound'
  <2>1. ASSUME pointer \in Steps PROVE Accounted(pointer)'
    BY <1>1, <1>2, <1>7, <2>1, Constants DEF DurableInv, Points, Sound
  <2>2. ASSUME pointer \notin Steps, NEW s \in DescribedSteps',
               \A t \in DescribedSteps' : t <= s
        PROVE  Accounted(s)'
    <3>1. s \in Steps /\ DescribedSteps' \subseteq Steps
      BY DEF DescribedSteps
    <3>2. CASE to = "describing"
      BY <1>6, <1>7, <1>9, <2>2, <3>1, <3>2, AccountedListed DEF DurableInv, Points, Sound
    <3>3. CASE to = "report"
      <4>1. \A t \in Listed : t <= target[0]
        BY <1>1 DEF DurableInv, Orders, OneAhead
      <4>2. s \in Listed \/ s = target[0]
        BY <1>7, <3>1, AccountedListed
      <4>3. s <= target[0] /\ target[0] <= s
        BY <1>1, <1>9, <2>2, <3>3, <4>1, <4>2, Constants
      <4>4. s = target[0]
        BY <1>1, <3>1, <4>3, Constants
      <4> QED BY <1>8, <3>3, <4>4
    <3> QED BY <3>2, <3>3
  <2> QED BY <2>1, <2>2 DEF Sound
<1>19. NotYet'
  <2>1. ~Early(0)'
    BY <1>3 DEF Early
  <2>2. ASSUME NEW q \in Ranks, q # 0, Late(q) PROVE Untold(target[0])'
    <3>1. CASE to = "describing"
      BY <1>11, <3>1 DEF Untold
    <3>2. CASE to = "report" /\ stale
      BY <1>8, <3>2 DEF Untold
    <3>3. ~stale => FALSE
      <4>1. ASSUME ~stale PROVE parent[q] # "dispatch" /\ ~Early(q)
        BY <1>1, <1>5, <2>2, <4>1, GatheredTogether DEF Delivered, Early
      <4> QED BY <2>2, <4>1 DEF Late
    <3> QED BY <3>1, <3>2, <3>3
  <2>3. \A q \in Ranks : /\ parent'[q] = "dispatch" => q # 0 /\ Late(q) /\ at'[q] = target'[0]
                         /\ Early(q)' => q # 0 /\ Late(q) /\ target'[q] = target'[0]
    BY <1>1, <1>2, <1>3, <2>1, CoordinatorSteps DEF Late, Early
  <2> QED BY <2>1, <2>2, <2>3 DEF NotYet
<1>20. Orders'
  <2>1. NextSave' /\ Spared'
    BY DEF DurableInv, Orders, NextSave, Spared
  <2>2. \A c \in SaveSteps : Below(c)' => target[0] <= c /\ \A s \in Listed' : s <= c
    BY <1>1, <1>10, <1>11 DEF DurableInv, Orders, OneAhead
  <2>3. /\ \A s \in Listed' : s <= target[0]
        /\ \A q \in Ranks : target[q] <= target[0]
    BY <1>1, <1>10, Constants DEF DurableInv, Orders, OneAhead
  <2> QED BY <2>1, <2>2, <2>3 DEF Orders, OneAhead
<1>21. Gathers'
  BY <1>12, <1>13, <1>14, <1>15 DEF Gathers, Ages
<1>22. Points'
  BY <1>16, <1>17, <1>18, <1>19 DEF Points
<1> QED BY <1>1, <1>6, <1>8, <1>20, <1>21, <1>22 DEF DurableInv

LEMMA DescribeMoves ==
  ASSUME SafeInv, DurableInv, OpenMeta \/ CloseMeta PROVE DurableInv'
BY MetaMoves DEF OpenMeta, CloseMeta, Step, OnDisk, loop, joining

----------------------------------------------------------------------------
(***************************************************************************)
(* Rotation, the end of a job and its next start.                          *)
(***************************************************************************)
\* A directory other than that of the step last saved loses files.
LEMMA DeletionMoves ==
  ASSUME SafeInv, DurableInv, NEW v \in Steps, v # last[0],
         victim \in {0, v}, victim' \in {0, v},
         parent[0] \in Rotating,
         UNCHANGED <<isAsync, stale, job, parent, at, last, writer, target, got, outcome, joiner,
                     future, pointer>>,
         \A s \in Steps : s # v => dir'[s] = dir[s],
         dir'[v].meta \in {Absent, dir[v].meta},
         \A q \in Ranks : dir'[v].result[q] \in {Absent, dir[v].result[q]},
         victim' = v \/ \A q \in Ranks : dir'[v].result[q] = Absent
  PROVE  DurableInv'
<1>1. /\ Idle /\ future[0] = "none" /\ joiner[0] = "none" /\ ~InFlight(0)
      /\ parent[0] \notin {"dispatch", "publish", "saved", "down"}
  BY Constants DEF SafeInv, Processes, Saves, Save, Rotating, Waited, Idle, InPlace, InFlight
<1>2. /\ Idle' /\ ~Gathered' /\ \A q \in Ranks : InFlight(q)' <=> InFlight(q)
  BY <1>1 DEF Idle, Gathered, InFlight
<1>3. /\ \A q \in Ranks : /\ InFlight(q) => target[q] = last[0]
                          /\ parent[q] = "dispatch" => at[q] = last[0]
                          /\ Late(q) => last[0] \in Steps /\ Spoiled(last[0])
                          /\ Writing(q) => target[q] = last[0] /\ target[q] \in Steps
      /\ ~Writing(0) /\ ~Early(0)
  BY <1>1, CoordinatorSteps, Constants DEF DurableInv, Points, Others
<1>4. /\ \A s \in Steps : s # v => /\ Accounted(s)' <=> Accounted(s)
                                   /\ Spoiled(s)' <=> Spoiled(s)
                                   /\ s \in DescribedSteps' <=> s \in DescribedSteps
      /\ \A s \in Steps : Spoiled(s)' => Spoiled(s)
      /\ Listed' \subseteq Listed
  <2>1. Mixed # Absent
    BY DEF Mixed, Absent
  <2> QED BY <2>1 DEF Accounted, Spoiled, Whole, Complete, Listed, DescribedSteps
<1>5. last[0] # -1 => last[0] \in Steps
  BY CoordinatorSteps
<1>6. Shards' /\ Coordinator' /\ Children'
  BY <1>3 DEF DurableInv, Gathers, Shards, Coordinator, Children, Writing
<1>7. Results'
  <2> SUFFICES ASSUME NEW s \in Steps, NEW q \in Ranks PROVE ResultOf(s, q)'
    BY DEF Results
  <2>1. ResultOf(s, q)
    BY <1>1 DEF DurableInv, Gathers, Results
  <2>2. job # Absent
    BY Constants DEF SafeInv, TypeOK, Jobs, Absent
  <2>3. CASE s = v
    BY <2>1, <2>2, <2>3 DEF ResultOf
  <2>4. CASE s # v
    <3>1. s # 0
      BY Constants DEF Steps
    <3> QED BY <2>1, <2>4, <3>1 DEF ResultOf
  <2> QED BY <2>3, <2>4
<1>8. Ages'
  <2>1. Dates'
    BY DEF DurableInv, Gathers, Ages, Dates
  <2>2. Unmixed'
    BY <1>4 DEF DurableInv, Gathers, Ages, Unmixed
  <2> QED BY <2>1, <2>2 DEF Ages
<1>9. Gathering' /\ Described'
  BY <1>2, <1>3 DEF DurableInv, Gathers, Gathering, Described, Writing
<1>10. /\ pointer \in Steps => pointer = last[0]
       /\ pointer \notin Steps => /\ \A s \in Listed : s <= last[0]
                                  /\ last[0] # -1 => last[0] \in DescribedSteps
  BY <1>1 DEF DurableInv, Points, Settled
<1>11. Settled'
  BY <1>4, <1>5, <1>10 DEF Settled
<1>12. Sound'
  <2>1. ASSUME pointer \in Steps PROVE Accounted(pointer)'
    BY <1>4, <1>10, <2>1 DEF DurableInv, Points, Sound
  <2>2. ASSUME pointer \notin Steps, NEW s \in DescribedSteps',
               \A t \in DescribedSteps' : t <= s
        PROVE  Accounted(s)'
    <3>1. s \in Listed' /\ s \in Nat /\ DescribedSteps \subseteq Listed
      <4>1. s \in Listed' /\ s \in Steps
        BY <2>2 DEF DescribedSteps, Listed, Complete
      <4> QED BY <4>1, AccountedListed, Constants
    <3>2. s <= last[0]
      BY <1>4, <1>10, <2>2, <3>1
    <3>3. last[0] # -1
      BY <3>1, <3>2
    <3>4. last[0] \in DescribedSteps /\ last[0] \in DescribedSteps' /\ last[0] \in Nat
      BY <1>4, <1>5, <1>10, <2>2, <3>3, Constants
    <3>5. s = last[0]
      BY <2>2, <3>1, <3>2, <3>4
    <3>6. Accounted(last[0])
      BY <1>10, <2>2, <3>1, <3>4 DEF DurableInv, Points, Sound
    <3> QED BY <1>4, <1>5, <3>3, <3>5, <3>6
  <2> QED BY <2>1, <2>2 DEF Sound
<1>13. Others'
  <2>1. \A q \in Ranks : Late(q)' <=> Late(q)
    BY DEF Late, Early
  <2> QED BY <1>1, <1>2, <1>3, <1>4, <2>1 DEF Others
<1>14. Publishing' /\ NotYet'
  <2>1. Publishing'
    BY <1>1, <1>2, Constants DEF Publishing
  <2>2. \A q \in Ranks : /\ Early(q)' <=> Early(q)
                         /\ Early(q) => Late(q) /\ Writing(q)
                         /\ parent[q] = "dispatch" => Late(q)
    BY DEF Early, Late, Writing
  <2>3. NotYet'
    <3>1. ~Early(0)'
      BY <1>3, <2>2, Constants
    <3>2. ASSUME NEW q \in Ranks, Late(q) PROVE Spoiled(last[0])'
      BY <1>3, <1>4, <3>2
    <3>3. ASSUME NEW q \in Ranks, parent'[q] = "dispatch" PROVE Untold(at[q])'
      <4>1. at'[q] = last[0] /\ Late(q)
        BY <1>3, <2>2, <3>3
      <4> QED BY <3>2, <4>1 DEF Untold
    <3>4. ASSUME NEW q \in Ranks, Early(q)' PROVE Untold(target[q])'
      <4>1. target'[q] = last[0] /\ Late(q)
        BY <1>3, <2>2, <3>4
      <4> QED BY <3>2, <4>1 DEF Untold
    <3> QED BY <3>1, <3>3, <3>4 DEF NotYet
  <2> QED BY <2>1, <2>3
<1>15. Orders'
  <2>1. NextSave' /\ Spared'
    BY Constants DEF DurableInv, Orders, NextSave, Spared, Steps
  <2>2. ASSUME NEW c \in SaveSteps, Below(c)' PROVE \A s \in Listed' : s <= c
    <3>1. CASE pointer \in Steps
      BY <1>4, <2>2, <3>1 DEF DurableInv, Orders, OneAhead, Below
    <3>2. CASE pointer \notin Steps
      <4>1. /\ \A s \in Listed : s <= last[0]
            /\ last[0] # -1 => last[0] \in DescribedSteps'
        BY <1>4, <1>5, <1>10, <3>2
      <4>2. Listed \subseteq Nat /\ c \in Nat /\ last[0] \in Int
        BY Constants, CoordinatorSteps DEF Listed
      <4>3. last[0] # -1 => last[0] < c
        BY <2>2, <3>2, <4>1 DEF Below
      <4>4. ASSUME NEW s \in Listed PROVE s <= c
        <5>1. s <= last[0] /\ s \in Nat
          BY <4>1, <4>2
        <5> QED BY <4>2, <4>3, <5>1
      <4> QED BY <1>4, <4>4
    <3> QED BY <3>1, <3>2
  <2> QED BY <1>1, <1>2, <2>1, <2>2, Constants DEF Orders, OneAhead
<1>16. Gathers'
  BY <1>6, <1>7, <1>8, <1>9 DEF Gathers
<1>17. Points'
  BY <1>11, <1>12, <1>13, <1>14 DEF Points
<1> QED BY <1>15, <1>16, <1>17 DEF DurableInv

\* _rotate_checkpoints begins, or ends, to delete a directory.
LEMMA DeleteMoves == ASSUME SafeInv, DurableInv, Delete \/ Deleted PROVE DurableInv'
<1>1. CASE Delete
  <2>1. /\ victim' \in Steps /\ victim' # last[0] /\ parent[0] \in Rotating /\ victim = 0
    BY <1>1, VictimIs DEF Delete
  <2>2. PICK meta \in {Absent, dir[victim'].meta} :
          dir' = [dir EXCEPT ![victim'] = [@ EXCEPT !.shard = All(Torn), !.meta = meta]]
    BY <1>1 DEF Delete
  <2>3. /\ \A s \in Steps : s # victim' => dir'[s] = dir[s]
        /\ dir'[victim'].meta \in {Absent, dir[victim'].meta}
        /\ \A q \in Ranks : dir'[victim'].result[q] = dir[victim'].result[q]
    BY <2>1, <2>2 DEF SafeInv, TypeOK
  <2>4. UNCHANGED <<isAsync, stale, job, parent, at, last, writer, target, got, outcome, joiner,
                    future, pointer>>
    BY <1>1 DEF Delete, loop, saving, joining
  <2> QED BY <2>1, <2>3, <2>4, DeletionMoves
<1>2. CASE Deleted
  <2>1. victim \in Steps /\ victim # last[0] /\ parent[0] \in Rotating /\ victim' = 0
    BY <1>2, Constants
    DEF Deleted, SafeInv, TypeOK, Rotation, DurableInv, Orders, Spared, Steps
  <2>2. /\ \A s \in Steps : s # victim => dir'[s] = dir[s]
        /\ dir'[victim].meta = Absent
        /\ \A q \in Ranks : dir'[victim].result[q] = Absent
    BY <1>2, <2>1 DEF Deleted, SafeInv, TypeOK, EmptyDir, NoFiles
  <2>3. UNCHANGED <<isAsync, stale, job, parent, at, last, writer, target, got, outcome, joiner,
                    future, pointer>>
    BY <1>2 DEF Deleted, loop, saving, joining
  <2> QED BY <2>1, <2>2, <2>3, DeletionMoves
<1> QED BY <1>1, <1>2

\* Nothing is left of the processes of a job that is down.
LEMMA DownMoves ==
  ASSUME SafeInv, DurableInv, parent' = All("down"), Quiet,
         UNCHANGED <<isAsync, job, at, last, dir, pointer>>
  PROVE  DurableInv'
<1>0. /\ \A s \in Steps : /\ Accounted(s)' <=> Accounted(s)
                          /\ Spoiled(s)' <=> Spoiled(s)
      /\ Listed' = Listed
      /\ \A x : Below(x)' <=> Below(x)
      /\ Sound => Sound'
  BY SameDisk
<1>1. /\ \A q \in Ranks : /\ parent'[q] = "down" /\ writer'[q] = "none"
                          /\ joiner'[q] = "none" /\ future'[q] = "none"
      /\ victim' = 0 /\ got'[0] = {}
  BY Constants DEF Quiet, All
<1>2. ~stale'
  BY DEF Quiet
<1>3. ~Idle' /\ ~Gathered' /\ \A q \in Ranks : ~InFlight(q)'
  BY <1>1, Constants DEF Idle, Gathered, InFlight
<1>4. Ages'
  BY <1>0, <1>2 DEF DurableInv, Gathers, Ages, Dates, Unmixed
<1>5. Gathers'
  BY <1>1, <1>3, <1>4, Constants
  DEF Gathers, Shards, Results, Coordinator, Children, Gathering, Described
<1>6. Points'
  BY <1>0, <1>1, <1>3, Constants
  DEF DurableInv, Points, Settled, Others, Publishing, NotYet, Early
<1>7. Orders'
  BY <1>0, <1>1, <1>3, Constants DEF DurableInv, Orders, NextSave, OneAhead, Spared
<1> QED BY <1>5, <1>6, <1>7 DEF DurableInv

\* A restart finds the directories as they are, and resumes from the one that
\* the pointer names, or else from the newest, which has to load.
LEMMA RestartMoves == ASSUME SafeInv, DurableInv, Restart PROVE DurableInv'
<1>1. /\ parent = All("down") /\ job' = job + 1
      /\ FindLatest # 0 => Loadable(FindLatest)
      /\ at' = All(FindLatest) /\ last' = All(IF FindLatest = 0 THEN -1 ELSE FindLatest)
      /\ parent' = All(IF FindLatest = MaxStep THEN "last" ELSE "step")
      /\ UNCHANGED <<isAsync, stale, writer, target, got, outcome, joiner, future,
                     dir, pointer, victim>>
  BY DEF Restart, saving, joining, disk
<1>2. \A q \in Ranks : /\ future[q] = "none" /\ joiner[q] = "none"
                       /\ writer[q] \in {"none", "exited"} /\ parent[q] = "down"
  BY <1>1 DEF SafeInv, Processes, Saves, Save, InFlight, Writing, Waited, All
<1>0. /\ \A s \in Steps : /\ Accounted(s)' <=> Accounted(s)
                          /\ Spoiled(s)' <=> Spoiled(s)
      /\ Listed' = Listed /\ DescribedSteps' = DescribedSteps
      /\ \A x : Below(x)' <=> Below(x)
      /\ Sound => Sound'
  BY <1>1, SameDisk
<1>3. /\ \A q \in Ranks : at'[q] = FindLatest /\ parent'[q] \in {"last", "step"}
      /\ last'[0] = IF FindLatest = 0 THEN -1 ELSE FindLatest
  BY <1>1, Constants DEF All
<1>4. Idle' /\ ~Gathered' /\ \A q \in Ranks : ~InFlight(q)'
  BY <1>1, <1>2, <1>3, Constants DEF Idle, Gathered, InFlight, InPlace
<1>5. Dates' /\ Results'
  <2>1. job \in Nat
    BY Constants DEF SafeInv, TypeOK, Jobs
  <2>2. \A s \in Steps, q \in Ranks : dir[s].result[q] \in {Absent, Torn} \cup 1 .. job
    BY DEF DurableInv, Gathers, Ages, Dates
  <2>3. \A s \in Steps, q \in Ranks : dir[s].result[q] # job + 1
    BY <2>1, <2>2 DEF Absent, Torn
  <2> QED BY <1>1, <2>1, <2>2, <2>3 DEF Dates, Results, ResultOf
<1>6. Unmixed'
  <2>1. job' # 1
    BY <1>1, Constants DEF SafeInv, TypeOK, Jobs
  <2> QED BY <1>0, <1>1, <2>1 DEF DurableInv, Gathers, Ages, Unmixed
<1>7. Gathers'
  BY <1>1, <1>2, <1>4, <1>5, <1>6, Constants
  DEF Gathers, Ages, Shards, Coordinator, Children, Gathering, Described
<1>8. Settled'
  <2>1. CASE pointer \in Steps
    <3>1. pointer \in Listed
      BY <2>1, AccountedListed DEF DurableInv, Points, Sound
    <3>2. FindLatest = pointer /\ FindLatest # 0
      BY <2>1, <3>1, Constants DEF FindLatest, Steps
    <3> QED BY <1>1, <1>3, <2>1, <3>2 DEF Settled
  <2>2. CASE pointer \notin Steps /\ Listed = {}
    <3>1. FindLatest = 0
      BY <2>2 DEF FindLatest
    <3> QED BY <1>0, <1>1, <1>3, <2>2, <3>1 DEF Settled
  <2>3. CASE pointer \notin Steps /\ Listed # {}
    <3>1. Listed \in SUBSET Steps
      BY DEF Listed
    <3>2. FindLatest = Newest(Listed)
      BY <2>3, <3>1 DEF FindLatest
    <3>3. FindLatest \in Listed /\ \A s \in Listed : s <= FindLatest
      BY <2>3, <3>1, <3>2, NewestIs
    <3>4. FindLatest # 0
      BY <3>1, <3>3, Constants DEF Steps
    <3>5. FindLatest \in DescribedSteps
      BY <1>1, <3>1, <3>3, <3>4 DEF Loadable, DescribedSteps
    <3> QED BY <1>0, <1>1, <1>3, <2>3, <3>3, <3>4, <3>5 DEF Settled
  <2> QED BY <2>1, <2>2, <2>3
<1>9. Others' /\ Publishing' /\ NotYet'
  BY <1>1, <1>2, <1>3, <1>4, Constants DEF Others, Late, Publishing, NotYet, Early
<1>10. Sound'
  BY <1>0 DEF DurableInv, Points
<1>11. NextSave'
  <2>1. \A c \in SaveSteps : 0 < c
    BY Constants DEF Steps
  <2> QED BY <1>3, <2>1, Constants DEF NextSave
<1>12. OneAhead' /\ Spared'
  <2>1. victim = 0
    BY <1>2, Constants DEF SafeInv, Rotation, Rotating
  <2> QED
    BY <1>0, <1>1, <1>3, <1>4, <2>1, Constants DEF DurableInv, Orders, OneAhead, Spared
<1> QED BY <1>7, <1>8, <1>9, <1>10, <1>11, <1>12 DEF DurableInv, Points, Orders

----------------------------------------------------------------------------
\* Every step keeps the invariant.
LEMMA NextDurable == SafeInv /\ DurableInv /\ [Next]_vars => DurableInv'
<1> SUFFICES ASSUME SafeInv, DurableInv, [Next]_vars PROVE DurableInv'
  OBVIOUS
<1>1. ASSUME NEW r \in Ranks, Loop(r) PROVE DurableInv'
  BY <1>1, StepEndMoves, TrainEndMoves, WaitMoves, RotatedMoves, DispatchMoves, SavedMoves
  DEF Loop
<1>2. CASE LoopAll
  BY <1>2, TrainStepMoves, DeleteMoves, BarrierMoves, FinalizeMoves, PublishMoves DEF LoopAll
<1>3. CASE Crash \/ Teardown
  BY <1>3, DownMoves DEF Crash, Teardown
<1>4. ASSUME NEW r \in Ranks, Write(r) \/ ChildFails(r) PROVE DurableInv'
  BY <1>4, WriterAdvances, OpenShardMoves, CloseShardMoves, OpenResultMoves, CloseResultMoves
  DEF Write
<1>5. CASE WriteAll
  BY <1>5, GatherPlansAdvances, GatherResultsMoves, ReadResultMoves, DescribeMoves DEF WriteAll
<1>6. ASSUME NEW r \in Ranks, Polling(r) \/ Thread(r) PROVE DurableInv'
  BY <1>6, ThreadAdvances, ResolveMoves DEF Polling, Thread
<1>7. CASE Work
  BY <1>1, <1>2, <1>3, <1>4, <1>5, <1>6, <1>7, CallbackMoves DEF Work
<1>8. CASE UNCHANGED vars
  <2>1. \A q \in Ranks : Advanced(q)
    BY <1>8 DEF vars, saving, Advanced
  <2>2. UNCHANGED <<isAsync, stale, job, parent, at, last, writer, target, got, joiner, future, dir,
                    pointer, victim>>
    BY <1>8 DEF vars, loop, saving, joining, disk
  <2>3. writer[0] = "readPlans" => writer'[0] \notin {"plan", "shard"}
    BY <2>2
  <2> QED BY <2>1, <2>2, <2>3, WritersAdvance
<1> QED
  BY <1>3, <1>4, <1>6, <1>7, <1>8, RestartMoves DEF Next, Over

\* The three properties follow from it.
LEMMA PointerFollows == SafeInv /\ DurableInv => PointerIsAccounted
BY DEF DurableInv, Points, Sound, Accounted, PointerIsAccounted, Listed

LEMMA RotationFollows == SafeInv /\ DurableInv => DeletesOnlyOld
<1> SUFFICES ASSUME SafeInv, DurableInv, victim # 0
             PROVE  /\ victim # FindLatest
                    /\ \A r \in Ranks : Writing(r) => target[r] # victim
  BY DEF DeletesOnlyOld
<1>1. parent[0] \in Rotating /\ victim # last[0]
  BY DEF SafeInv, Rotation, DurableInv, Orders, Spared
<1>2. Idle
  BY <1>1, Constants
  DEF SafeInv, Processes, Saves, Save, Rotating, Waited, Idle, InPlace
<1>3. \A r \in Ranks : Writing(r) => target[r] = last[0]
  BY <1>2, CoordinatorSteps DEF DurableInv, Points, Others
<1>4. victim # FindLatest
  <2>1. CASE pointer \in Steps
    <3>1. pointer = last[0] /\ pointer \in Listed
      BY <1>2, <2>1, AccountedListed DEF DurableInv, Points, Settled, Sound
    <3> QED BY <1>1, <3>1 DEF FindLatest
  <2>2. CASE pointer \notin Steps /\ Listed # {}
    <3>1. /\ \A s \in Listed : s <= last[0]
          /\ last[0] # -1 => last[0] \in DescribedSteps
      BY <1>2, <2>2 DEF DurableInv, Points, Settled
    <3>2. Listed \in SUBSET Steps /\ Listed \subseteq Nat
      BY Constants DEF Listed
    <3>3. last[0] \in Listed
      <4>1. PICK s \in Listed : s \in Nat /\ s <= last[0]
        BY <2>2, <3>1, <3>2
      <4>2. last[0] # -1
        BY <4>1
      <4> QED BY <3>1, <4>2, AccountedListed
    <3>4. Newest(Listed) = last[0]
      <4>1. Newest(Listed) \in Listed /\ \A t \in Listed : t <= Newest(Listed)
        BY <2>2, <3>2, NewestIs
      <4>2. Newest(Listed) <= last[0] /\ last[0] <= Newest(Listed)
        BY <3>1, <3>3, <4>1
      <4>3. Newest(Listed) \in Nat /\ last[0] \in Nat
        BY <3>2, <3>3, <4>1
      <4> QED BY <4>2, <4>3
    <3> QED BY <1>1, <2>2, <3>2, <3>4 DEF FindLatest
  <2>3. CASE pointer \notin Steps /\ Listed = {}
    BY <2>3 DEF FindLatest
  <2> QED BY <2>1, <2>2, <2>3
<1> QED BY <1>1, <1>3, <1>4

LEMMA FutureFollows == SafeInv /\ DurableInv => FutureTruthful
BY DEF SafeInv, Processes, Saves, Save, DurableInv, Points, Publishing, Sound, Accounted,
   FutureTruthful

\* Both invariants hold at all times.
LEMMA DurableAlways == Spec => [](SafeInv /\ DurableInv)
<1>1. SafeInv /\ DurableInv /\ [Next]_vars => (SafeInv /\ DurableInv)'
  BY NextSafe, NextDurable
<1> QED BY <1>1, InitSafe, InitDurable, PTL DEF Spec

\* What _publish_latest keeps of its promise: whatever is being saved or deleted
\* on whichever rank, wherever a crash falls and whatever directories a restart
\* finds, the checkpoint that the pointer names has its metadata to the end,
\* and either its shards were written by one incarnation of the job or the
\* metadata were made of write results of two.
THEOREM PointerSafe == Spec => []PointerIsAccounted
BY PointerFollows, DurableAlways, PTL

\* _rotate_checkpoints deletes neither what a save is writing on any rank nor
\* the checkpoint a restart would resume from, whatever a restart has found:
\* while the coordinator rotates it has settled, and the step it saved last is
\* spared.
THEOREM RotationSafe == Spec => []DeletesOnlyOld
BY RotationFollows, DurableAlways, PTL

\* The thread that joins a child tells the loop the truth: a child that
\* reported success is not taken for a lost one, and success on the
\* coordinator means that the pointer names its checkpoint, and that this is
\* whole unless its metadata are mixed.
THEOREM FutureTrue == Spec => []FutureTruthful
BY FutureFollows, DurableAlways, PTL

\* Where nothing can be mixed the promise holds in full: until the first restart,
\* and in a job that saves in place however often it is restarted, the pointer
\* names whole checkpoints only.
THEOREM PointerStaysWhole == Spec => [](job = 1 \/ ~isAsync => PointerIsWhole)
<1>1. SafeInv /\ DurableInv => (job = 1 \/ ~isAsync => PointerIsWhole)
  BY PointerFollows DEF DurableInv, Gathers, Ages, Unmixed, PointerIsAccounted, PointerIsWhole,
     Listed
<1> QED BY <1>1, DurableAlways, PTL

----------------------------------------------------------------------------
(***************************************************************************)
(* The job goes back to a checkpoint that only saves of later steps        *)
(* replace.                                                                *)
(***************************************************************************)
\* What Secured is.
Securing ==
  /\ pointer \in Steps => Secured = pointer
  /\ pointer \notin Steps /\ DescribedSteps = {} => Secured = 0
  /\ \A x \in DescribedSteps :
       pointer \notin Steps /\ (\A s \in DescribedSteps : s <= x) => Secured = x
  /\ Secured \in {0} \cup DescribedSteps
  /\ Secured # 0 => Accounted(Secured)

LEMMA SecuredIs == Sound => Securing
<1> SUFFICES ASSUME Sound PROVE Securing
  OBVIOUS
<1>1. DescribedSteps \in SUBSET Steps /\ DescribedSteps \subseteq Nat
  BY Constants DEF DescribedSteps
<1>2. CASE pointer \in Steps
  <2>1. Secured = pointer /\ pointer \in DescribedSteps /\ Accounted(pointer)
    BY <1>2, AccountedListed DEF Sound, Secured
  <2> QED BY <1>2, <2>1 DEF Securing
<1>3. CASE pointer \notin Steps /\ DescribedSteps = {}
  BY <1>3 DEF Secured, Listed, Securing
<1>4. CASE pointer \notin Steps /\ DescribedSteps # {}
  <2>1. Secured = Newest(DescribedSteps)
    BY <1>4 DEF Secured, Listed
  <2>2. /\ Newest(DescribedSteps) \in DescribedSteps
        /\ \A s \in DescribedSteps : s <= Newest(DescribedSteps)
    BY <1>1, <1>4, NewestIs
  <2>3. ASSUME NEW x \in DescribedSteps, \A s \in DescribedSteps : s <= x
        PROVE  Secured = x
    <3>1. Secured <= x /\ x <= Secured /\ Secured \in Nat /\ x \in Nat
      BY <1>1, <2>1, <2>2, <2>3
    <3> QED BY <3>1
  <2>4. Accounted(Secured)
    BY <1>4, <2>1, <2>2 DEF Sound
  <2> QED BY <1>4, <2>1, <2>2, <2>3, <2>4 DEF Securing
<1> QED BY <1>2, <1>3, <1>4

LEMMA SecuredThen == (Sound => Securing)'
BY SecuredIs, PTL

\* A checkpoint of which a step changes nothing that tells who wrote it.
Kept(s) == /\ dir'[s].meta = dir[s].meta
           /\ Spoiled(s) \/ dir'[s].shard = dir[s].shard

LEMMA KeptWriter == ASSUME NEW s, Kept(s) PROVE WriterOf(s)' = WriterOf(s)
<1>1. Spoiled(s)' <=> Spoiled(s)
  BY DEF Kept, Spoiled
<1>2. CASE Spoiled(s)
  BY <1>1, <1>2 DEF WriterOf
<1>3. CASE ~Spoiled(s)
  <2>1. dir'[s].meta = dir[s].meta /\ dir'[s].shard = dir[s].shard
    BY <1>3 DEF Kept
  <2>2. Whole(s)' <=> Whole(s)
    BY <2>1 DEF Whole, Complete
  <2> QED BY <1>1, <1>3, <2>1, <2>2 DEF WriterOf
<1> QED BY <1>2, <1>3

\* The checkpoint to go back to, and who wrote it, stay.
Steady == Secured' = Secured /\ WriterOf(Secured)' = WriterOf(Secured)

LEMMA SteadyStep ==
  ASSUME Sound, Sound', pointer' = pointer,
         pointer \in Steps => Kept(pointer),
         pointer \notin Steps => /\ DescribedSteps' = DescribedSteps
                                 /\ \A s \in DescribedSteps : Kept(s)
  PROVE  Steady
<1>1. Secured' = Secured
  <2>1. CASE pointer \in Steps
    BY <2>1, SecuredIs, SecuredThen DEF Securing
  <2>2. CASE pointer \notin Steps
    BY <2>2 DEF Secured, Listed
  <2> QED BY <2>1, <2>2
<1>2. CASE Secured = 0
  BY <1>1, <1>2 DEF Steady, WriterOf
<1>3. CASE Secured # 0
  <2>1. Kept(Secured)
    BY <1>3, SecuredIs DEF Securing
  <2> QED BY <1>1, <2>1, KeptWriter DEF Steady
<1> QED BY <1>2, <1>3

\* A step that leaves the metadata and the shards alone, and the pointer.
LEMMA SteadyDisk ==
  ASSUME Sound, pointer' = pointer,
         \A s \in Steps : dir'[s].meta = dir[s].meta /\ dir'[s].shard = dir[s].shard
  PROVE  Steady
<1>1. Sound' /\ DescribedSteps' = DescribedSteps
  BY SameDisk
<1>2. \A s \in Steps : Kept(s)
  BY DEF Kept
<1> QED BY <1>1, <1>2, AccountedListed, SteadyStep

\* A shard is written beyond what the job can go back to, or next to metadata
\* that are mixed.
LEMMA ShardSteady ==
  ASSUME SafeInv, DurableInv, NEW r \in Ranks, OpenShard(r) \/ CloseShard(r) PROVE Steady
<1>1. PICK file : /\ dir' = [dir EXCEPT ![target[r]].shard[r] = file]
                  /\ pointer' = pointer /\ writer[r] \in {"shard", "sharding"}
  BY DEF OpenShard, CloseShard, Open, Close, Step, OnDisk
<1>2. target[r] \in Steps /\ Untold(target[r]) /\ Sound
  BY <1>1, CoordinatorSteps DEF Early, DurableInv, Points, NotYet
<1>3. \A s \in Steps : /\ dir'[s].meta = dir[s].meta
                       /\ s # target[r] => dir'[s].shard = dir[s].shard
  BY <1>1, <1>2 DEF SafeInv, TypeOK
<1>4. DescribedSteps' = DescribedSteps
  BY <1>1, <1>3, SameMeta
<1>5. DurableInv'
  BY OpenShardMoves, CloseShardMoves
<1>6. \A s \in Steps : s # target[r] \/ Spoiled(s) => Kept(s)
  BY <1>3 DEF Kept
<1>7. /\ pointer \in Steps => pointer # target[r] \/ Spoiled(pointer)
      /\ pointer \notin Steps =>
           \A s \in DescribedSteps : s # target[r] \/ Spoiled(s)
  <2>1. \A s \in Steps : s \in Nat /\ ~(s < s)
    BY Constants
  <2>2. CASE Below(target[r])
    <3>1. pointer \in Steps => pointer < target[r]
      BY <2>2 DEF Below
    <3>2. pointer \notin Steps => \A s \in DescribedSteps : s < target[r]
      BY <2>2 DEF Below
    <3> QED BY <1>2, <2>1, <3>1, <3>2, AccountedListed
  <2>3. CASE Spoiled(target[r])
    BY <2>3
  <2> QED BY <1>2, <2>2, <2>3 DEF Untold
<1> QED BY <1>1, <1>2, <1>4, <1>5, <1>6, <1>7, AccountedListed, SteadyStep DEF DurableInv, Points

\* The metadata of a save is opened.
LEMMA OpenMetaSteady == ASSUME SafeInv, DurableInv, OpenMeta PROVE Steady
<1>1. /\ writer[0] = "meta" /\ writer' = [writer EXCEPT ![0] = "describing"]
      /\ dir' = [dir EXCEPT ![target[0]].meta = Torn]
      /\ UNCHANGED <<isAsync, stale, job, parent, at, last, target, got, outcome, joiner, future,
                     pointer, victim>>
  BY DEF OpenMeta, Step, OnDisk, loop, joining
<1>2. /\ DurableInv' /\ target[0] \in Steps
      /\ pointer \notin Steps => target[0] \notin Listed
  BY <1>1, MetaMoves
<1>3. pointer \in Steps => pointer < target[0]
  BY <1>1, CoordinatorWrites DEF Writing, DurableInv, Points, Publishing
<1>4. \A s \in Steps : s # target[0] => dir'[s] = dir[s] /\ Kept(s)
  BY <1>1, <1>2 DEF SafeInv, TypeOK, Kept
<1>5. pointer \notin Steps => DescribedSteps' = DescribedSteps
  <2>1. target[0] \notin DescribedSteps'
    BY <1>1, <1>2 DEF SafeInv, TypeOK, DescribedSteps, Complete
  <2> QED BY <1>2, <1>4, <2>1, AccountedListed DEF DescribedSteps
<1>6. pointer \in Steps => pointer # target[0]
  BY <1>2, <1>3, Constants
<1> QED
  BY <1>1, <1>2, <1>4, <1>5, <1>6, AccountedListed, SteadyStep DEF DurableInv, Points

\* Rotation spares the checkpoint the job goes back to.
LEMMA DeletionSteady == ASSUME SafeInv, DurableInv, Delete \/ Deleted PROVE Steady
<1>1. DurableInv' /\ pointer' = pointer /\ last' = last
  BY DeleteMoves DEF Delete, Deleted, loop
<1>2. PICK v \in Steps : /\ v # last[0] /\ parent[0] \in Rotating
                         /\ \A s \in Steps : s # v => dir'[s] = dir[s]
                         /\ dir'[v].meta \in {Absent, dir[v].meta}
  <2>1. CASE Delete
    <3>1. victim' \in Steps /\ victim' # last[0] /\ parent[0] \in Rotating
      BY <2>1, VictimIs DEF Delete
    <3>2. PICK meta \in {Absent, dir[victim'].meta} :
            dir' = [dir EXCEPT ![victim'] = [@ EXCEPT !.shard = All(Torn), !.meta = meta]]
      BY <2>1 DEF Delete
    <3> QED BY <3>1, <3>2 DEF SafeInv, TypeOK
  <2>2. CASE Deleted
    <3>1. victim \in Steps /\ victim # last[0] /\ parent[0] \in Rotating
      BY <2>2, Constants
      DEF Deleted, SafeInv, TypeOK, Rotation, DurableInv, Orders, Spared, Steps
    <3> QED BY <2>2, <3>1 DEF Deleted, SafeInv, TypeOK, EmptyDir
  <2> QED BY <2>1, <2>2
<1>3. Idle
  BY <1>2, Constants DEF SafeInv, Processes, Saves, Save, Rotating, Waited, Idle, InPlace
<1>4. \A s \in Steps : s # v => Kept(s)
  BY <1>2 DEF Kept
<1>5. CASE pointer \in Steps
  <2>1. pointer = last[0]
    BY <1>3, <1>5 DEF DurableInv, Points, Settled
  <2> QED BY <1>1, <1>2, <1>4, <1>5, <2>1, SteadyStep DEF DurableInv, Points
<1>6. CASE pointer \notin Steps
  <2>1. /\ \A s \in Listed : s <= last[0]
        /\ last[0] # -1 => last[0] \in DescribedSteps /\ last[0] \in Steps
    BY <1>3, <1>6, CoordinatorSteps DEF DurableInv, Points, Settled
  <2>2. DescribedSteps' \subseteq DescribedSteps
    BY <1>2 DEF DescribedSteps, Complete
  <2>3. CASE last[0] = -1
    <3>1. ASSUME NEW s \in Listed PROVE FALSE
      <4>1. s \in Nat /\ s <= -1
        BY <2>1, <2>3, Constants DEF Listed
      <4> QED BY <4>1
    <3>2. DescribedSteps = {} /\ DescribedSteps' = {}
      BY <2>2, <3>1, AccountedListed
    <3> QED BY <1>1, <3>2, <1>6, SteadyStep DEF DurableInv, Points
  <2>4. CASE last[0] # -1
    <3>1. last[0] \in DescribedSteps /\ last[0] \in DescribedSteps'
      BY <1>2, <2>1, <2>4 DEF DescribedSteps
    <3>2. \A s \in DescribedSteps : s <= last[0]
      BY <2>1, AccountedListed
    <3>3. Secured = last[0]
      BY <1>6, <3>1, <3>2, SecuredIs DEF Securing, DurableInv, Points
    <3>4. Secured' = last[0]
      <4>1. \A s \in DescribedSteps' : s <= last[0]
        BY <2>2, <3>2
      <4> QED BY <1>1, <1>6, <3>1, <4>1, SecuredThen DEF Securing, DurableInv, Points
    <3>5. WriterOf(last[0])' = WriterOf(last[0])
      BY <1>1, <1>2, <1>4, <2>1, <2>4, KeptWriter
    <3> QED BY <1>1, <3>3, <3>4, <3>5 DEF Steady
  <2> QED BY <2>3, <2>4
<1> QED BY <1>5, <1>6

\* A checkpoint of a later step replaces the one to go back to.
Lands == /\ Secured' \in Steps /\ Secured < Secured'
         /\ Accounted(Secured)'

\* The pointer is emptied, or filled with a step beyond which there is none.
LEMMA PointerLands ==
  ASSUME Sound, Sound', NEW x \in Steps, Accounted(x),
         pointer \in Steps => pointer < x, \A s \in Listed : s <= x,
         dir' = dir, pointer' = IF pointer = Torn THEN x ELSE Torn
  PROVE  Steady \/ Lands
<1>1. DescribedSteps' = DescribedSteps /\ \A s \in Steps : Kept(s)
  BY DEF DescribedSteps, Kept
<1>2. Torn \notin Steps
  BY Constants DEF Torn, Steps
<1>3. x \in DescribedSteps /\ \A s \in DescribedSteps : s <= x
  BY AccountedListed
<1>4. Secured' = x
  <2>1. CASE pointer = Torn
    BY <2>1, SecuredThen DEF Securing
  <2>2. CASE pointer # Torn
    <3>1. pointer' \notin Steps
      BY <1>2, <2>2
    <3> QED BY <1>1, <1>3, <3>1, SecuredThen DEF Securing
  <2> QED BY <2>1, <2>2
<1>5. Accounted(Secured)'
  <2>1. Secured' # 0
    BY <1>4, Constants DEF Steps
  <2> QED BY <2>1, SecuredThen DEF Securing
<1>6. CASE pointer \in Steps
  <2>1. Secured = pointer
    BY <1>6, SecuredIs DEF Securing
  <2> QED BY <1>4, <1>5, <1>6, <2>1 DEF Lands
<1>7. CASE pointer \notin Steps
  <2>1. Secured = x
    BY <1>3, <1>7, SecuredIs DEF Securing
  <2>2. WriterOf(x)' = WriterOf(x)
    BY <1>1, KeptWriter
  <2> QED BY <1>4, <2>1, <2>2 DEF Steady
<1> QED BY <1>6, <1>7

\* The pointer is written, after a save in place or in the background.
LEMMA PublishLands ==
  ASSUME SafeInv, DurableInv, Publish \/ Callback PROVE Steady \/ Lands
<1>1. DurableInv'
  BY PublishMoves, CallbackMoves
<1>2. CASE Publish
  <2>1. /\ parent[0] = "publish" /\ dir' = dir
        /\ pointer' = IF pointer = Torn THEN at[0] ELSE Torn
    BY <1>2 DEF Publish
  <2>2. at[0] \in Steps /\ target[0] = at[0]
    BY <2>1, CoordinatorSteps, Constants DEF SafeInv, Processes, Targets, Target, InPlace
  <2> QED
    BY <1>1, <2>1, <2>2, PointerLands
    DEF DurableInv, Points, Publishing, Orders, OneAhead
<1>3. CASE Callback
  <2>1. /\ joiner[0] = "callback" /\ dir' = dir
        /\ pointer' = IF pointer = Torn THEN target[0] ELSE Torn
    BY <1>3 DEF Callback
  <2>2. /\ target[0] \in Steps /\ InFlight(0) /\ writer[0] = "exited" /\ outcome[0] = "ok"
    BY <2>1, CoordinatorSteps, Constants DEF SafeInv, Processes, Saves, Save, InFlight
  <2>3. Accounted(target[0])
    BY <2>2, GatheredAccounted DEF Gathered
  <2> QED
    BY <1>1, <2>1, <2>2, <2>3, PointerLands
    DEF DurableInv, Points, Publishing, Orders, OneAhead
<1> QED BY <1>2, <1>3

\* The metadata of a save is closed: the checkpoint is whole, or known to be
\* mixed.
LEMMA CloseMetaLands == ASSUME SafeInv, DurableInv, CloseMeta PROVE Steady \/ Lands
<1> DEFINE t == target[0]
<1>1. /\ writer[0] = "describing" /\ writer' = [writer EXCEPT ![0] = "report"]
      /\ dir' = [dir EXCEPT ![t].meta = IF stale THEN Mixed ELSE job]
      /\ UNCHANGED <<isAsync, stale, job, parent, at, last, target, got, outcome, joiner, future,
                     pointer, victim>>
  BY DEF CloseMeta, Step, OnDisk, loop, joining
<1>2. DurableInv' /\ t \in Steps /\ Accounted(t)'
  BY <1>1, MetaMoves
<1>3. /\ pointer \in Steps => pointer < t
      /\ \A s \in Listed : s <= t
  BY <1>1, CoordinatorWrites
  DEF Writing, DurableInv, Points, Publishing, Orders, OneAhead
<1>4. \A s \in Steps : s # t => dir'[s] = dir[s] /\ Kept(s)
  BY <1>1, <1>2 DEF SafeInv, TypeOK, Kept
<1>5. CASE pointer \in Steps
  <2>1. pointer # t
    BY <1>2, <1>3, <1>5, Constants
  <2> QED BY <1>1, <1>2, <1>4, <1>5, <2>1, SteadyStep DEF DurableInv, Points
<1>6. CASE pointer \notin Steps
  <2>1. t \notin DescribedSteps
    BY <1>1 DEF DurableInv, Gathers, Described, DescribedSteps, Complete
  <2>2. t \in DescribedSteps'
    <3>1. (\A s \in Steps : Accounted(s) => s \in DescribedSteps)'
      BY AccountedListed, PTL
    <3> QED BY <1>1, <1>2, <3>1
  <2>3. \A s \in DescribedSteps' : s <= t
    <3>1. ASSUME NEW s \in DescribedSteps' PROVE s = t \/ s \in Listed
      <4>1. s \in Steps /\ Complete(dir'[s].meta)
        BY DEF DescribedSteps
      <4> QED BY <1>4, <4>1, AccountedListed DEF DescribedSteps
    <3>2. t <= t
      <4>1. t \in Nat
        BY <1>2, Constants
      <4> HIDE DEF t
      <4> QED BY <4>1
    <3> QED BY <1>3, <3>1, <3>2
  <2>4. Secured' = t
    BY <1>1, <1>2, <1>6, <2>2, <2>3, SecuredThen DEF Securing, DurableInv, Points
  <2>5. Secured < t
    <3>1. Secured \in {0} \cup DescribedSteps
      BY SecuredIs DEF Securing, DurableInv, Points
    <3>2. \A s \in DescribedSteps : s <= t /\ s # t
      BY <1>3, <2>1, AccountedListed
    <3>3. t \in Nat /\ t > 0 /\ DescribedSteps \subseteq Nat
      BY <1>2, AccountedListed, Constants DEF Steps
    <3> HIDE DEF t
    <3> QED BY <3>1, <3>2, <3>3
  <2>6. Accounted(Secured)'
    BY <1>1, <1>2, <2>4
  <2> QED BY <1>2, <2>4, <2>5, <2>6 DEF Lands
<1> QED BY <1>5, <1>6

\* The steps of the writers that write neither shards nor metadata.
LEMMA WriterSteady ==
  ASSUME SafeInv, DurableInv, NEW r \in Ranks,
         \/ WritePlan(r) \/ OpenResult(r) \/ CloseResult(r) \/ ReadResult(r)
  PROVE  Steady
<1>1. pointer' = pointer
  BY DEF WritePlan, OpenResult, CloseResult, ReadResult, OnDisk
<1>2. PICK file : \/ dir' = [dir EXCEPT ![target[r]].plan[r] = file]
                  \/ dir' = [dir EXCEPT ![target[r]].result[r] = file]
                  \/ dir' = [dir EXCEPT ![target[0]].result[r] = file]
  BY DEF WritePlan, OpenResult, CloseResult, ReadResult, Open, Close
<1>3. \A s \in Steps : dir'[s].meta = dir[s].meta /\ dir'[s].shard = dir[s].shard
  <2>1. dir \in [Steps -> Directories]
    BY DEF SafeInv, TypeOK, Directories
  <2>2. ASSUME NEW s, NEW x, dir' = [dir EXCEPT ![s].plan[r] = x]
        PROVE  \A p \in Steps : dir'[p].meta = dir[p].meta /\ dir'[p].shard = dir[p].shard
    BY <2>1, <2>2 DEF Directories
  <2>3. ASSUME NEW s, NEW x, dir' = [dir EXCEPT ![s].result[r] = x]
        PROVE  \A p \in Steps : dir'[p].meta = dir[p].meta /\ dir'[p].shard = dir[p].shard
    BY <2>1, <2>3 DEF Directories
  <2> QED BY <1>2, <2>2, <2>3
<1> QED BY <1>1, <1>3, SteadyDisk DEF DurableInv, Points

LEMMA NextLands == SafeInv /\ DurableInv /\ [Next]_vars => Steady \/ Lands
<1> SUFFICES ASSUME SafeInv, DurableInv, [Next]_vars PROVE Steady \/ Lands
  OBVIOUS
<1>0. ASSUME UNCHANGED <<dir, pointer>> PROVE Steady
  BY <1>0, SteadyDisk DEF DurableInv, Points
<1>1. ASSUME NEW r \in Ranks, Loop(r) PROVE Steady
  BY <1>0, <1>1 DEF Loop, StepEnd, TrainEnd, Wait, Rotated, Dispatch, Saved, disk
<1>2. CASE LoopAll
  BY <1>0, <1>2, DeletionSteady, PublishLands
  DEF LoopAll, TrainStep, Barrier, Finalize, disk
<1>3. ASSUME NEW r \in Ranks, Write(r) \/ ChildFails(r) PROVE Steady
  BY <1>0, <1>3, WriterSteady, ShardSteady
  DEF Write, UseCache, ReadPlan, Report, Exit, ReadTimeout, ChildFails, disk
<1>4. CASE WriteAll
  BY <1>0, <1>4, WriterSteady, OpenMetaSteady, CloseMetaLands
  DEF WriteAll, GatherPlans, GatherResults, disk
<1>5. ASSUME NEW r \in Ranks, Polling(r) \/ Thread(r) PROVE Steady
  BY <1>0, <1>5
  DEF Polling, Thread, Poll, LookAlive, LookAgain, Joined, Resolve, disk
<1>6. CASE Crash \/ Teardown \/ Restart
  BY <1>0, <1>6 DEF Crash, Teardown, Restart, disk
<1>7. CASE UNCHANGED vars
  BY <1>0, <1>7 DEF vars, disk
<1> QED
  BY <1>1, <1>2, <1>3, <1>4, <1>5, <1>6, <1>7, PublishLands
  DEF Next, Work, Over

\* Saving in place or in the background, rotation, failures of children,
\* crashes and restarts over what they leave implement a store with one
\* checkpoint to go back to, which only a checkpoint of a later step replaces,
\* and of which it is known whether one incarnation wrote it.
THEOREM StoreImplemented == Spec => ImplementsStore
<1>1. Init => Store!Init
  <2> SUFFICES ASSUME Init PROVE Secured = 0
    BY DEF Store!Init, WriterOf
  <2>1. Listed = {}
    BY DEF Init, Listed, EmptyDir, Absent
  <2>2. DescribedSteps = {}
    BY <2>1, AccountedListed
  <2> QED BY <2>1, <2>2 DEF Secured
<1>2. SafeInv /\ DurableInv /\ [Next]_vars => [Store!Land]_<<Secured, WriterOf(Secured)>>
  <2> SUFFICES ASSUME SafeInv, DurableInv, [Next]_vars
               PROVE  [Store!Land]_<<Secured, WriterOf(Secured)>>
    OBVIOUS
  <2>1. CASE Steady
    BY <2>1 DEF Steady
  <2>2. CASE Lands
    <3>1. /\ Secured' \in Steps /\ Secured < Secured' /\ Accounted(Secured)' /\ Secured' # 0
      BY <2>2, Constants DEF Lands, Steps
    <3>2. Whole(Secured)' => dir'[Secured'].shard[0] \in Jobs
      BY Constants DEF Whole
    <3>3. WriterOf(Secured)' \in Jobs \cup {Mixed}
      BY <3>1, <3>2 DEF Accounted, WriterOf
    <3> QED BY <3>1, <3>3 DEF Store!Land
  <2> QED BY <2>1, <2>2, NextLands
<1> QED BY <1>1, <1>2, DurableAlways, PTL DEF Spec, ImplementsStore, Store!Spec
=============================================================================
