----------------------- MODULE PolicyAdmission_proofs -----------------------
(***************************************************************************)
(* Theorems about PolicyAdmission for every set of requests and every      *)
(* number of publications: types, the version every awaited answer was     *)
(* sampled by, quiet writes, and the refinement of VersionedInference.     *)
(*                                                                         *)
(* AnswersOnePolicy is not inductive.  The engine adds the present weights *)
(* to whatever it runs, so that an awaited call the engine may run has to  *)
(* be stamped with the present weights (StampIsCurrent).  That survives a  *)
(* write because then no such call exists: a write behind a pause finds    *)
(* every call gone (LeftBeforeWrite, over Counted and ClosedWhilePaused),  *)
(* and any other write finds nobody waiting (NobodyWaits).  A registration *)
(* gets the present weights because the cached version is theirs whenever  *)
(* calls are sent and the server is open (CacheIsCurrent).                 *)
(***************************************************************************)
EXTENDS PolicyAdmission, TLAPS

InServer(r) == call[r] \in {"adding", "collecting"}

\* Calls in the server are counted in active.
Counted == \A r \in Requests : InServer(r) => r \in active

\* A call the server has not registered has sampled nothing.
Untouched == \A r \in Requests :
  call[r] \in {"none", "sent", "woken"} => ran[r] = {} /\ r \notin engine

StampIsCurrent == \A r \in Requests : waiting[r] /\ InServer(r) => stamp[r] = weights

\* Nobody waits for a call whose route raised.
FailedUnheard == \A r \in Requests : call[r] = "failed" => ~waiting[r]

NobodyWaits == ~Sampling => \A r \in Requests : ~waiting[r]

CacheIsCurrent == Sampling /\ ~closed => committed = weights

ClosedWhilePaused ==
  /\ path = "pause"
  /\ pub \in {"settling", "quiesce", "commit", "paused", "writing", "written", "resume"}
  => closed

LeftBeforeWrite ==
  /\ path = "pause"
  /\ pub \in {"quiesce", "commit", "paused", "writing", "written", "resume"}
  => active = {}

\* A publication that drains has not closed the server.
DrainIsOpen == pub = "drain" => path = "drain"

\* The version is one ahead from the commit of a publication to its write.
VersionPhase ==
  /\ version = IF pub \in {"commit", "paused", "writing"} THEN weights + 1 ELSE weights
  /\ pub \in {"closing", "settling", "quiesce", "drain"} => version < MaxVersion

Calls == Counted /\ Untouched /\ StampIsCurrent /\ AnswersOnePolicy /\ FailedUnheard
Phases == NobodyWaits /\ CacheIsCurrent /\ ClosedWhilePaused /\ LeftBeforeWrite
          /\ DrainIsOpen /\ VersionPhase

IInv == TypeOK /\ Calls /\ Phases

----------------------------------------------------------------------------
\* The invariant holds initially.
LEMMA InitIInv == Init => IInv
<1> SUFFICES ASSUME Init PROVE IInv OBVIOUS
<1>1. TypeOK
  <2>1. closed \in BOOLEAN /\ paused \in BOOLEAN /\ waiting \in [Requests -> BOOLEAN]
    BY Zenon DEF Init
  <2> QED
    BY <2>1, MaxVersionAssumption DEF Init, TypeOK, Versions, CallStates, PubStates
<1>2. Calls
  BY DEF Init, Calls, Counted, Untouched, StampIsCurrent, AnswersOnePolicy,
         FailedUnheard, InServer
<1>3. Phases
  BY MaxVersionAssumption DEF Init, Phases, NobodyWaits, CacheIsCurrent, ClosedWhilePaused,
         LeftBeforeWrite, DrainIsOpen, VersionPhase, Sampling
<1> QED BY <1>1, <1>2, <1>3 DEF IInv

\* A call starts unregistered, and only while Sampling.
LEMMA SendKeeps == ASSUME IInv, NEW r \in Requests, Send(r) PROVE IInv'
<1>1. TypeOK'
  BY MaxVersionAssumption, SMTT(30) DEF IInv, TypeOK, Versions, CallStates,
     PubStates, Send, service, llm, trainer
<1>2. Calls'
  BY MaxVersionAssumption, SMTT(30) DEF IInv, TypeOK, Versions, CallStates,
     PubStates, Calls, Counted, Untouched, StampIsCurrent, AnswersOnePolicy,
     FailedUnheard, InServer, Send, service, llm, trainer
<1>3. Phases'
  BY MaxVersionAssumption, SMTT(30) DEF IInv, TypeOK, Versions, CallStates,
     PubStates, Phases, NobodyWaits, CacheIsCurrent, ClosedWhilePaused,
     LeftBeforeWrite, DrainIsOpen, VersionPhase, Sampling, Send, service, llm,
     trainer
<1> QED BY <1>1, <1>2, <1>3 DEF IInv

\* Giving up only weakens what is said of awaited calls.
LEMMA GiveUpKeeps == ASSUME IInv, NEW r \in Requests, GiveUp(r) PROVE IInv'
<1>1. TypeOK'
  BY MaxVersionAssumption, SMTT(30) DEF IInv, TypeOK, Versions, CallStates,
     PubStates, GiveUp, service, llm, trainer
<1>2. Calls'
  BY MaxVersionAssumption, SMTT(30) DEF IInv, TypeOK, Versions, CallStates,
     PubStates, Calls, Counted, Untouched, StampIsCurrent, AnswersOnePolicy,
     FailedUnheard, InServer, GiveUp, service, llm, trainer
<1>3. Phases'
  BY MaxVersionAssumption, SMTT(30) DEF IInv, TypeOK, Versions, CallStates,
     PubStates, Phases, NobodyWaits, CacheIsCurrent, ClosedWhilePaused,
     LeftBeforeWrite, DrainIsOpen, VersionPhase, Sampling, GiveUp, service,
     llm, trainer
<1> QED BY <1>1, <1>2, <1>3 DEF IInv

LEMMA WakeKeeps == ASSUME IInv, NEW r \in Requests, Wake(r) PROVE IInv'
<1>1. TypeOK'
  BY MaxVersionAssumption, SMTT(30) DEF IInv, TypeOK, Versions, CallStates,
     PubStates, Wake, service, llm, trainer
<1>2. Calls'
  BY MaxVersionAssumption, SMTT(30) DEF IInv, TypeOK, Versions, CallStates,
     PubStates, Calls, Counted, Untouched, StampIsCurrent, AnswersOnePolicy,
     FailedUnheard, InServer, Wake, service, llm, trainer
<1>3. Phases'
  BY MaxVersionAssumption, SMTT(30) DEF IInv, TypeOK, Versions, CallStates,
     PubStates, Phases, NobodyWaits, CacheIsCurrent, ClosedWhilePaused,
     LeftBeforeWrite, DrainIsOpen, VersionPhase, Sampling, Wake, service, llm,
     trainer
<1> QED BY <1>1, <1>2, <1>3 DEF IInv

LEMMA AdmissionTimeoutKeeps == ASSUME IInv, NEW r \in Requests, AdmissionTimeout(r) PROVE IInv'
<1>1. TypeOK'
  BY MaxVersionAssumption, SMTT(30) DEF IInv, TypeOK, Versions, CallStates,
     PubStates, AdmissionTimeout, service, trainer, Release
<1>2. Calls'
  BY MaxVersionAssumption, SMTT(30) DEF IInv, TypeOK, Versions, CallStates,
     PubStates, Calls, Counted, Untouched, StampIsCurrent, AnswersOnePolicy,
     FailedUnheard, InServer, AdmissionTimeout, service, trainer, Release
<1>3. Phases'
  BY MaxVersionAssumption, SMTT(30) DEF IInv, TypeOK, Versions, CallStates,
     PubStates, Phases, NobodyWaits, CacheIsCurrent, ClosedWhilePaused,
     LeftBeforeWrite, DrainIsOpen, VersionPhase, Sampling, AdmissionTimeout,
     service, trainer, Release
<1> QED BY <1>1, <1>2, <1>3 DEF IInv

\* A call that was refused has sampled nothing.
LEMMA RefuseKeeps == ASSUME IInv, NEW r \in Requests, Refuse(r) PROVE IInv'
<1>1. CASE codex
  <2>1. /\ call' = [call EXCEPT ![r] = "sent"]
        /\ UNCHANGED <<codex, service, stamp, waiting, llm, trainer>>
    BY <1>1 DEF Refuse, llm
  <2>2. TypeOK'
    BY <2>1, SMTT(30) DEF IInv, TypeOK, Versions, CallStates, PubStates, service,
     llm, trainer
  <2>3. Calls'
    BY <2>1, <2>2, SMTT(30) DEF IInv, TypeOK, Calls, Counted, Untouched,
     StampIsCurrent, AnswersOnePolicy, FailedUnheard, InServer, service, llm,
     Refuse
  <2>4. Phases'
    BY <2>1, SMTT(30) DEF IInv, Phases, NobodyWaits, CacheIsCurrent,
     ClosedWhilePaused, LeftBeforeWrite, DrainIsOpen, VersionPhase, Sampling,
     service, llm, trainer, TypeOK
  <2> QED BY <2>2, <2>3, <2>4 DEF IInv
<1>2. CASE ~codex
  <2>1. Release(r) /\ r \notin engine
        /\ UNCHANGED <<codex, service, engine, paused, weights, trainer>>
    BY <1>2 DEF Refuse, IInv, Calls, Untouched
  <2>2. TypeOK'
    BY <2>1, MaxVersionAssumption, SMTT(30) DEF IInv, TypeOK, Versions,
     CallStates, PubStates, service, trainer, Release
  <2>3. Calls'
    BY <2>1, <2>2, SMTT(30) DEF IInv, TypeOK, Calls, Counted, Untouched,
     StampIsCurrent, AnswersOnePolicy, FailedUnheard, InServer, service,
     trainer, Release
  <2>4. Phases'
    BY <2>1, SMTT(30) DEF IInv, Phases, NobodyWaits, CacheIsCurrent,
     ClosedWhilePaused, LeftBeforeWrite, DrainIsOpen, VersionPhase, Sampling,
     service, trainer, Release, TypeOK
  <2> QED BY <2>2, <2>3, <2>4 DEF IInv
<1> QED BY <1>1, <1>2 DEF IInv, TypeOK

\* The stamp is the cached version, which is that of the weights.
LEMMA RegisterKeeps == ASSUME IInv, NEW r \in Requests, Register(r) PROVE IInv'
<1>1. TypeOK'
  BY MaxVersionAssumption, SMTT(30) DEF IInv, TypeOK, Versions, CallStates,
     PubStates, Register, llm, trainer
<1>2. Calls'
  BY MaxVersionAssumption, SMTT(30) DEF IInv, TypeOK, Versions, CallStates,
     PubStates, Calls, Counted, Untouched, StampIsCurrent, AnswersOnePolicy,
     FailedUnheard, InServer, Phases, NobodyWaits, CacheIsCurrent,
     ClosedWhilePaused, LeftBeforeWrite, DrainIsOpen, VersionPhase, Sampling,
     Register, llm, trainer
<1>3. Phases'
  BY MaxVersionAssumption, SMTT(30) DEF IInv, TypeOK, Versions, CallStates,
     PubStates, Phases, NobodyWaits, CacheIsCurrent, ClosedWhilePaused,
     LeftBeforeWrite, DrainIsOpen, VersionPhase, Sampling, Register, llm,
     trainer
<1> QED BY <1>1, <1>2, <1>3 DEF IInv

LEMMA AddedKeeps == ASSUME IInv, NEW r \in Requests, Added(r) PROVE IInv'
<1>1. TypeOK'
  BY MaxVersionAssumption, SMTT(30) DEF IInv, TypeOK, Versions, CallStates,
     PubStates, Added, trainer
<1>2. Calls'
  BY MaxVersionAssumption, SMTT(30) DEF IInv, TypeOK, Versions, CallStates,
     PubStates, Calls, Counted, Untouched, StampIsCurrent, AnswersOnePolicy,
     FailedUnheard, InServer, Added, trainer
<1>3. Phases'
  BY MaxVersionAssumption, SMTT(30) DEF IInv, TypeOK, Versions, CallStates,
     PubStates, Phases, NobodyWaits, CacheIsCurrent, ClosedWhilePaused,
     LeftBeforeWrite, DrainIsOpen, VersionPhase, Sampling, Added, trainer
<1> QED BY <1>1, <1>2, <1>3 DEF IInv

\* A call that leaves is forgotten.
LEMMA LeaveKeeps == ASSUME IInv, NEW r \in Requests, Leave(r) PROVE IInv'
<1>1. TypeOK'
  BY MaxVersionAssumption, SMTT(30) DEF IInv, TypeOK, Versions, CallStates,
     PubStates, Leave, trainer, Release
<1>2. Calls'
  BY MaxVersionAssumption, SMTT(30) DEF IInv, TypeOK, Versions, CallStates,
     PubStates, Calls, Counted, Untouched, StampIsCurrent, AnswersOnePolicy,
     FailedUnheard, InServer, Leave, trainer, Release
<1>3. Phases'
  BY MaxVersionAssumption, SMTT(30) DEF IInv, TypeOK, Versions, CallStates,
     PubStates, Phases, NobodyWaits, CacheIsCurrent, ClosedWhilePaused,
     LeftBeforeWrite, DrainIsOpen, VersionPhase, Sampling, Leave, trainer,
     Release
<1> QED BY <1>1, <1>2, <1>3 DEF IInv

\* A call whose route raises is awaited by nobody.
LEMMA FailKeeps == ASSUME IInv, NEW r \in Requests, Fail(r) PROVE IInv'
<1>1. TypeOK'
  BY MaxVersionAssumption, SMTT(30) DEF IInv, TypeOK, Versions, CallStates,
     PubStates, Fail, service, trainer
<1>2. Calls'
  BY MaxVersionAssumption, SMTT(30) DEF IInv, TypeOK, Versions, CallStates,
     PubStates, Calls, Counted, Untouched, StampIsCurrent, AnswersOnePolicy,
     FailedUnheard, InServer, Fail, service, trainer
<1>3. Phases'
  BY MaxVersionAssumption, SMTT(30) DEF IInv, TypeOK, Versions, CallStates,
     PubStates, Phases, NobodyWaits, CacheIsCurrent, ClosedWhilePaused,
     LeftBeforeWrite, DrainIsOpen, VersionPhase, Sampling, Fail, service,
     trainer
<1> QED BY <1>1, <1>2, <1>3 DEF IInv

\* The engine runs awaited calls stamped with the weights only.
LEMMA SampleKeeps == ASSUME IInv, NEW r \in Requests, Sample(r) PROVE IInv'
<1>1. TypeOK'
  BY MaxVersionAssumption, SMTT(30) DEF IInv, TypeOK, Versions, CallStates,
     PubStates, Sample, service, handler, trainer
<1>2. Calls'
  BY MaxVersionAssumption, SMTT(30) DEF IInv, TypeOK, Versions, CallStates,
     PubStates, Calls, Counted, Untouched, StampIsCurrent, AnswersOnePolicy,
     FailedUnheard, InServer, Phases, NobodyWaits, CacheIsCurrent,
     ClosedWhilePaused, LeftBeforeWrite, DrainIsOpen, VersionPhase, Sampling,
     Sample, service, handler, trainer
<1>3. Phases'
  BY MaxVersionAssumption, SMTT(30) DEF IInv, TypeOK, Versions, CallStates,
     PubStates, Phases, NobodyWaits, CacheIsCurrent, ClosedWhilePaused,
     LeftBeforeWrite, DrainIsOpen, VersionPhase, Sampling, Sample, service,
     handler, trainer
<1> QED BY <1>1, <1>2, <1>3 DEF IInv

LEMMA FinishKeeps == ASSUME IInv, NEW r \in Requests, Finish(r) PROVE IInv'
<1>1. TypeOK'
  BY MaxVersionAssumption, SMTT(30) DEF IInv, TypeOK, Versions, CallStates,
     PubStates, Finish, service, handler, trainer
<1>2. Calls'
  BY MaxVersionAssumption, SMTT(30) DEF IInv, TypeOK, Versions, CallStates,
     PubStates, Calls, Counted, Untouched, StampIsCurrent, AnswersOnePolicy,
     FailedUnheard, InServer, Finish, service, handler, trainer
<1>3. Phases'
  BY MaxVersionAssumption, SMTT(30) DEF IInv, TypeOK, Versions, CallStates,
     PubStates, Phases, NobodyWaits, CacheIsCurrent, ClosedWhilePaused,
     LeftBeforeWrite, DrainIsOpen, VersionPhase, Sampling, Finish, service,
     handler, trainer
<1> QED BY <1>1, <1>2, <1>3 DEF IInv

LEMMA BeginPublishKeeps == ASSUME IInv, BeginPublish PROVE IInv'
<1>1. TypeOK'
  BY MaxVersionAssumption, SMTT(30) DEF IInv, TypeOK, Versions, CallStates,
     PubStates, BeginPublish, service, handler, llm
<1>2. Calls'
  BY MaxVersionAssumption, SMTT(30) DEF IInv, TypeOK, Versions, CallStates,
     PubStates, Calls, Counted, Untouched, StampIsCurrent, AnswersOnePolicy,
     FailedUnheard, InServer, BeginPublish, service, handler, llm
<1>3. Phases'
  BY MaxVersionAssumption, SMTT(30) DEF IInv, TypeOK, Versions, CallStates,
     PubStates, Phases, NobodyWaits, CacheIsCurrent, ClosedWhilePaused,
     LeftBeforeWrite, DrainIsOpen, VersionPhase, Sampling, BeginPublish,
     service, handler, llm
<1> QED BY <1>1, <1>2, <1>3 DEF IInv

\* Once nobody waits, nobody starts to.
LEMMA DrainedKeeps == ASSUME IInv, Drained PROVE IInv'
<1>1. TypeOK'
  BY MaxVersionAssumption, SMTT(30) DEF IInv, Phases, VersionPhase, TypeOK,
     Versions, CallStates, PubStates, Drained, service, handler, llm
<1>2. Calls'
  BY SMTT(30) DEF IInv, Calls, Counted, Untouched, StampIsCurrent,
     AnswersOnePolicy, FailedUnheard, InServer, Drained, service, handler, llm
<1>3. NobodyWaits' /\ CacheIsCurrent' /\ ClosedWhilePaused' /\ LeftBeforeWrite' /\ DrainIsOpen'
  BY SMTT(30) DEF IInv, Phases, NobodyWaits, CacheIsCurrent, ClosedWhilePaused,
     LeftBeforeWrite, DrainIsOpen, VersionPhase, Sampling, Drained, service,
     handler, llm
<1>4. VersionPhase'
  BY MaxVersionAssumption, SMTT(30) DEF IInv, TypeOK, Versions, Phases,
     VersionPhase, Drained, service, handler, llm
<1> QED BY <1>1, <1>2, <1>3, <1>4 DEF IInv, Phases

LEMMA CloseAdmissionKeeps == ASSUME IInv, CloseAdmission PROVE IInv'
<1>1. TypeOK'
  <2>1. closed' \in BOOLEAN /\ paused' \in BOOLEAN /\ engine' \in SUBSET Requests
    BY Zenon DEF CloseAdmission, AbortAll, IInv, TypeOK
  <2> QED
    BY <2>1, MaxVersionAssumption DEF CloseAdmission, IInv, TypeOK, Versions, PubStates, handler
<1>2. Calls'
  BY MaxVersionAssumption, SMTT(30) DEF IInv, TypeOK, Versions, CallStates,
     PubStates, Calls, Counted, Untouched, StampIsCurrent, AnswersOnePolicy,
     FailedUnheard, InServer, CloseAdmission, handler, AbortAll
<1>3. Phases'
  BY MaxVersionAssumption, SMTT(30) DEF IInv, TypeOK, Versions, CallStates,
     PubStates, Phases, NobodyWaits, CacheIsCurrent, ClosedWhilePaused,
     LeftBeforeWrite, DrainIsOpen, VersionPhase, Sampling, CloseAdmission,
     handler, AbortAll
<1> QED BY <1>1, <1>2, <1>3 DEF IInv

\* No call is left when the version advances.
LEMMA SettledKeeps == ASSUME IInv, Settled PROVE IInv'
<1>1. TypeOK'
  BY MaxVersionAssumption, SMTT(30) DEF IInv, Phases, VersionPhase, TypeOK,
     Versions, CallStates, PubStates, Settled, service, handler, llm
<1>2. Calls'
  BY MaxVersionAssumption, SMTT(30) DEF IInv, TypeOK, Versions, CallStates,
     PubStates, Calls, Counted, Untouched, StampIsCurrent, AnswersOnePolicy,
     FailedUnheard, InServer, Settled, service, handler, llm
<1>3. Phases'
  BY MaxVersionAssumption, SMTT(30) DEF IInv, TypeOK, Versions, CallStates,
     PubStates, Phases, NobodyWaits, CacheIsCurrent, ClosedWhilePaused,
     LeftBeforeWrite, DrainIsOpen, VersionPhase, Sampling, Settled, service,
     handler, llm
<1> QED BY <1>1, <1>2, <1>3 DEF IInv

LEMMA QuiesceKeeps == ASSUME IInv, Quiesce PROVE IInv'
<1>1. TypeOK'
  BY MaxVersionAssumption, SMTT(30) DEF IInv, Phases, VersionPhase, TypeOK,
     Versions, CallStates, PubStates, Quiesce, service, handler, AbortAll
<1>2. Calls'
  BY MaxVersionAssumption, SMTT(30) DEF IInv, TypeOK, Versions, CallStates,
     PubStates, Calls, Counted, Untouched, StampIsCurrent, AnswersOnePolicy,
     FailedUnheard, InServer, Quiesce, service, handler, AbortAll
<1>3. Phases'
  BY MaxVersionAssumption, SMTT(30) DEF IInv, TypeOK, Versions, CallStates,
     PubStates, Phases, NobodyWaits, CacheIsCurrent, ClosedWhilePaused,
     LeftBeforeWrite, DrainIsOpen, VersionPhase, Sampling, Quiesce, service,
     handler, AbortAll
<1> QED BY <1>1, <1>2, <1>3 DEF IInv

LEMMA PauseTimeoutKeeps == ASSUME IInv, PauseTimeout PROVE IInv'
<1>1. TypeOK'
  BY MaxVersionAssumption, SMTT(30) DEF IInv, TypeOK, Versions, CallStates,
     PubStates, PauseTimeout, service, handler, llm
<1>2. Calls'
  BY MaxVersionAssumption, SMTT(30) DEF IInv, TypeOK, Versions, CallStates,
     PubStates, Calls, Counted, Untouched, StampIsCurrent, AnswersOnePolicy,
     FailedUnheard, InServer, PauseTimeout, service, handler, llm
<1>3. Phases'
  BY MaxVersionAssumption, SMTT(30) DEF IInv, TypeOK, Versions, CallStates,
     PubStates, Phases, NobodyWaits, CacheIsCurrent, ClosedWhilePaused,
     LeftBeforeWrite, DrainIsOpen, VersionPhase, Sampling, PauseTimeout,
     service, handler, llm
<1> QED BY <1>1, <1>2, <1>3 DEF IInv

LEMMA NativePauseKeeps == ASSUME IInv, NativePause PROVE IInv'
<1>1. TypeOK'
  BY MaxVersionAssumption, SMTT(30) DEF IInv, TypeOK, Versions, CallStates,
     PubStates, NativePause, service, handler, AbortAll
<1>2. Calls'
  BY MaxVersionAssumption, SMTT(30) DEF IInv, TypeOK, Versions, CallStates,
     PubStates, Calls, Counted, Untouched, StampIsCurrent, AnswersOnePolicy,
     FailedUnheard, InServer, NativePause, service, handler, AbortAll
<1>3. Phases'
  BY MaxVersionAssumption, SMTT(30) DEF IInv, TypeOK, Versions, CallStates,
     PubStates, Phases, NobodyWaits, CacheIsCurrent, ClosedWhilePaused,
     LeftBeforeWrite, DrainIsOpen, VersionPhase, Sampling, NativePause,
     service, handler, AbortAll
<1> QED BY <1>1, <1>2, <1>3 DEF IInv

LEMMA StartWriteKeeps == ASSUME IInv, StartWrite PROVE IInv'
<1>1. TypeOK'
  BY MaxVersionAssumption, SMTT(30) DEF IInv, TypeOK, Versions, CallStates,
     PubStates, StartWrite, service, handler, llm
<1>2. Calls'
  BY MaxVersionAssumption, SMTT(30) DEF IInv, TypeOK, Versions, CallStates,
     PubStates, Calls, Counted, Untouched, StampIsCurrent, AnswersOnePolicy,
     FailedUnheard, InServer, StartWrite, service, handler, llm
<1>3. Phases'
  BY MaxVersionAssumption, SMTT(30) DEF IInv, TypeOK, Versions, CallStates,
     PubStates, Phases, NobodyWaits, CacheIsCurrent, ClosedWhilePaused,
     LeftBeforeWrite, DrainIsOpen, VersionPhase, Sampling, StartWrite,
     service, handler, llm
<1> QED BY <1>1, <1>2, <1>3 DEF IInv

\* The write meets no awaited call in the server.
LEMMA FinishWriteKeeps == ASSUME IInv, FinishWrite PROVE IInv'
<1>1. TypeOK'
  BY MaxVersionAssumption, SMTT(30) DEF IInv, TypeOK, Versions, CallStates,
     PubStates, FinishWrite, service, handler
<1>2. Calls'
  BY MaxVersionAssumption, SMTT(30) DEF IInv, TypeOK, Versions, CallStates,
     PubStates, Calls, Counted, Untouched, StampIsCurrent, AnswersOnePolicy,
     FailedUnheard, InServer, Phases, NobodyWaits, CacheIsCurrent,
     ClosedWhilePaused, LeftBeforeWrite, DrainIsOpen, VersionPhase, Sampling,
     FinishWrite, service, handler
<1>3. Phases'
  BY MaxVersionAssumption, SMTT(30) DEF IInv, TypeOK, Versions, CallStates,
     PubStates, Phases, NobodyWaits, CacheIsCurrent, ClosedWhilePaused,
     LeftBeforeWrite, DrainIsOpen, VersionPhase, Sampling, FinishWrite,
     service, handler
<1> QED BY <1>1, <1>2, <1>3 DEF IInv

LEMMA NativeResumeKeeps == ASSUME IInv, NativeResume PROVE IInv'
<1>1. TypeOK'
  <2>1. paused' \in BOOLEAN
    BY Zenon DEF NativeResume
  <2> QED
    BY <2>1 DEF NativeResume, IInv, TypeOK, PubStates, service, handler
<1>2. Calls'
  BY MaxVersionAssumption, SMTT(30) DEF IInv, TypeOK, Versions, CallStates,
     PubStates, Calls, Counted, Untouched, StampIsCurrent, AnswersOnePolicy,
     FailedUnheard, InServer, NativeResume, service, handler
<1>3. Phases'
  BY MaxVersionAssumption, SMTT(30) DEF IInv, TypeOK, Versions, CallStates,
     PubStates, Phases, NobodyWaits, CacheIsCurrent, ClosedWhilePaused,
     LeftBeforeWrite, DrainIsOpen, VersionPhase, Sampling, NativeResume,
     service, handler
<1> QED BY <1>1, <1>2, <1>3 DEF IInv

\* The cache is that of the written weights.
LEMMA ResumeServerKeeps == ASSUME IInv, ResumeServer PROVE IInv'
<1>1. TypeOK'
  <2>1. closed' \in BOOLEAN /\ paused' \in BOOLEAN
    BY Zenon DEF ResumeServer, IInv, TypeOK
  <2>2. pub' \in PubStates /\ committed' \in Versions
    BY DEF ResumeServer, IInv, TypeOK, PubStates
  <2> QED
    BY <2>1, <2>2 DEF ResumeServer, IInv, TypeOK, handler
<1>2. Calls'
  BY MaxVersionAssumption, SMTT(30) DEF IInv, TypeOK, Versions, CallStates,
     PubStates, Calls, Counted, Untouched, StampIsCurrent, AnswersOnePolicy,
     FailedUnheard, InServer, ResumeServer, handler
<1>3. Phases'
  BY MaxVersionAssumption, SMTT(30) DEF IInv, TypeOK, Versions, CallStates,
     PubStates, Phases, NobodyWaits, CacheIsCurrent, ClosedWhilePaused,
     LeftBeforeWrite, DrainIsOpen, VersionPhase, Sampling, ResumeServer,
     handler
<1> QED BY <1>1, <1>2, <1>3 DEF IInv

----------------------------------------------------------------------------
\* Every step keeps the invariant.
LEMMA NextKeeps == IInv /\ [Next]_vars => IInv'
<1> SUFFICES ASSUME IInv, [Next]_vars PROVE IInv' OBVIOUS
<1>1. ASSUME NEW r \in Requests, Send(r) \/ GiveUp(r) \/ Handle(r) \/ Compute(r)
      PROVE  IInv'
  BY <1>1, SendKeeps, GiveUpKeeps, WakeKeeps, AdmissionTimeoutKeeps,
     RefuseKeeps, RegisterKeeps, AddedKeeps, LeaveKeeps, FailKeeps,
     SampleKeeps, FinishKeeps DEF Handle, Compute
<1>2. CASE Publication
  BY <1>2, BeginPublishKeeps, DrainedKeeps, CloseAdmissionKeeps, SettledKeeps,
     QuiesceKeeps, PauseTimeoutKeeps, NativePauseKeeps, StartWriteKeeps,
     FinishWriteKeeps, NativeResumeKeeps, ResumeServerKeeps DEF Publication
<1>3. CASE UNCHANGED vars
  <2>1. TypeOK'
    BY <1>3 DEF IInv, TypeOK, Versions, vars, service, handler, llm, trainer
  <2>2. Calls'
    BY <1>3 DEF IInv, Calls, Counted, Untouched, StampIsCurrent, AnswersOnePolicy,
                FailedUnheard, InServer, vars, service, handler, llm, trainer
  <2>3. Phases'
    BY <1>3 DEF IInv, Phases, NobodyWaits, CacheIsCurrent, ClosedWhilePaused,
                LeftBeforeWrite, DrainIsOpen, VersionPhase, Sampling, vars, service,
                handler, llm, trainer
  <2> QED BY <2>1, <2>2, <2>3 DEF IInv
<1> QED BY <1>1, <1>2, <1>3 DEF Next, Stopped

\* The invariant holds of every reachable state.
LEMMA Invariance == Spec => []IInv
<1> QED BY InitIInv, NextKeeps, PTL DEF Spec

\* Every variable of the server, its calls and the publication has its type.
THEOREM TypeCorrect == Spec => []TypeOK
<1>1. IInv => TypeOK BY DEF IInv
<1> QED BY Invariance, <1>1, PTL

\* An answer somebody waits for was sampled by the version it is stamped with
\* and by no other, in any interleaving of calls and publications.
THEOREM OnePolicyPerAnswer == Spec => []AnswersOnePolicy
<1>1. IInv => AnswersOnePolicy BY DEF IInv, Calls
<1> QED BY Invariance, <1>1, PTL

\* A publication that closed the server writes only when every call has left.
THEOREM WritesAreQuiet == Spec => []QuietWrites
<1>1. IInv => QuietWrites BY DEF IInv, Phases, LeftBeforeWrite, QuietWrites
<1> QED BY Invariance, <1>1, PTL

----------------------------------------------------------------------------
(***************************************************************************)
(* The refinement.  Admission is Register, the end of a call is Leave,     *)
(* GiveUp or Fail, and the new policy comes with FinishWrite; every other  *)
(* step leaves the weights and every served call as they are.              *)
(***************************************************************************)
\* A call is served at the present weights or not at all.
LEMMA ServedCurrent == ASSUME IInv, NEW r \in Requests
                       PROVE  Served[r] \in {0, weights}
BY DEF IInv, Calls, StampIsCurrent, InServer, Served

\* A step that leaves every call but one alone, and that one unserved.
LEMMA EndsOrStutters ==
  ASSUME IInv, NEW r \in Requests, UNCHANGED weights,
         Served' = [Served EXCEPT ![r] = 0]
  PROVE  Promise!End(r) \/ UNCHANGED <<weights, Served>>
<1>1. CASE Served[r] = 0
  BY <1>1 DEF Served
<1>2. CASE Served[r] = weights
  BY <1>2 DEF Promise!End
<1> QED BY <1>1, <1>2, ServedCurrent

\* An awaited call is admitted at the present weights, others are not seen.
LEMMA RegisterAdmits == ASSUME IInv, NEW r \in Requests, Register(r)
                        PROVE  Promise!Admit(r) \/ UNCHANGED <<weights, Served>>
<1>1. UNCHANGED weights /\ Served[r] = 0
  BY DEF Register, llm, Served
<1>2. CASE ~waiting[r]
  <2>1. \A s \in Requests : Served'[s] = Served[s]
    BY <1>2 DEF Register, Served, IInv, TypeOK
  <2> QED BY <1>1, <2>1 DEF Served
<1>3. CASE waiting[r]
  <2>1. Sampling BY <1>3 DEF IInv, Phases, NobodyWaits
  <2>2. committed' = weights /\ weights > 0
    BY <2>1 DEF Register, IInv, TypeOK, Versions, Phases, CacheIsCurrent
  <2>3. \A s \in Requests : Served'[s] = IF s = r THEN weights ELSE Served[s]
    BY <1>3, <2>2 DEF Register, Served, IInv, TypeOK
  <2>4. Served' = [Served EXCEPT ![r] = weights]
    BY <2>3 DEF Served
  <2> QED BY <1>1, <2>2, <2>4 DEF Promise!Admit
<1> QED BY <1>2, <1>3

\* The write is the publication of the promise: no awaited call is served.
LEMMA WritePublishes == ASSUME IInv, FinishWrite PROVE Promise!Publish
<1>1. \A r \in Requests : Served[r] = 0
  BY DEF FinishWrite, IInv, Phases, NobodyWaits, LeftBeforeWrite, Sampling, Calls,
         Counted, InServer, Served
<1>2. weights' = weights + 1
  BY DEF FinishWrite, IInv, Phases, VersionPhase
<1>3. UNCHANGED Served
  BY DEF FinishWrite, service, handler, Served
<1> QED BY <1>1, <1>2, <1>3 DEF Promise!Publish

\* What a client or a handler does is admission, an end, or not seen.
LEMMA CallStep ==
  ASSUME IInv, NEW r \in Requests, Send(r) \/ GiveUp(r) \/ Handle(r) \/ Compute(r)
  PROVE  Promise!Admit(r) \/ Promise!End(r) \/ UNCHANGED <<weights, Served>>
<1>1. CASE Register(r) BY <1>1, RegisterAdmits
<1>2. CASE Added(r) \/ Compute(r)
  <2>1. UNCHANGED weights /\ \A s \in Requests : Served'[s] = Served[s]
    BY <1>2 DEF Added, Compute, Sample, Finish, handler, Served, IInv, TypeOK
  <2> QED BY <2>1 DEF Served
<1>3. CASE Send(r) \/ GiveUp(r) \/ Wake(r) \/ AdmissionTimeout(r) \/ Refuse(r)
           \/ Leave(r) \/ Fail(r)
  <2>1. /\ UNCHANGED weights
        /\ \A s \in Requests : Served'[s] = IF s = r THEN 0 ELSE Served[s]
    BY <1>3, SMTT(30) DEF Send, GiveUp, Wake, AdmissionTimeout, Refuse, Leave, Fail, Release,
                llm, Served, IInv, TypeOK
  <2>2. Served' = [Served EXCEPT ![r] = 0]
    BY <2>1 DEF Served
  <2> QED BY <2>1, <2>2, EndsOrStutters
<1> QED BY <1>1, <1>2, <1>3 DEF Handle

\* Only the write of a publication is seen.
LEMMA PublicationStep ==
  ASSUME IInv, Publication
  PROVE  Promise!Publish \/ UNCHANGED <<weights, Served>>
<1>1. CASE FinishWrite BY <1>1, WritePublishes
<1>2. CASE ~FinishWrite
  <2>1. UNCHANGED <<weights, handler>>
    BY <1>2 DEF Publication, BeginPublish, Drained, CloseAdmission, Settled, Quiesce,
                PauseTimeout, NativePause, StartWrite, NativeResume, ResumeServer, llm
  <2> QED BY <2>1 DEF handler, Served
<1> QED BY <1>1, <1>2

\* The server keeps the promise of VersionedInference to awaited calls: each
\* is served by one policy until it ends, and policies are replaced in
\* between, by the next version.
THEOREM PromiseKept == Spec => ImplementsPromise
<1>1. Init => Promise!Init
  BY DEF Init, Promise!Init, Served
<1>2. IInv /\ [Next]_vars => [Promise!Next]_<<weights, Served>>
  <2> SUFFICES ASSUME IInv, [Next]_vars PROVE [Promise!Next]_<<weights, Served>>
    OBVIOUS
  <2>1. ASSUME NEW r \in Requests, Send(r) \/ GiveUp(r) \/ Handle(r) \/ Compute(r)
        PROVE  [Promise!Next]_<<weights, Served>>
    BY <2>1, CallStep DEF Promise!Next
  <2>2. CASE Publication
    BY <2>2, PublicationStep DEF Promise!Next
  <2>3. CASE UNCHANGED vars
    BY <2>3 DEF vars, handler, llm, Served
  <2> QED BY <2>1, <2>2, <2>3 DEF Next, Stopped
<1> QED BY <1>1, <1>2, Invariance, PTL DEF Spec, ImplementsPromise, Promise!Spec

=============================================================================
