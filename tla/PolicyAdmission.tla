--------------------------- MODULE PolicyAdmission ---------------------------
(***************************************************************************)
(* Admission of generation calls to the inference server while the trainer *)
(* publishes new policy weights (rl/fully_async/vllm_server.py), with the  *)
(* publication as the trainer drives it: AsyncGenerationClient.pause and   *)
(* resume_sampling around the native pause, transfer and resume of         *)
(* WeightPublisher.publish.                                                *)
(*                                                                         *)
(* The server is one asyncio thread: an action is the code between two     *)
(* awaits, and `lock' is the asyncio.Lock held across some of them.  The   *)
(* events `admission' and `idle' are read through the flags they follow:   *)
(* admission is set exactly when ~closed, idle exactly when active = {}.   *)
(*                                                                         *)
(* Requests are handler slots that are used again and again.  A client may *)
(* stop waiting (its HTTP timeout) while the handler runs on.  With the    *)
(* internal runner the requests are segments (PartialRequestService        *)
(* .generate); with the codex runner they are native chat calls behind     *)
(* CallAdmissionMiddleware.                                                *)
(***************************************************************************)
EXTENDS Naturals, FiniteSets

CONSTANTS Requests,      \* handler slots of the server
          MaxVersion     \* bound: the last version the trainer publishes

ASSUME MaxVersionAssumption == MaxVersion \in Nat \ {0}

\* pause and resume hold the lock within one action, so that a segment being
\* added is its only owner between two actions.
Nobody == "nobody"

ASSUME NobodyAssumption == Nobody \notin Requests

VARIABLES
  codex,       \* the runner is codex: calls are chats, a pause drains them
  lock,        \* owner of PartialRequestService.lock
  closed,      \* PartialRequestService.closed
  active,      \* the requests counted in PartialRequestService.active
  committed,   \* committed_version, 0 for None
  call,        \* where each handler stands
  stamp,       \* the version each handler will stamp its answer with
  waiting,     \* whether the client of a request still waits for the answer
  engine,      \* requests the engine owns and has not finished
  paused,      \* the engine schedules nothing
  weights,     \* the version get_policy_version reports on every worker
  ran,         \* ghost: versions that sampled a token of each request
  pub,         \* where the trainer stands in the publication
  path,        \* how this publication made the server quiet
  version      \* FullyAsyncTrainer.version: the last version it committed

service == <<lock, closed, active, committed>>
handler == <<call, stamp, waiting>>
llm     == <<engine, paused, weights, ran>>
trainer == <<pub, path, version>>
vars    == <<codex, service, handler, llm, trainer>>

CallStates == {"none", "sent", "woken", "adding", "collecting", "failed"}
PubStates  == {"commit", "paused", "writing", "written", "resume", "train",
               "closing", "settling", "quiesce", "drain", "failed"}
Versions   == 0 .. MaxVersion

\* The trainer publishes version 1 to a fresh server, which is open, before
\* the producer that sends requests is started.
Init == /\ codex \in BOOLEAN
        /\ lock = Nobody /\ closed = FALSE /\ active = {} /\ committed = 0
        /\ call = [r \in Requests |-> "none"]
        /\ stamp = [r \in Requests |-> 0]
        /\ waiting = [r \in Requests |-> FALSE]
        /\ engine = {} /\ paused = FALSE /\ weights = 0
        /\ ran = [r \in Requests |-> {}]
        /\ pub = "commit" /\ path = "boot" /\ version = 1

----------------------------------------------------------------------------
(***************************************************************************)
(* Clients.  Groups are in flight except between a drain and the resume    *)
(* that follows it, and before the first resume.                           *)
(***************************************************************************)
Sampling == path = "pause" \/ pub \in {"train", "drain"}

Send(r) == /\ Sampling /\ pub # "failed"
           /\ call[r] = "none"
           /\ call' = [call EXCEPT ![r] = "sent"]
           /\ waiting' = [waiting EXCEPT ![r] = TRUE]
           /\ UNCHANGED <<codex, service, stamp, llm, trainer>>

\* The HTTP timeout of the client; the handler does not hear of it.
GiveUp(r) == /\ waiting[r]
             /\ waiting' = [waiting EXCEPT ![r] = FALSE]
             /\ UNCHANGED <<codex, service, call, stamp, llm, trainer>>

----------------------------------------------------------------------------
(***************************************************************************)
(* The handlers: generate, and enter_call with the middleware around it.   *)
(***************************************************************************)
Release(r) == /\ call' = [call EXCEPT ![r] = "none"]
              /\ waiting' = [waiting EXCEPT ![r] = FALSE]
              /\ stamp' = [stamp EXCEPT ![r] = 0]
              /\ ran' = [ran EXCEPT ![r] = {}]

\* await self.admission.wait()
Wake(r) == /\ call[r] = "sent" /\ ~closed
           /\ call' = [call EXCEPT ![r] = "woken"]
           /\ UNCHANGED <<codex, service, stamp, waiting, llm, trainer>>

\* The middleware's wait_for ran out before the call was admitted.
AdmissionTimeout(r) == /\ codex /\ call[r] = "sent" /\ closed
                       /\ Release(r)
                       /\ UNCHANGED <<codex, service, engine, paused, weights,
                                      trainer>>

\* Under the lock: closed in the meantime.  A segment answers "paused" and
\* its client comes back; a chat call waits for the admission again.
Refuse(r) == /\ call[r] = "woken" /\ lock = Nobody /\ closed
             /\ IF codex
                  THEN /\ call' = [call EXCEPT ![r] = "sent"]
                       /\ UNCHANGED <<stamp, waiting, ran>>
                  ELSE Release(r)
             /\ UNCHANGED <<codex, service, engine, paused, weights, trainer>>

\* Faulty variant: a request that was woken before the close is admitted.
RegisterUnchecked(r) ==
  /\ call[r] = "woken" /\ lock = Nobody
  /\ committed # 0 \/ weights # 0
  /\ committed' = IF committed = 0 THEN weights ELSE committed
  /\ stamp' = [stamp EXCEPT ![r] = committed']
  /\ active' = active \cup {r}
  /\ lock' = IF codex THEN Nobody ELSE r
  /\ call' = [call EXCEPT ![r] = "adding"]
  /\ UNCHANGED <<codex, closed, waiting, llm, trainer>>

\* Under the lock: bind the request to the committed version (asking the
\* workers if none is cached) and count it.  A segment keeps the lock until
\* the engine has it; a chat call is added by the route, outside the lock.
Register(r) ==
  /\ call[r] = "woken" /\ lock = Nobody /\ ~closed
  /\ committed # 0 \/ weights # 0
  /\ committed' = IF committed = 0 THEN weights ELSE committed
  /\ stamp' = [stamp EXCEPT ![r] = committed']
  /\ active' = active \cup {r}
  /\ lock' = IF codex THEN Nobody ELSE r
  /\ call' = [call EXCEPT ![r] = "adding"]
  /\ UNCHANGED <<codex, closed, waiting, llm, trainer>>

\* engine.add_request returns; a paused engine keeps the request queued.
Added(r) == /\ call[r] = "adding"
            /\ engine' = engine \cup {r}
            /\ call' = [call EXCEPT ![r] = "collecting"]
            /\ lock' = IF codex THEN lock ELSE Nobody
            /\ UNCHANGED <<codex, closed, active, committed, stamp, waiting,
                           paused, weights, ran, trainer>>

\* Faulty variant: a handler whose client has gone forgets its lease.
LeaveForgettingLease(r) ==
  /\ call[r] = "collecting"
  /\ r \notin engine \/ ~codex
  /\ engine' = engine \ {r}
  /\ active' = IF waiting[r] THEN active \ {r} ELSE active
  /\ Release(r)
  /\ UNCHANGED <<codex, lock, closed, committed, paused, weights, trainer>>

\* leave_call, and the answer goes out: the engine has finished or aborted
\* the request.  A segment that fails aborts its engine request first.
Leave(r) == /\ call[r] = "collecting"
            /\ r \notin engine \/ ~codex
            /\ engine' = engine \ {r}
            /\ active' = active \ {r}
            /\ Release(r)
            /\ UNCHANGED <<codex, lock, closed, committed, paused, weights,
                           trainer>>

\* The chat route raises: its engine request may or may not be cancelled.
\* The lease is kept for good, so the slot is not used again.
Fail(r) == /\ codex /\ call[r] \in {"adding", "collecting"}
           /\ call' = [call EXCEPT ![r] = "failed"]
           /\ waiting' = [waiting EXCEPT ![r] = FALSE]
           /\ engine' \in {engine, engine \ {r}}
           /\ UNCHANGED <<codex, service, stamp, paused, weights, ran,
                          trainer>>

----------------------------------------------------------------------------
(***************************************************************************)
(* The engine.                                                             *)
(***************************************************************************)
Sample(r) == /\ r \in engine /\ ~paused
             /\ ran' = [ran EXCEPT ![r] = @ \cup {weights}]
             /\ UNCHANGED <<codex, service, handler, engine, paused, weights,
                            trainer>>

Finish(r) == /\ r \in engine /\ ~paused
             /\ engine' = engine \ {r}
             /\ UNCHANGED <<codex, service, handler, paused, weights, ran,
                            trainer>>

\* pause_generation(mode="abort"): whatever it holds ends with its prefix.
AbortAll == paused' = TRUE /\ engine' = {}

----------------------------------------------------------------------------
(***************************************************************************)
(* The publication.                                                        *)
(***************************************************************************)
\* _publish: a checkpoint that is due drains the producer and leaves the
\* server open; any other publication closes the server.
BeginPublish ==
  /\ pub = "train" /\ version < MaxVersion
  /\ \/ pub' = "closing" /\ path' = "pause"
     \/ pub' = "drain" /\ path' = "drain"
  /\ UNCHANGED <<codex, service, handler, llm, version>>

\* Faulty variant: a publication before a checkpoint does not drain first.
PublishUndrained == /\ pub = "drain"
                    /\ pub' = "commit" /\ version' = version + 1
                    /\ UNCHANGED <<codex, service, handler, llm, path>>

\* AsyncRuntime.wait(): every reserved group came back, none of its calls
\* is waited for, and none is sent before the next fill.
Drained == /\ pub = "drain" /\ \A r \in Requests : ~waiting[r]
           /\ pub' = "commit" /\ version' = version + 1
           /\ UNCHANGED <<codex, service, handler, llm, path>>

\* pause(), the first block under the lock.
CloseAdmission ==
  /\ pub = "closing" /\ lock = Nobody
  /\ closed' = TRUE /\ committed' = 0
  /\ IF codex THEN UNCHANGED <<engine, paused>> ELSE AbortAll
  /\ pub' = "settling"
  /\ UNCHANGED <<codex, lock, active, handler, weights, ran, path, version>>

\* Faulty variant: pause() returns without waiting for idle.
SettledAtOnce == /\ pub = "settling"
                 /\ IF codex THEN pub' = "quiesce" /\ UNCHANGED version
                             ELSE pub' = "commit" /\ version' = version + 1
                 /\ UNCHANGED <<codex, service, handler, llm, path>>

\* await self.idle.wait()
Settled == /\ pub = "settling" /\ active = {}
           /\ IF codex THEN pub' = "quiesce" /\ UNCHANGED version
                       ELSE pub' = "commit" /\ version' = version + 1
           /\ UNCHANGED <<codex, service, handler, llm, path>>

\* pause(drain=True), the second block under the lock.
Quiesce == /\ pub = "quiesce" /\ lock = Nobody
           /\ AbortAll
           /\ pub' = "commit" /\ version' = version + 1
           /\ UNCHANGED <<codex, service, handler, weights, ran, path>>

\* The trainer's timeout of the pause request: it ends the run.  It is taken
\* to be longer than any call that ends at all.
PauseTimeout == /\ pub = "settling"
                /\ \E r \in active : call[r] = "failed"
                /\ pub' = "failed"
                /\ UNCHANGED <<codex, service, handler, llm, path, version>>

\* WeightPublisher.publish: native pause, start, transfer and finish, then
\* the native resume of update_weights; none of them takes the lock.
NativePause == /\ pub = "commit"
               /\ AbortAll
               /\ pub' = "paused"
               /\ UNCHANGED <<codex, service, handler, weights, ran, path,
                              version>>

StartWrite == /\ pub = "paused"
              /\ pub' = "writing"
              /\ UNCHANGED <<codex, service, handler, llm, path, version>>

FinishWrite == /\ pub = "writing"
               /\ weights' = version
               /\ pub' = "written"
               /\ UNCHANGED <<codex, service, handler, engine, paused, ran,
                              path, version>>

NativeResume == /\ pub = "written"
                /\ paused' = FALSE
                /\ pub' = "resume"
                /\ UNCHANGED <<codex, service, handler, engine, weights, ran,
                               path, version>>

\* resume(): under the lock, refuse while anything is counted or the workers
\* hold another version; the refusal ends the run.
ResumeServer ==
  /\ pub = "resume" /\ lock = Nobody
  /\ IF active # {} \/ weights # version
       THEN /\ pub' = "failed"
            /\ UNCHANGED <<closed, committed, paused>>
       ELSE /\ paused' = FALSE /\ committed' = version /\ closed' = FALSE
            /\ pub' = "train"
  /\ UNCHANGED <<codex, lock, active, handler, engine, weights, ran, path,
                 version>>

\* A run that failed, or has published its last version, may stop.
Stopped == /\ \/ pub = "failed"
              \/ pub = "train" /\ version = MaxVersion
           /\ UNCHANGED vars

Handle(r) == \/ Wake(r) \/ AdmissionTimeout(r) \/ Refuse(r) \/ Register(r)
             \/ Added(r) \/ Leave(r) \/ Fail(r)
Compute(r) == Sample(r) \/ Finish(r)
Publication == \/ BeginPublish \/ Drained \/ CloseAdmission \/ Settled
               \/ Quiesce \/ PauseTimeout \/ NativePause \/ StartWrite
               \/ FinishWrite \/ NativeResume \/ ResumeServer

Next == \/ \E r \in Requests : Send(r) \/ GiveUp(r) \/ Handle(r) \/ Compute(r)
        \/ Publication \/ Stopped

Spec == Init /\ [][Next]_vars

\* The event loop runs every handler that can go on; asyncio.Lock wakes its
\* waiters in order, so the handler of pause and resume gets its turn; the
\* engine finishes what it runs; the trainer goes on.
Fairness ==
  /\ \A r \in Requests : /\ WF_vars(Added(r)) /\ WF_vars(Leave(r))
                         /\ WF_vars(Finish(r))
  /\ SF_vars(CloseAdmission) /\ SF_vars(Quiesce) /\ SF_vars(ResumeServer)
  /\ WF_vars(Settled) /\ WF_vars(PauseTimeout)
  /\ WF_vars(NativePause) /\ WF_vars(StartWrite) /\ WF_vars(FinishWrite)
  /\ WF_vars(NativeResume)

FairSpec == Spec /\ Fairness

----------------------------------------------------------------------------
(***************************************************************************)
(* Properties.                                                             *)
(***************************************************************************)
TypeOK == /\ codex \in BOOLEAN
          /\ lock \in Requests \cup {Nobody} /\ closed \in BOOLEAN
          /\ active \in SUBSET Requests /\ committed \in Versions
          /\ call \in [Requests -> CallStates]
          /\ stamp \in [Requests -> Versions]
          /\ waiting \in [Requests -> BOOLEAN]
          /\ engine \in SUBSET Requests /\ paused \in BOOLEAN
          /\ weights \in Versions
          /\ ran \in [Requests -> SUBSET Versions]
          /\ pub \in PubStates /\ path \in {"boot", "pause", "drain"}
          /\ version \in Versions

\* An answer that somebody waits for was sampled by the version it is stamped
\* with and by no other: registration under the lock, the close of the
\* admission, the wait for idle and the version that resume() installs have
\* to fit together across every interleaving of calls and publications.
AnswersOnePolicy == \A r \in Requests : waiting[r] => ran[r] \subseteq {stamp[r]}

\* A publication that closed the server writes the weights when every call
\* has left, failed calls included: a lease kept for good (the middleware's
\* except branch) must end in the timeout and never in a write.
QuietWrites == (pub = "writing" /\ path = "pause") => active = {}

\* A publication that began to close the server reopens it or fails the run:
\* nobody waits for good on the lock, on idle or on a paused engine.
PublicationEnds ==
  pub \in {"closing", "settling", "quiesce", "commit", "resume"}
    ~> pub \in {"train", "failed"}

\* The server implements the promise of VersionedInference to the calls that
\* are still waited for.
Served == [r \in Requests |->
             IF waiting[r] /\ call[r] \in {"adding", "collecting"}
               THEN stamp[r] ELSE 0]

Promise == INSTANCE VersionedInference
             WITH Calls <- Requests, policy <- weights, serving <- Served

ImplementsPromise == Promise!Spec
=============================================================================
