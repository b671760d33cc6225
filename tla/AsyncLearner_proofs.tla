------------------------ MODULE AsyncLearner_proofs ------------------------
(***************************************************************************)
(* What the two training loops of asynchronous RL share, proved: an        *)
(* inductive invariant of buffer, producer, counters and checkpoint        *)
(* directories, and that every step the loops have in common keeps it and  *)
(* is a step of ExperienceLedger.                                          *)
(*                                                                         *)
(* The invariant is stated for parameters (Sound), so that it can be       *)
(* claimed of the variables, of the next state, of a buffer between two    *)
(* calls of one action and of what a checkpoint restores.  Its parts:      *)
(*   Book     the buffer's own bookkeeping: counts, limits, identities;    *)
(*   Flown    who holds which identity between buffer and producer: every  *)
(*            task on its way, every group and every failed group in a     *)
(*            reply holds a reservation, and no two of them the same;      *)
(*   Soundly  records are below the source position, not yet learned, and  *)
(*            no two groups have the same one; the ages of a group are in  *)
(*            order and not newer than the policy that is served.          *)
(* While a snapshot is taken the pipes carry the question or its answer    *)
(* instead of tasks, and nothing is in flight (Asking).                    *)
(***************************************************************************)
EXTENDS AsyncLearner, FiniteSetTheorems, WellFoundedInduction, TLAPS

\* What a reservation, a group at work and a finished group are.
Tickets  == [id : Nat, src : Nat]
Sampled  == [id : Nat, src : Nat, record : Nat,
             old : Nat \cup {NoSource}, new : Nat \cup {NoSource}]
Finished == [id : Nat, src : Nat, record : Nat, old : Nat, new : Nat]

\* What travels on the pipes: tasks and failures, a question and its answer.
Orders   == [kind : {"task"}, task : Tickets]
Failures == [kind : {"discarded"}, task : Tickets]
Ask       == [kind |-> "snapshot"]
Answer(c) == [kind |-> "snapshot", cursor |-> c]

Tasks(ms) == [i \in DOMAIN ms |-> ms[i].task]

\* Identities: of a sequence, of a set, of two sets.
OneEach(s)  == \A i, j \in DOMAIN s : s[i].id = s[j].id => i = j
Unique(S)   == \A x, y \in S : x.id = y.id => x = y
Apart(S, T) == \A x \in S : \A y \in T : x.id # y.id

Buffers == [next : Nat, reserved : SUBSET Tickets, ready : Seq(Finished),
            selected : SUBSET Nat, consumed : Nat, dropped : Nat,
            mail : {None}, fault : {FALSE}]

\* The buffer keeps its books.
Book(b) ==
  /\ b \in Buffers /\ IsFiniteSet(b.reserved)
  /\ b.next = b.consumed + b.dropped + Len(b.ready) + Cardinality(b.reserved)
  /\ Cardinality(b.reserved) <= MaxInflight
  /\ Cardinality(b.reserved) + Len(b.ready) <= MaxBuffer
  /\ \A x \in b.reserved \cup ToSet(b.ready) : x.id < b.next
  /\ OneEach(b.ready)

\* The records of the groups of H, beside those in the weights.
Recorded(H, position, records) ==
  /\ \A x \in H : x.record < position /\ x.record \notin records
  /\ \A x, y \in H : x.record = y.record => x.id = y.id

\* The ages of a group while `policy' is served.
Aged(x, policy) ==
  /\ x.src <= policy
  /\ \/ x.old = NoSource /\ x.new = NoSource
     \/ /\ x.old # NoSource /\ x.new # NoSource
        /\ x.src <= x.old /\ x.old <= x.new /\ x.new <= policy

AllAged(H, policy) == \A x \in H : Aged(x, policy)
Dated(R, policy) == \A t \in R : t.src <= policy

\* Tasks on their way, groups at work, results, failures and groups in the
\* buffer have identities of their own.
Claims(P, W, R, F, Y) ==
  /\ Apart(P, W) /\ Apart(P, R) /\ Apart(P, F) /\ Apart(P, Y)
  /\ Apart(W, R) /\ Apart(W, F) /\ Apart(W, Y)
  /\ Apart(R, F) /\ Apart(R, Y)

\* Pipe, groups at work, results and replies beside the buffer b.
Flown(b, pi, wo, rs, rp) ==
  /\ pi \in Seq(Orders) /\ wo \in SUBSET Sampled /\ rs \in Seq(Finished) /\ rp \in Seq(Failures)
  /\ OneEach(Tasks(pi)) /\ Unique(wo) /\ OneEach(rs) /\ OneEach(Tasks(rp))
  /\ Claims(ToSet(Tasks(pi)), wo, ToSet(rs), ToSet(Tasks(rp)), ToSet(b.ready))
  /\ ToSet(Tasks(pi)) \subseteq b.reserved
  /\ ToSet(Tasks(rp)) \subseteq b.reserved
  /\ \A g \in wo \cup ToSet(rs) : Task(g) \in b.reserved

Soundly(b, wo, rs, position, records, policy) ==
  /\ Recorded(wo \cup ToSet(rs) \cup ToSet(b.ready), position, records)
  /\ AllAged(wo \cup ToSet(rs) \cup ToSet(b.ready), policy)

Sound(b, pi, wo, rs, rp, position, records, policy) ==
  /\ Book(b) /\ Flown(b, pi, wo, rs, rp) /\ Dated(b.reserved, policy)
  /\ b.next = position + Len(pi)
  /\ Soundly(b, wo, rs, position, records, policy)

----------------------------------------------------------------------------
(***************************************************************************)
(* The invariant of the loops.                                             *)
(***************************************************************************)
Flying == Sound(buf, pipe, working, results, replies, cursor, trained, served)

\* Between the request for a snapshot and the reply to it.
Asking == /\ Sound(buf, <<>>, {}, <<>>, <<>>, cursor, trained, served)
          /\ buf.reserved = {} /\ working = {} /\ results = <<>>
          /\ \/ pipe = <<Ask>> /\ replies = <<>>
             \/ pipe = <<>> /\ replies = <<Answer(cursor)>>

Exchanging == IF pc = "await" THEN Asking ELSE Flying

\* The counters; the policy served is the one committed last.
Counters == /\ cursor \in Nat /\ trained \subseteq 0 .. cursor - 1
            /\ {step, source, served} \subseteq Updates
            /\ served = source /\ source <= step
            /\ discards \in 0 .. MaxDiscards /\ crashes \in 0 .. MaxCrashes
            /\ open \in BOOLEAN
            /\ cadence \in Cadences

\* Places of the loop where a snapshot is taken, and where it is at hand.
Freezing == {"snapshot", "await"}
Saving   == {"invalidate", "asleep", "unmark", "overwrite", "persist", "mark", "state", "seal"}

\* From the request to the seal nothing is in flight and nothing leased.
Frozen == pc \in Freezing \cup Saving =>
            /\ buf.reserved = {} /\ buf.selected = {}
            /\ source = step /\ step # 0

\* The snapshot stays the picture of the state while its parts are written.
Snapped == pc \in Saving => snap = [step |-> step, async |-> Exported(buf, cursor)]

SavedWeights == [step : Nat, trained : SUBSET Nat]

\* A sealed directory of step s: its parts belong together, and what it
\* restores is sound.
Whole(d, s) ==
  /\ d.seal = d.state
  /\ d.weights.step = s /\ d.weights \in SavedWeights
  /\ d.state.step = s
  /\ LET position == d.state.async.cursor
     IN  /\ position \in Nat /\ d.weights.trained \subseteq 0 .. position - 1
         /\ Sound(Restored(d.state.async), <<>>, {}, <<>>, <<>>, position, d.weights.trained, s)

IsDirectory(d) == /\ d = [weights |-> d.weights, mark |-> d.mark, state |-> d.state, seal |-> d.seal]
                  /\ d.mark \in BOOLEAN

Stored ==
  /\ disk = [s \in 1 .. MaxUpdates |-> disk[s]]
  /\ \A s \in 1 .. MaxUpdates : /\ IsDirectory(disk[s])
                                /\ disk[s].seal # None => Whole(disk[s], s)

\* What the parts written so far hold.
Weights == [step |-> step, trained |-> trained]
Staged ==
  /\ pc \in Saving \ {"invalidate", "asleep"} => disk[step].seal = None
  /\ pc \in {"mark", "seal"} => disk[step].weights = Weights
  /\ pc = "state" /\ disk[step].mark => disk[step].weights = Weights
  /\ pc = "seal" => disk[step].state = snap

\* Nothing is in flight while the job is down.
Stopped == pc = "down" => buf.reserved = {}

LearnerInv == Exchanging /\ Counters /\ Stopped /\ Frozen /\ Snapped /\ Stored /\ Staged

----------------------------------------------------------------------------
(***************************************************************************)
(* Induction, sequences and counting.                                      *)
(***************************************************************************)
\* A set that holds zero, and the successor of what it holds, holds every
\* natural number.
LEMMA Induction ==
  ASSUME NEW S, 0 \in S, \A n \in Nat : n \in S => n + 1 \in S
  PROVE  Nat \subseteq S
<1> SUFFICES ASSUME NEW m \in Nat, m \notin S PROVE FALSE
  OBVIOUS
<1> DEFINE T == Nat \ S
           R == {p \in Nat \X Nat : p[1] < p[2]}
<1>1. PICK x \in T : \A y \in T : ~(<<y, x>> \in R)
  <2>1. IsWellFoundedOn(R, Nat)
    BY NatLessThanWellFounded DEF OpToRel
  <2>2. T \subseteq Nat /\ T # {}
    OBVIOUS
  <2> HIDE DEF R, T
  <2> QED BY <2>1, <2>2, WFMin
<1>2. x # 0 /\ x - 1 \in Nat
  OBVIOUS
<1>3. x - 1 \in S
  <2>1. x - 1 < x /\ x \in Nat
    BY <1>2
  <2>2. <<x - 1, x>> \in R
    BY <1>2, <2>1
  <2> QED BY <1>1, <1>2, <2>2 DEF T
<1> QED BY <1>2, <1>3

\* Concatenation: length, places and elements.
LEMMA Concatenated ==
  ASSUME NEW S, NEW s \in Seq(S), NEW t \in Seq(S)
  PROVE  /\ s \o t \in Seq(S) /\ Len(s \o t) = Len(s) + Len(t)
         /\ \A i \in 1 .. Len(s) : (s \o t)[i] = s[i]
         /\ \A i \in 1 .. Len(t) : (s \o t)[Len(s) + i] = t[i]
         /\ ToSet(s \o t) = ToSet(s) \cup ToSet(t)
<1>1. s \o t \in Seq(S) /\ Len(s \o t) = Len(s) + Len(t) /\ Len(s) \in Nat /\ Len(t) \in Nat
  OBVIOUS
<1>2. \A i \in 1 .. Len(s) : (s \o t)[i] = s[i]
  OBVIOUS
<1>3. \A i \in 1 .. Len(t) : (s \o t)[Len(s) + i] = t[i]
  OBVIOUS
<1>4. DOMAIN s = 1 .. Len(s) /\ DOMAIN t = 1 .. Len(t) /\ DOMAIN (s \o t) = 1 .. Len(s) + Len(t)
  BY <1>1
<1>5. ASSUME NEW i \in 1 .. Len(s) + Len(t) PROVE (s \o t)[i] \in ToSet(s) \cup ToSet(t)
  <2>1. CASE i \in 1 .. Len(s)
    BY <2>1, <1>2, <1>4 DEF ToSet
  <2>2. CASE i \notin 1 .. Len(s)
    <3>1. i - Len(s) \in 1 .. Len(t) /\ i = Len(s) + (i - Len(s))
      BY <2>2, <1>1
    <3>2. (s \o t)[i] = t[i - Len(s)]
      BY <3>1, <1>3
    <3> QED BY <3>1, <3>2, <1>4 DEF ToSet
  <2> QED BY <2>1, <2>2
<1>6. ASSUME NEW i \in 1 .. Len(s) PROVE s[i] \in ToSet(s \o t)
  <2>1. i \in 1 .. Len(s) + Len(t)
    BY <1>1
  <2> QED BY <2>1, <1>2, <1>4 DEF ToSet
<1>7. ASSUME NEW i \in 1 .. Len(t) PROVE t[i] \in ToSet(s \o t)
  <2>1. Len(s) + i \in 1 .. Len(s) + Len(t)
    BY <1>1
  <2> QED BY <2>1, <1>3, <1>4 DEF ToSet
<1>8. ToSet(s \o t) = ToSet(s) \cup ToSet(t)
  <2>1. \A x \in ToSet(s \o t) : x \in ToSet(s) \cup ToSet(t)
    <3> SUFFICES ASSUME NEW x \in ToSet(s \o t) PROVE x \in ToSet(s) \cup ToSet(t)
      OBVIOUS
    <3>1. PICK i \in DOMAIN (s \o t) : x = (s \o t)[i]
      BY DEF ToSet
    <3> QED BY <3>1, <1>4, <1>5
  <2>2. \A x \in ToSet(s) \cup ToSet(t) : x \in ToSet(s \o t)
    <3> SUFFICES ASSUME NEW x \in ToSet(s) \cup ToSet(t) PROVE x \in ToSet(s \o t)
      OBVIOUS
    <3>1. CASE x \in ToSet(s)
      <4>1. PICK i \in DOMAIN s : x = s[i]
        BY <3>1 DEF ToSet
      <4> QED BY <4>1, <1>4, <1>6
    <3>2. CASE x \in ToSet(t)
      <4>1. PICK i \in DOMAIN t : x = t[i]
        BY <3>2 DEF ToSet
      <4> QED BY <4>1, <1>4, <1>7
    <3> QED BY <3>1, <3>2
  <2> QED BY <2>1, <2>2
<1> QED BY <1>1, <1>2, <1>3, <1>8

\* Appending one element.
LEMMA Appended ==
  ASSUME NEW S, NEW s \in Seq(S), NEW x \in S
  PROVE  /\ Append(s, x) \in Seq(S) /\ Len(Append(s, x)) = Len(s) + 1
         /\ \A i \in 1 .. Len(s) : Append(s, x)[i] = s[i]
         /\ Append(s, x)[Len(s) + 1] = x
         /\ ToSet(Append(s, x)) = ToSet(s) \cup {x}
<1>1. /\ Append(s, x) \in Seq(S) /\ Len(Append(s, x)) = Len(s) + 1
      /\ Append(s, x)[Len(s) + 1] = x
      /\ Len(s) \in Nat
  OBVIOUS
<1>2. \A i \in 1 .. Len(s) : Append(s, x)[i] = s[i]
  OBVIOUS
<1>3. DOMAIN s = 1 .. Len(s) /\ DOMAIN Append(s, x) = 1 .. Len(s) + 1
  BY <1>1
<1>4. \A y \in ToSet(Append(s, x)) : y \in ToSet(s) \cup {x}
  <2> SUFFICES ASSUME NEW i \in 1 .. Len(s) + 1 PROVE Append(s, x)[i] \in ToSet(s) \cup {x}
    BY <1>3 DEF ToSet
  <2>1. i \in 1 .. Len(s) \/ i = Len(s) + 1
    BY <1>1
  <2> QED BY <2>1, <1>1, <1>2, <1>3 DEF ToSet
<1>5. \A i \in 1 .. Len(s) : s[i] \in ToSet(Append(s, x))
  <2> TAKE i \in 1 .. Len(s)
  <2>1. i \in 1 .. Len(s) + 1
    BY <1>1
  <2> QED BY <2>1, <1>2, <1>3 DEF ToSet
<1>6. x \in ToSet(Append(s, x))
  <2>1. Len(s) + 1 \in 1 .. Len(s) + 1
    BY <1>1
  <2> QED BY <2>1, <1>1, <1>3 DEF ToSet
<1>7. \A y \in ToSet(s) : y \in ToSet(Append(s, x))
  BY <1>5, <1>3 DEF ToSet
<1>8. ToSet(Append(s, x)) = ToSet(s) \cup {x}
  BY <1>4, <1>6, <1>7
<1> QED BY <1>1, <1>2, <1>8

\* Head and tail.
LEMMA TailOf ==
  ASSUME NEW S, NEW s \in Seq(S), s # <<>>
  PROVE  /\ Head(s) = s[1] /\ s[1] \in S /\ Len(s) # 0
         /\ Tail(s) \in Seq(S) /\ Len(Tail(s)) = Len(s) - 1
         /\ \A i \in 1 .. Len(s) - 1 : Tail(s)[i] = s[i + 1]
OBVIOUS

----------------------------------------------------------------------------
\* The empty sequence.
LEMMA NothingIn == ToSet(<<>>) = {} /\ Len(<<>>) = 0 /\ \A S : <<>> \in Seq(S)
<1>1. Len(<<>>) = 0 /\ \A S : <<>> \in Seq(S)
  OBVIOUS
<1>2. DOMAIN <<>> = {}
  OBVIOUS
<1> QED BY <1>1, <1>2 DEF ToSet

\* A sequence of one.
LEMMA OneIn == ASSUME NEW S, NEW x \in S
               PROVE <<x>> \in Seq(S) /\ Len(<<x>>) = 1 /\ <<x>>[1] = x /\ ToSet(<<x>>) = {x}
<1>1. <<x>> \in Seq(S) /\ Len(<<x>>) = 1 /\ <<x>>[1] = x /\ DOMAIN <<x>> = {1}
  OBVIOUS
<1> QED BY <1>1 DEF ToSet

\* The recursion of Among, and the function that obeys it.
Kept(f, s, T, n) == IF n = 0 THEN <<>>
                    ELSE IF s[n] \in T THEN Append(f[n - 1], s[n]) ELSE f[n - 1]
Keeps(f, s, T, m) == f = [n \in 0 .. m |-> Kept(f, s, T, n)]

\* The value of such a function at one place.
LEMMA KeptAt ==
  ASSUME NEW f, NEW s, NEW T, NEW m, Keeps(f, s, T, m), NEW n \in 0 .. m
  PROVE  f[n] = Kept(f, s, T, n)
BY DEF Keeps

\* There is such a function, for every length.
LEMMA KeepsExists ==
  ASSUME NEW s, NEW T, NEW m \in Nat
  PROVE  \E f : Keeps(f, s, T, m)
<1> DEFINE Reached == {n \in Nat : \E f : Keeps(f, s, T, n)}
<1>1. 0 \in Reached
  <2> DEFINE f == [n \in 0 .. 0 |-> <<>>]
  <2>1. \A n \in 0 .. 0 : Kept(f, s, T, n) = <<>>
    BY DEF Kept
  <2>2. Keeps(f, s, T, 0)
    BY <2>1 DEF Keeps
  <2> HIDE DEF f
  <2> QED BY <2>2
<1>2. ASSUME NEW k \in Nat, k \in Reached PROVE k + 1 \in Reached
  <2>1. PICK f : Keeps(f, s, T, k)
    BY <1>2
  <2> DEFINE g == [n \in 0 .. k + 1 |-> Kept(f, s, T, n)]
  <2>2. \A n \in 0 .. k : g[n] = f[n]
    <3> TAKE n \in 0 .. k
    <3>1. f[n] = Kept(f, s, T, n)
      BY <2>1, KeptAt
    <3>2. n \in 0 .. k + 1
      OBVIOUS
    <3> QED BY <3>1, <3>2
  <2>3. \A n \in 0 .. k + 1 : Kept(g, s, T, n) = Kept(f, s, T, n)
    <3> TAKE n \in 0 .. k + 1
    <3>1. n # 0 => n - 1 \in 0 .. k
      OBVIOUS
    <3>2. n # 0 => g[n - 1] = f[n - 1]
      BY <2>2, <3>1
    <3> HIDE DEF g
    <3> QED BY <3>2 DEF Kept
  <2>4. g = [n \in 0 .. k + 1 |-> Kept(g, s, T, n)]
    <3>1. g = [n \in 0 .. k + 1 |-> Kept(f, s, T, n)]
      OBVIOUS
    <3> HIDE DEF g
    <3> QED BY <2>3, <3>1
  <2> HIDE DEF g
  <2> QED BY <2>4 DEF Keeps
<1>3. \A k \in Nat : k \in Reached => k + 1 \in Reached
  BY <1>2
<1> HIDE DEF Reached
<1>4. m \in Reached
  BY <1>1, <1>3, Induction
<1> QED BY <1>4 DEF Reached

\* What Among returns is the last value of such a function.
LEMMA AmongIsKept ==
  ASSUME NEW s, NEW T, Len(s) \in Nat
  PROVE  \E f : Keeps(f, s, T, Len(s)) /\ Among(s, T) = f[Len(s)]
<1> DEFINE f == CHOOSE f : Keeps(f, s, T, Len(s))
<1>1. Among(s, T) = f[Len(s)]
  BY Zenon DEF Among, Keeps, Kept
<1>2. \E g : Keeps(g, s, T, Len(s))
  BY KeepsExists
<1>3. Keeps(f, s, T, Len(s))
  BY Zenon, <1>2
<1> HIDE DEF f
<1> QED BY <1>1, <1>3

\* What the first n elements of s leave.
Sifted(r, s, T, n, S) ==
  /\ r \in Seq(S) /\ Len(r) <= n
  /\ ToSet(r) = {s[i] : i \in 1 .. n} \cap T
  /\ OneEach(s) => OneEach(r)

\* Every value of the function is a sieved prefix, by induction over the length.
LEMMA Sifts ==
  ASSUME NEW S, NEW s \in Seq(S), NEW T, NEW f, Keeps(f, s, T, Len(s))
  PROVE  \A n \in 0 .. Len(s) : Sifted(f[n], s, T, n, S)
<1> DEFINE Good == {n \in Nat : n <= Len(s) => Sifted(f[n], s, T, n, S)}
<1>0. Len(s) \in Nat /\ DOMAIN s = 1 .. Len(s) /\ \A i \in 1 .. Len(s) : s[i] \in S
  OBVIOUS
<1>1. 0 \in Good
  <2>1. f[0] = <<>>
    BY <1>0, KeptAt DEF Kept
  <2>2. ToSet(<<>>) = {} /\ Len(<<>>) = 0 /\ <<>> \in Seq(S)
    BY NothingIn
  <2>3. OneEach(<<>>)
    BY DEF OneEach
  <2>4. {s[i] : i \in 1 .. 0} = {}
    OBVIOUS
  <2>5. Sifted(<<>>, s, T, 0, S)
    BY <2>2, <2>3, <2>4 DEF Sifted
  <2> QED BY <2>1, <2>5
<1>2. ASSUME NEW k \in Nat, k \in Good PROVE k + 1 \in Good
  <2> SUFFICES ASSUME k + 1 <= Len(s) PROVE Sifted(f[k + 1], s, T, k + 1, S)
    OBVIOUS
  <2>1. Sifted(f[k], s, T, k, S)
    BY <1>0, <1>2
  <2>2. f[k + 1] = Kept(f, s, T, k + 1)
    <3>1. k + 1 \in 0 .. Len(s)
      BY <1>0
    <3> QED BY <3>1, KeptAt
  <2>3. f[k + 1] = IF s[k + 1] \in T THEN Append(f[k], s[k + 1]) ELSE f[k]
    <3>1. k + 1 # 0 /\ (k + 1) - 1 = k
      OBVIOUS
    <3> QED BY <2>2, <3>1 DEF Kept
  <2>4. {s[i] : i \in 1 .. k + 1} = {s[i] : i \in 1 .. k} \cup {s[k + 1]}
    <3>1. 1 .. k + 1 = (1 .. k) \cup {k + 1}
      OBVIOUS
    <3> QED BY <3>1
  <2>5. s[k + 1] \in S /\ k + 1 \in 1 .. Len(s)
    BY <1>0
  <2>6. CASE s[k + 1] \notin T
    <3> DEFINE r == f[k]
    <3>1. f[k + 1] = r
      BY <2>3, <2>6
    <3>2. r \in Seq(S) /\ Len(r) \in Nat /\ Len(r) <= k /\ (OneEach(s) => OneEach(r))
      BY <2>1 DEF Sifted
    <3>3. ToSet(r) = {s[i] : i \in 1 .. k} \cap T
      BY <2>1 DEF Sifted
    <3> HIDE DEF r
    <3>4. ToSet(r) = {s[i] : i \in 1 .. k + 1} \cap T
      BY <3>3, <2>4, <2>6
    <3>5. Len(r) <= k + 1
      BY <3>2
    <3> QED BY <3>1, <3>2, <3>4, <3>5 DEF Sifted
  <2>7. CASE s[k + 1] \in T
    <3> DEFINE r == f[k]
               q == Append(r, s[k + 1])
    <3>1. f[k + 1] = q
      BY <2>3, <2>7
    <3>2. r \in Seq(S) /\ Len(r) \in Nat /\ Len(r) <= k /\ DOMAIN r = 1 .. Len(r)
      BY <2>1 DEF Sifted
    <3> HIDE DEF r
    <3>3. /\ q \in Seq(S) /\ Len(q) = Len(r) + 1
          /\ \A i \in 1 .. Len(r) : q[i] = r[i]
          /\ q[Len(r) + 1] = s[k + 1]
          /\ ToSet(q) = ToSet(r) \cup {s[k + 1]}
      BY <3>2, <2>5, Appended
    <3> HIDE DEF q
    <3>4. ToSet(q) = {s[i] : i \in 1 .. k + 1} \cap T
      BY <3>3, <2>4, <2>7, <2>1 DEF Sifted, r
    <3>5. ASSUME OneEach(s) PROVE OneEach(q)
      <4>1. OneEach(r)
        BY <2>1, <3>5 DEF Sifted, r
      <4>2. \A i \in 1 .. Len(r) : r[i].id # s[k + 1].id
        <5> TAKE i \in 1 .. Len(r)
        <5>1. r[i] \in ToSet(r)
          BY <3>2 DEF ToSet
        <5>2. PICK j \in 1 .. k : r[i] = s[j]
          BY <5>1, <2>1 DEF Sifted, r
        <5>3. j \in DOMAIN s /\ k + 1 \in DOMAIN s /\ j # k + 1
          BY <1>0, <2>5
        <5> QED BY <5>2, <5>3, <3>5 DEF OneEach
      <4>3. DOMAIN q = (1 .. Len(r)) \cup {Len(r) + 1}
        BY <3>2, <3>3
      <4>4. \A i, j \in 1 .. Len(r) : r[i].id = r[j].id => i = j
        BY <4>1, <3>2 DEF OneEach
      <4> QED BY <4>2, <4>3, <4>4, <3>3 DEF OneEach
    <3> QED BY <3>1, <3>2, <3>3, <3>4, <3>5 DEF Sifted
  <2> QED BY <2>6, <2>7
<1>3. \A k \in Nat : k \in Good => k + 1 \in Good
  BY <1>2
<1>4. ASSUME NEW n \in 0 .. Len(s) PROVE n \in Good
  <2>1. n \in Nat
    BY <1>0
  <2> HIDE DEF Good
  <2> QED BY <2>1, <1>1, <1>3, Induction
<1> QED BY <1>0, <1>4

\* Among keeps the elements of s that are in T, and no identity twice.
LEMMA AmongKeeps ==
  ASSUME NEW S, NEW s \in Seq(S), NEW T
  PROVE  /\ Among(s, T) \in Seq(S) /\ Len(Among(s, T)) <= Len(s)
         /\ ToSet(Among(s, T)) = ToSet(s) \cap T
         /\ OneEach(s) => OneEach(Among(s, T))
<1>1. Len(s) \in Nat /\ DOMAIN s = 1 .. Len(s)
  OBVIOUS
<1>2. PICK f : Keeps(f, s, T, Len(s)) /\ Among(s, T) = f[Len(s)]
  BY <1>1, AmongIsKept
<1>3. Sifted(f[Len(s)], s, T, Len(s), S)
  BY <1>1, <1>2, Sifts
<1>4. ToSet(s) = {s[i] : i \in 1 .. Len(s)}
  BY <1>1 DEF ToSet
<1> QED BY <1>2, <1>3, <1>4 DEF Sifted

----------------------------------------------------------------------------
\* A function that is one to one on a finite set has as many values as the set
\* has elements.
LEMMA ImageCount ==
  ASSUME NEW S, IsFiniteSet(S), NEW f, \A x, y \in S : f[x] = f[y] => x = y
  PROVE  /\ IsFiniteSet({f[x] : x \in S})
         /\ Cardinality({f[x] : x \in S}) = Cardinality(S)
<1> DEFINE T == {f[x] : x \in S}
           g == [x \in S |-> f[x]]
<1>1. g \in [S -> T] /\ (\A x, y \in S : g[x] = g[y] => x = y) /\ (\A t \in T : \E x \in S : g[x] = t)
  OBVIOUS
<1>2. g \in Bijection(S, T)
  <2> HIDE DEF g, T
  <2> QED BY <1>1 DEF Bijection, Injection, Surjection, IsInjective
<1>3. ExistsBijection(S, T)
  BY <1>2 DEF ExistsBijection
<1> HIDE DEF T
<1> QED BY <1>3, FS_Bijection DEF T

\* Elements with different records have as many records as there are elements.
LEMMA RecordCount ==
  ASSUME NEW S, IsFiniteSet(S), \A x, y \in S : x.record = y.record => x = y
  PROVE  /\ IsFiniteSet({x.record : x \in S})
         /\ Cardinality({x.record : x \in S}) = Cardinality(S)
<1> DEFINE f == [x \in S |-> x.record]
<1>1. \A x, y \in S : f[x] = f[y] => x = y
  OBVIOUS
<1>2. {x.record : x \in S} = {f[x] : x \in S}
  OBVIOUS
<1> HIDE DEF f
<1>3. IsFiniteSet({f[x] : x \in S}) /\ Cardinality({f[x] : x \in S}) = Cardinality(S)
  BY <1>1, ImageCount
<1> QED BY <1>2, <1>3

\* Groups with different identities have as many tickets as there are groups.
LEMMA TaskCount ==
  ASSUME NEW S, IsFiniteSet(S), Unique(S)
  PROVE  /\ IsFiniteSet({Task(x) : x \in S})
         /\ Cardinality({Task(x) : x \in S}) = Cardinality(S)
<1> DEFINE f == [x \in S |-> Task(x)]
<1>0. \A x \in S : f[x].id = x.id
  BY DEF Task
<1>1. \A x, y \in S : f[x] = f[y] => x = y
  <2> HIDE DEF f
  <2> QED BY <1>0 DEF Unique
<1>2. {Task(x) : x \in S} = {f[x] : x \in S}
  OBVIOUS
<1> HIDE DEF f
<1>3. IsFiniteSet({f[x] : x \in S}) /\ Cardinality({f[x] : x \in S}) = Cardinality(S)
  BY <1>1, ImageCount
<1> QED BY <1>2, <1>3

\* A sequence without repetition has as many elements as places.
LEMMA PlaceCount ==
  ASSUME NEW S, NEW s \in Seq(S), NEW n \in 0 .. Len(s), OneEach(s)
  PROVE  /\ IsFiniteSet({s[i] : i \in 1 .. n}) /\ Cardinality({s[i] : i \in 1 .. n}) = n
         /\ IsFiniteSet({s[i].id : i \in 1 .. n}) /\ Cardinality({s[i].id : i \in 1 .. n}) = n
<1>1. Len(s) \in Nat /\ DOMAIN s = 1 .. Len(s)
  OBVIOUS
<1>2. \A i, j \in 1 .. n : s[i].id = s[j].id => i = j
  BY <1>1 DEF OneEach
<1>3. IsFiniteSet(1 .. n) /\ Cardinality(1 .. n) = n
  <2>1. n \in Nat /\ n \in Int /\ 1 \in Int
    BY <1>1
  <2> QED BY <2>1, FS_Interval
<1>4. IsFiniteSet({s[i] : i \in 1 .. n}) /\ Cardinality({s[i] : i \in 1 .. n}) = n
  <2>1. \A i, j \in 1 .. n : s[i] = s[j] => i = j
    BY <1>2
  <2> QED BY <2>1, <1>3, ImageCount
<1>5. IsFiniteSet({s[i].id : i \in 1 .. n}) /\ Cardinality({s[i].id : i \in 1 .. n}) = n
  <2> DEFINE f == [i \in 1 .. n |-> s[i].id]
  <2>1. \A i, j \in 1 .. n : f[i] = f[j] => i = j
    BY <1>2
  <2>2. {s[i].id : i \in 1 .. n} = {f[i] : i \in 1 .. n}
    OBVIOUS
  <2> HIDE DEF f
  <2>3. IsFiniteSet({f[i] : i \in 1 .. n}) /\ Cardinality({f[i] : i \in 1 .. n}) = n
    BY <2>1, <1>3, ImageCount
  <2> QED BY <2>2, <2>3
<1> QED BY <1>4, <1>5

\* A sequence without repetition has as many elements as its length.
LEMMA SetOfSeq ==
  ASSUME NEW S, NEW s \in Seq(S), OneEach(s)
  PROVE  IsFiniteSet(ToSet(s)) /\ Cardinality(ToSet(s)) = Len(s)
<1>1. Len(s) \in Nat /\ DOMAIN s = 1 .. Len(s) /\ Len(s) \in 0 .. Len(s)
  OBVIOUS
<1>2. ToSet(s) = {s[i] : i \in 1 .. Len(s)}
  BY <1>1 DEF ToSet
<1>3. /\ IsFiniteSet({s[i] : i \in 1 .. Len(s)})
      /\ Cardinality({s[i] : i \in 1 .. Len(s)}) = Len(s)
  <2>1. Len(s) \in 0 .. Len(s)
    BY <1>1
  <2> QED BY ZenonT(40), <2>1, PlaceCount
<1> QED BY <1>2, <1>3

\* Disjoint finite sets together.
LEMMA DisjointCount ==
  ASSUME NEW S, NEW T, IsFiniteSet(S), IsFiniteSet(T), S \cap T = {}
  PROVE  /\ IsFiniteSet(S \cup T)
         /\ Cardinality(S \cup T) = Cardinality(S) + Cardinality(T)
         /\ Cardinality(S) \in Nat /\ Cardinality(T) \in Nat
<1>1. Cardinality(S) \in Nat /\ Cardinality(T) \in Nat
  BY FS_CardinalityType
<1>3. Cardinality(S \cap T) = 0
  <2>1. Cardinality({}) = 0
    BY FS_EmptySet
  <2> QED BY <2>1
<1>2. /\ IsFiniteSet(S \cup T)
      /\ Cardinality(S \cup T) = Cardinality(S) + Cardinality(T) - Cardinality(S \cap T)
  BY FS_Union
<1> QED BY <1>1, <1>2, <1>3

\* What is left of a finite set without a subset.
LEMMA RestCount ==
  ASSUME NEW S, NEW T \in SUBSET S, IsFiniteSet(S)
  PROVE  /\ IsFiniteSet(T) /\ IsFiniteSet(S \ T)
         /\ Cardinality(S \ T) = Cardinality(S) - Cardinality(T)
         /\ Cardinality(S) \in Nat /\ Cardinality(T) \in Nat /\ Cardinality(S \ T) \in Nat
<1>1. IsFiniteSet(T) /\ IsFiniteSet(S \ T)
  BY FS_Subset
<1>2. T \cup (S \ T) = S /\ T \cap (S \ T) = {}
  OBVIOUS
<1>3. /\ Cardinality(T \cup (S \ T)) = Cardinality(T) + Cardinality(S \ T)
      /\ Cardinality(T) \in Nat /\ Cardinality(S \ T) \in Nat
  BY <1>1, <1>2, DisjointCount
<1>4. Cardinality(S) = Cardinality(T) + Cardinality(S \ T)
  BY <1>2, <1>3
<1>5. Cardinality(S) \in Nat
  BY FS_CardinalityType
<1> QED BY <1>1, <1>3, <1>4, <1>5

----------------------------------------------------------------------------
(***************************************************************************)
(* What a pump does to the buffer.                                         *)
(***************************************************************************)
\* The buffer with other tickets, other groups and another count of the dropped.
Booked(b, R, Y, n) == [b EXCEPT !.reserved = R, !.ready = Y, !.dropped = n]

\* The fields of such a buffer.
LEMMA BookedFields ==
  ASSUME NEW b \in Buffers, NEW R, NEW Y, NEW n
  PROVE  /\ Booked(b, R, Y, n).reserved = R /\ Booked(b, R, Y, n).ready = Y
         /\ Booked(b, R, Y, n).dropped = n /\ Booked(b, R, Y, n).next = b.next
         /\ Booked(b, R, Y, n).selected = b.selected
         /\ Booked(b, R, Y, n).consumed = b.consumed
         /\ Booked(b, R, Y, n).mail = b.mail /\ Booked(b, R, Y, n).fault = b.fault
         /\ (R \in SUBSET Tickets /\ Y \in Seq(Finished) /\ n \in Nat)
              => Booked(b, R, Y, n) \in Buffers
BY DEF Booked, Buffers

\* Nothing changed is the buffer itself.
LEMMA BookedSame ==
  ASSUME NEW b \in Buffers
  PROVE  Booked(b, b.reserved, b.ready, b.dropped) = b
BY DEF Booked, Buffers

\* accept of a group that is reserved and well aged (ExperienceBuffer.accept).
LEMMA AcceptBooked ==
  ASSUME NEW b \in Buffers, NEW R, NEW Y, NEW n, NEW g \in Finished,
         Task(g) \in R, g.src <= g.old
  PROVE  Accept(Booked(b, R, Y, n), g) = Booked(b, R \ {Task(g)}, Append(Y, g), n)
<1> DEFINE c == Booked(b, R, Y, n)
<1>1. c.reserved = R /\ c.ready = Y
  BY BookedFields
<1>2. ~(Task(g) \notin c.reserved \/ g.old < g.src)
  <2>1. g.old \in Nat /\ g.src \in Nat
    BY DEF Finished
  <2> QED BY <1>1, <2>1
<1>3. Accept(c, g) = [c EXCEPT !.reserved = R \ {Task(g)}, !.ready = Append(Y, g)]
  <2> HIDE DEF c
  <2>1. Accept(c, g) = [c EXCEPT !.reserved = @ \ {Task(g)}, !.ready = Append(@, g)]
    BY <1>2 DEF Accept
  <2> QED BY <2>1, <1>1
<1>4. [c EXCEPT !.reserved = R \ {Task(g)}, !.ready = Append(Y, g)]
        = Booked(b, R \ {Task(g)}, Append(Y, g), n)
  BY DEF Booked, Buffers
<1> QED BY <1>3, <1>4

\* discard of a ticket that is reserved (ExperienceBuffer.discard).
LEMMA DiscardBooked ==
  ASSUME NEW b \in Buffers, NEW R, NEW Y, NEW n, NEW m \in Failures, m.task \in R
  PROVE  Reply(Booked(b, R, Y, n), m) = Booked(b, R \ {m.task}, Y, n + 1)
<1> DEFINE c == Booked(b, R, Y, n)
<1>1. c.reserved = R /\ c.dropped = n
  BY BookedFields
<1>2. Reply(c, m) = Discard(c, m.task)
  BY DEF Reply, Failures
<1>3. Discard(c, m.task) = [c EXCEPT !.reserved = R \ {m.task}, !.dropped = n + 1]
  <2> HIDE DEF c
  <2>1. Discard(c, m.task) = [c EXCEPT !.reserved = @ \ {m.task}, !.dropped = @ + 1]
    BY <1>1 DEF Discard
  <2> QED BY <2>1, <1>1
<1>4. [c EXCEPT !.reserved = R \ {m.task}, !.dropped = n + 1] = Booked(b, R \ {m.task}, Y, n + 1)
  BY DEF Booked, Buffers
<1> QED BY <1>2, <1>3, <1>4

\* The two recursions of Pumped.
Admits(f, b, gs) == f = [n \in 0 .. Len(gs) |-> IF n = 0 THEN b ELSE Accept(f[n - 1], gs[n])]
Answers(f, b, ms) == f = [n \in 0 .. Len(ms) |-> IF n = 0 THEN b ELSE Reply(f[n - 1], ms[n])]

\* Pumped is the last value of the second recursion, provided that both are
\* determined.
LEMMA PumpedIs ==
  ASSUME NEW b, NEW h, Admits(h, b, results), NEW k, Answers(k, h[Len(results)], replies),
         \A f : Admits(f, b, results) => f = h,
         \A f : Answers(f, h[Len(results)], replies) => f = k
  PROVE  Pumped(b) = k[Len(replies)]
<1> DEFINE f == CHOOSE f : Admits(f, b, results)
           a == CHOOSE a : Answers(a, f[Len(results)], replies)
<1>1. Pumped(b) = a[Len(replies)]
  BY Zenon DEF Pumped, Admits, Answers
<1>2. Admits(f, b, results)
  BY Zenon
<1> HIDE DEF f
<1>3. f = h
  BY <1>2
<1>4. Answers(a, h[Len(results)], replies)
  BY Zenon, <1>3
<1> HIDE DEF a
<1>5. a = k
  BY <1>4
<1> QED BY <1>1, <1>5

\* The first recursion determines its function ...
LEMMA AdmitsOnce ==
  ASSUME NEW b, NEW gs, Len(gs) \in Nat, NEW f, Admits(f, b, gs), NEW h, Admits(h, b, gs)
  PROVE  f = h
<1> DEFINE Good == {n \in Nat : n <= Len(gs) => f[n] = h[n]}
<1>1. \A n \in 0 .. Len(gs) : /\ f[n] = IF n = 0 THEN b ELSE Accept(f[n - 1], gs[n])
                             /\ h[n] = IF n = 0 THEN b ELSE Accept(h[n - 1], gs[n])
  BY DEF Admits
<1>2. 0 \in Good
  <2>1. 0 \in 0 .. Len(gs)
    OBVIOUS
  <2> QED BY <1>1, <2>1
<1>3. ASSUME NEW n \in Nat, n \in Good PROVE n + 1 \in Good
  <2> SUFFICES ASSUME n + 1 <= Len(gs) PROVE f[n + 1] = h[n + 1]
    OBVIOUS
  <2>1. n + 1 \in 0 .. Len(gs) /\ n + 1 # 0 /\ (n + 1) - 1 = n /\ n <= Len(gs)
    OBVIOUS
  <2>2. f[n + 1] = Accept(f[n], gs[n + 1]) /\ h[n + 1] = Accept(h[n], gs[n + 1])
    BY <1>1, <2>1
  <2>3. f[n] = h[n]
    BY <1>3, <2>1
  <2> QED BY <2>2, <2>3
<1>4. \A n \in Nat : n \in Good => n + 1 \in Good
  BY <1>3
<1>5. \A n \in 0 .. Len(gs) : f[n] = h[n]
  <2>1. Nat \subseteq Good
    <3> HIDE DEF Good
    <3> QED BY <1>2, <1>4, Induction
  <2> QED BY <2>1
<1>6. f = [n \in 0 .. Len(gs) |-> f[n]] /\ h = [n \in 0 .. Len(gs) |-> h[n]]
  BY DEF Admits
<1> QED BY <1>5, <1>6

\* ... and so does the second.
LEMMA AnswersOnce ==
  ASSUME NEW b, NEW ms, Len(ms) \in Nat, NEW f, Answers(f, b, ms), NEW h, Answers(h, b, ms)
  PROVE  f = h
<1> DEFINE Good == {n \in Nat : n <= Len(ms) => f[n] = h[n]}
<1>1. \A n \in 0 .. Len(ms) : /\ f[n] = IF n = 0 THEN b ELSE Reply(f[n - 1], ms[n])
                             /\ h[n] = IF n = 0 THEN b ELSE Reply(h[n - 1], ms[n])
  BY Zenon DEF Answers
<1>2. 0 \in Good
  <2>1. 0 \in 0 .. Len(ms)
    OBVIOUS
  <2> QED BY <1>1, <2>1
<1>3. ASSUME NEW n \in Nat, n \in Good PROVE n + 1 \in Good
  <2> SUFFICES ASSUME n + 1 <= Len(ms) PROVE f[n + 1] = h[n + 1]
    OBVIOUS
  <2>1. n + 1 \in 0 .. Len(ms) /\ n + 1 # 0 /\ (n + 1) - 1 = n /\ n <= Len(ms)
    OBVIOUS
  <2>2. f[n + 1] = Reply(f[n], ms[n + 1]) /\ h[n + 1] = Reply(h[n], ms[n + 1])
    BY <1>1, <2>1
  <2>3. f[n] = h[n]
    BY <1>3, <2>1
  <2> QED BY <2>2, <2>3
<1>4. \A n \in Nat : n \in Good => n + 1 \in Good
  BY <1>3
<1>5. \A n \in 0 .. Len(ms) : f[n] = h[n]
  <2>1. Nat \subseteq Good
    <3> HIDE DEF Good
    <3> QED BY <1>2, <1>4, Induction
  <2> QED BY <2>1
<1>6. f = [n \in 0 .. Len(ms) |-> f[n]] /\ h = [n \in 0 .. Len(ms) |-> h[n]]
  BY DEF Answers
<1> QED BY <1>5, <1>6

\* The tickets of the first n groups, and of the first n failures.
TicketsOf(gs, n) == {Task(gs[i]) : i \in 1 .. n}
FailedIn(ms, n)  == {ms[i].task : i \in 1 .. n}

Admitted(b, gs, n) == Booked(b, b.reserved \ TicketsOf(gs, n), b.ready \o SubSeq(gs, 1, n), b.dropped)
Answered(b, ms, n) == Booked(b, b.reserved \ FailedIn(ms, n), b.ready, b.dropped + n)

\* A concatenation grows element by element.
LEMMA OneMoreOf ==
  ASSUME NEW S, NEW s \in Seq(S), NEW t \in Seq(S), NEW n \in Nat, n + 1 <= Len(t)
  PROVE  Append(s \o SubSeq(t, 1, n), t[n + 1]) = s \o SubSeq(t, 1, n + 1)
<1>1. Len(s) \in Nat /\ Len(t) \in Nat
  OBVIOUS
<1>2. /\ SubSeq(t, 1, n) \in Seq(S) /\ Len(SubSeq(t, 1, n)) = n
      /\ SubSeq(t, 1, n + 1) \in Seq(S) /\ Len(SubSeq(t, 1, n + 1)) = n + 1
      /\ t[n + 1] \in S
      /\ \A i \in 1 .. n : SubSeq(t, 1, n)[i] = t[i]
      /\ \A i \in 1 .. n + 1 : SubSeq(t, 1, n + 1)[i] = t[i]
  BY <1>1
<1> DEFINE u == s \o SubSeq(t, 1, n)
           v == s \o SubSeq(t, 1, n + 1)
           w == Append(u, t[n + 1])
<1>3. /\ u \in Seq(S) /\ Len(u) = Len(s) + n
      /\ \A i \in 1 .. Len(s) : u[i] = s[i]
      /\ \A i \in 1 .. n : u[Len(s) + i] = t[i]
  BY <1>2, Concatenated
<1>4. /\ v \in Seq(S) /\ Len(v) = Len(s) + (n + 1)
      /\ \A i \in 1 .. Len(s) : v[i] = s[i]
      /\ \A i \in 1 .. n + 1 : v[Len(s) + i] = t[i]
  BY <1>2, Concatenated
<1> HIDE DEF u, v
<1>5. /\ w \in Seq(S) /\ Len(w) = Len(s) + n + 1
      /\ \A i \in 1 .. Len(s) + n : w[i] = u[i]
      /\ w[Len(s) + n + 1] = t[n + 1]
  BY SMTT(30), <1>1, <1>2, <1>3, Appended
<1> HIDE DEF w
<1>6. ASSUME NEW i \in 1 .. Len(s) + n + 1 PROVE w[i] = v[i]
  <2>1. CASE i \in 1 .. Len(s)
    <3>1. i \in 1 .. Len(s) + n
      BY <2>1, <1>1
    <3> QED BY <3>1, <2>1, <1>3, <1>4, <1>5
  <2>2. CASE i \notin 1 .. Len(s) /\ i # Len(s) + n + 1
    <3>1. /\ i - Len(s) \in 1 .. n /\ i - Len(s) \in 1 .. n + 1
          /\ i = Len(s) + (i - Len(s)) /\ i \in 1 .. Len(s) + n
      BY <2>2, <1>1
    <3>2. u[i] = t[i - Len(s)]
      BY <3>1, <1>3
    <3>3. v[i] = t[i - Len(s)]
      BY <3>1, <1>4
    <3> QED BY <3>1, <3>2, <3>3, <1>5
  <2>3. CASE i = Len(s) + n + 1
    <3>1. n + 1 \in 1 .. n + 1 /\ i = Len(s) + (n + 1)
      BY <2>3, <1>1
    <3> QED BY <3>1, <2>3, <1>4, <1>5
  <2> QED BY <2>1, <2>2, <2>3
<1>7. Len(v) = Len(s) + n + 1
  BY <1>1, <1>4
<1>8. w = v
  BY <1>4, <1>5, <1>6, <1>7
<1> QED BY <1>8 DEF u, v, w

\* When every result matches a reservation the first recursion raises nothing
\* and takes the groups over one by one.
LEMMA AdmitsAll ==
  ASSUME NEW b \in Buffers, NEW gs \in Seq(Finished), OneEach(gs),
         \A g \in ToSet(gs) : Task(g) \in b.reserved /\ g.src <= g.old
  PROVE  Admits([n \in 0 .. Len(gs) |-> Admitted(b, gs, n)], b, gs)
<1> DEFINE h == [n \in 0 .. Len(gs) |-> Admitted(b, gs, n)]
<1>0. Len(gs) \in Nat /\ DOMAIN gs = 1 .. Len(gs) /\ b.ready \in Seq(Finished)
  BY DEF Buffers
<1>1. Admitted(b, gs, 0) = b
  <2>1. TicketsOf(gs, 0) = {}
    BY DEF TicketsOf
  <2>2. b.ready \o SubSeq(gs, 1, 0) = b.ready
    BY <1>0
  <2>3. b.reserved \ {} = b.reserved
    OBVIOUS
  <2> QED BY <2>1, <2>2, <2>3, BookedSame DEF Admitted
<1>2. ASSUME NEW n \in 1 .. Len(gs)
      PROVE  Admitted(b, gs, n) = Accept(Admitted(b, gs, n - 1), gs[n])
  <2>0. n - 1 \in Nat /\ n \in Nat /\ (n - 1) + 1 = n /\ n <= Len(gs)
    BY <1>0
  <2>1. gs[n] \in Finished /\ gs[n] \in ToSet(gs)
    BY <1>0 DEF ToSet
  <2>2. Task(gs[n]) \in b.reserved /\ gs[n].src <= gs[n].old
    BY <2>1
  <2>3. Task(gs[n]) \notin TicketsOf(gs, n - 1)
    <3>1. ASSUME NEW i \in 1 .. n - 1 PROVE Task(gs[i]) # Task(gs[n])
      <4>1. i \in DOMAIN gs /\ n \in DOMAIN gs /\ i # n
        BY <1>0, <2>0
      <4>2. gs[i].id # gs[n].id
        BY <4>1 DEF OneEach
      <4> QED BY <4>2 DEF Task
    <3> QED BY <3>1 DEF TicketsOf
  <2>4. TicketsOf(gs, n) = TicketsOf(gs, n - 1) \cup {Task(gs[n])}
    <3>1. 1 .. n = (1 .. n - 1) \cup {n}
      BY <2>0
    <3> QED BY <3>1 DEF TicketsOf
  <2>5. Append(b.ready \o SubSeq(gs, 1, n - 1), gs[n]) = b.ready \o SubSeq(gs, 1, n)
    BY <1>0, <2>0, OneMoreOf
  <2> DEFINE R == b.reserved \ TicketsOf(gs, n - 1)
             Y == b.ready \o SubSeq(gs, 1, n - 1)
  <2>6. Task(gs[n]) \in R
    BY <2>2, <2>3
  <2>7. R \ {Task(gs[n])} = b.reserved \ TicketsOf(gs, n)
    BY <2>4
  <2>8. Admitted(b, gs, n - 1) = Booked(b, R, Y, b.dropped)
    BY DEF Admitted
  <2> HIDE DEF R, Y
  <2>9. Accept(Booked(b, R, Y, b.dropped), gs[n])
          = Booked(b, R \ {Task(gs[n])}, Append(Y, gs[n]), b.dropped)
    BY <2>1, <2>2, <2>6, AcceptBooked
  <2> QED BY <2>5, <2>7, <2>8, <2>9 DEF Admitted, Y
<1>3. ASSUME NEW n \in 0 .. Len(gs)
      PROVE  h[n] = IF n = 0 THEN b ELSE Accept(h[n - 1], gs[n])
  <2>1. CASE n = 0
    BY <2>1, <1>1
  <2>2. CASE n # 0
    <3>1. n \in 1 .. Len(gs) /\ n - 1 \in 0 .. Len(gs)
      BY <2>2, <1>0
    <3>2. h[n] = Admitted(b, gs, n) /\ h[n - 1] = Admitted(b, gs, n - 1)
      BY <3>1
    <3> HIDE DEF h
    <3> QED BY <3>1, <3>2, <1>2, <2>2
  <2> QED BY <2>1, <2>2
<1>4. h = [n \in 0 .. Len(gs) |-> IF n = 0 THEN b ELSE Accept(h[n - 1], gs[n])]
  <2>1. h = [n \in 0 .. Len(gs) |-> h[n]]
    OBVIOUS
  <2> HIDE DEF h
  <2> QED BY <2>1, <1>3
<1> HIDE DEF h
<1>5. Admits(h, b, gs)
  BY <1>4 DEF Admits
<1> QED BY <1>5 DEF h

\* When every failure matches a reservation the second recursion raises nothing
\* and drops the tickets one by one.
LEMMA AnswersAll ==
  ASSUME NEW b \in Buffers, NEW ms \in Seq(Failures), OneEach(Tasks(ms)),
         ToSet(Tasks(ms)) \subseteq b.reserved
  PROVE  Answers([n \in 0 .. Len(ms) |-> Answered(b, ms, n)], b, ms)
<1> DEFINE h == [n \in 0 .. Len(ms) |-> Answered(b, ms, n)]
<1>0. Len(ms) \in Nat /\ DOMAIN ms = 1 .. Len(ms) /\ b.dropped \in Nat
  BY DEF Buffers
<1>9. DOMAIN Tasks(ms) = 1 .. Len(ms) /\ \A i \in 1 .. Len(ms) : Tasks(ms)[i] = ms[i].task
  BY <1>0 DEF Tasks
<1>1. Answered(b, ms, 0) = b
  <2>1. FailedIn(ms, 0) = {}
    BY DEF FailedIn
  <2>2. b.dropped + 0 = b.dropped
    BY <1>0
  <2>3. b.reserved \ {} = b.reserved
    OBVIOUS
  <2> QED BY <2>1, <2>2, <2>3, BookedSame DEF Answered
<1>2. ASSUME NEW n \in 1 .. Len(ms)
      PROVE  Answered(b, ms, n) = Reply(Answered(b, ms, n - 1), ms[n])
  <2>0. n - 1 \in Nat /\ n \in Nat /\ (n - 1) + 1 = n /\ n <= Len(ms)
    BY <1>0
  <2>1. ms[n] \in Failures
    BY <1>0
  <2>2. ms[n].task \in b.reserved
    <3>1. ms[n].task \in ToSet(Tasks(ms))
      BY <1>9 DEF ToSet
    <3> QED BY <3>1
  <2>3. ms[n].task \notin FailedIn(ms, n - 1)
    <3>1. ASSUME NEW i \in 1 .. n - 1 PROVE ms[i].task # ms[n].task
      <4>1. i \in 1 .. Len(ms) /\ n \in 1 .. Len(ms) /\ i # n
        BY <1>0, <2>0
      <4>2. Tasks(ms)[i].id # Tasks(ms)[n].id
        BY <4>1, <1>9 DEF OneEach
      <4> QED BY <4>1, <4>2, <1>9
    <3> QED BY <3>1 DEF FailedIn
  <2>4. FailedIn(ms, n) = FailedIn(ms, n - 1) \cup {ms[n].task}
    <3>1. 1 .. n = (1 .. n - 1) \cup {n}
      BY <2>0
    <3> QED BY <3>1 DEF FailedIn
  <2>5. b.dropped + (n - 1) + 1 = b.dropped + n
    BY <1>0, <2>0
  <2> DEFINE R == b.reserved \ FailedIn(ms, n - 1)
             d == b.dropped + (n - 1)
  <2>6. ms[n].task \in R
    BY <2>2, <2>3
  <2>7. R \ {ms[n].task} = b.reserved \ FailedIn(ms, n)
    BY <2>4
  <2>8. Answered(b, ms, n - 1) = Booked(b, R, b.ready, d)
    BY DEF Answered
  <2>10. d + 1 = b.dropped + n
    BY <2>5
  <2> HIDE DEF R, d
  <2>9. Reply(Booked(b, R, b.ready, d), ms[n]) = Booked(b, R \ {ms[n].task}, b.ready, d + 1)
    BY <2>1, <2>6, DiscardBooked
  <2> QED BY <2>7, <2>8, <2>9, <2>10 DEF Answered
<1>3. ASSUME NEW n \in 0 .. Len(ms)
      PROVE  h[n] = IF n = 0 THEN b ELSE Reply(h[n - 1], ms[n])
  <2>1. CASE n = 0
    BY <2>1, <1>1
  <2>2. CASE n # 0
    <3>1. n \in 1 .. Len(ms) /\ n - 1 \in 0 .. Len(ms)
      BY <2>2, <1>0
    <3>2. h[n] = Answered(b, ms, n) /\ h[n - 1] = Answered(b, ms, n - 1)
      BY <3>1
    <3> HIDE DEF h
    <3> QED BY <3>1, <3>2, <1>2, <2>2
  <2> QED BY <2>1, <2>2
<1>4. h = [n \in 0 .. Len(ms) |-> IF n = 0 THEN b ELSE Reply(h[n - 1], ms[n])]
  <2>1. h = [n \in 0 .. Len(ms) |-> h[n]]
    OBVIOUS
  <2> HIDE DEF h
  <2> QED BY <2>1, <1>3
<1> HIDE DEF h
<1>5. Answers(h, b, ms)
  BY <1>4 DEF Answers
<1> QED BY <1>5 DEF h

\* The buffer after a pump of results and failures.
Tasked(S) == {Task(g) : g \in S}
Delivered(b, gs, ms) ==
  Booked(b, b.reserved \ (Tasked(ToSet(gs)) \cup ToSet(Tasks(ms))),
         b.ready \o gs, b.dropped + Len(ms))

\* AsyncRuntime.pump: all results and failures at once.
LEMMA PumpedDelivers ==
  ASSUME NEW b \in Buffers, results \in Seq(Finished), OneEach(results),
         \A g \in ToSet(results) : Task(g) \in b.reserved /\ g.src <= g.old,
         replies \in Seq(Failures), OneEach(Tasks(replies)),
         ToSet(Tasks(replies)) \subseteq b.reserved,
         Apart(ToSet(results), ToSet(Tasks(replies)))
  PROVE  Pumped(b) = Delivered(b, results, replies)
<1> DEFINE h == [n \in 0 .. Len(results) |-> Admitted(b, results, n)]
           c == Admitted(b, results, Len(results))
           k == [n \in 0 .. Len(replies) |-> Answered(c, replies, n)]
<1>0. Len(results) \in Nat /\ Len(replies) \in Nat /\ DOMAIN results = 1 .. Len(results)
      /\ DOMAIN replies = 1 .. Len(replies) /\ b.ready \in Seq(Finished) /\ b.dropped \in Nat
      /\ b.reserved \subseteq Tickets
  BY DEF Buffers
<1>1. Admits(h, b, results)
  BY AdmitsAll
<1>2. h[Len(results)] = c
  BY <1>0
<1>3. c.reserved = b.reserved \ TicketsOf(results, Len(results))
      /\ c.ready = b.ready \o results /\ c.dropped = b.dropped
      /\ c \in Buffers
  <2>1. SubSeq(results, 1, Len(results)) = results
    BY <1>0
  <2>2. c = Booked(b, b.reserved \ TicketsOf(results, Len(results)), b.ready \o results, b.dropped)
    BY <2>1 DEF Admitted
  <2>3. b.ready \o results \in Seq(Finished)
    BY <1>0, Concatenated
  <2> HIDE DEF c
  <2> DEFINE R == b.reserved \ TicketsOf(results, Len(results))
  <2>4. R \in SUBSET Tickets
    BY <1>0
  <2> DEFINE Y == b.ready \o results
             x == Booked(b, R, Y, b.dropped)
  <2> HIDE DEF R, Y, h, k
  <2>5. c = x
    BY <2>2 DEF R, Y
  <2>6. x.reserved = R /\ x.ready = Y /\ x.dropped = b.dropped
    BY BookedFields
  <2>7. x \in Buffers
    <3>1. Y \in Seq(Finished) /\ R \in SUBSET Tickets /\ b.dropped \in Nat
      BY <2>3, <2>4, <1>0 DEF Y
    <3> QED BY <3>1, BookedFields
  <2> HIDE DEF x
  <2> QED BY <2>5, <2>6, <2>7 DEF R, Y
<1>4. TicketsOf(results, Len(results)) = Tasked(ToSet(results))
  BY <1>0 DEF TicketsOf, Tasked, ToSet
<1>5. FailedIn(replies, Len(replies)) = ToSet(Tasks(replies))
  BY <1>0 DEF FailedIn, ToSet, Tasks
<1>6. ToSet(Tasks(replies)) \subseteq c.reserved
  <2>1. \A g \in ToSet(results) : \A t \in ToSet(Tasks(replies)) : Task(g) # t
    BY DEF Apart, Task
  <2>2. Tasked(ToSet(results)) \cap ToSet(Tasks(replies)) = {}
    BY <2>1 DEF Tasked
  <2>3. c.reserved = b.reserved \ Tasked(ToSet(results))
    BY <1>3, <1>4
  <2> HIDE DEF c
  <2> QED BY <2>2, <2>3
<1>7. Answers(k, c, replies)
  <2> HIDE DEF c
  <2> QED BY <1>3, <1>6, AnswersAll
<1>8. Pumped(b) = k[Len(replies)]
  <2>1. \A f : Admits(f, b, results) => f = h
    <3> HIDE DEF h
    <3> QED BY <1>0, <1>1, AdmitsOnce
  <2>2. \A f : Answers(f, c, replies) => f = k
    <3> HIDE DEF k, c
    <3> QED BY <1>0, <1>7, AnswersOnce
  <2> HIDE DEF h, c, k
  <2>3. Answers(k, h[Len(results)], replies) /\ \A f : Answers(f, h[Len(results)], replies) => f = k
    BY <1>2, <1>7, <2>2
  <2> QED BY <1>1, <2>1, <2>3, PumpedIs
<1>9. k[Len(replies)] = Answered(c, replies, Len(replies))
  BY <1>0
<1>10. Answered(c, replies, Len(replies)) = Delivered(b, results, replies)
  <2> DEFINE F == ToSet(Tasks(replies))
             T == Tasked(ToSet(results))
             Y == b.ready \o results
             n == Len(replies)
  <2>1. c = Booked(b, b.reserved \ T, Y, b.dropped)
    <3>1. SubSeq(results, 1, Len(results)) = results
      BY <1>0
    <3> QED BY <3>1, <1>4 DEF Admitted
  <2>2. Answered(c, replies, n) = Booked(c, c.reserved \ F, c.ready, c.dropped + n)
    BY <1>5 DEF Answered
  <2>3. c.reserved \ F = b.reserved \ (T \cup F)
    BY <1>3, <1>4
  <2>4. c.ready = Y /\ c.dropped = b.dropped
    BY <1>3
  <2> HIDE DEF c, F, T, Y, n
  <2>5. Answered(c, replies, n) = Booked(c, b.reserved \ (T \cup F), Y, b.dropped + n)
    BY <2>2, <2>3, <2>4
  <2>6. Booked(c, b.reserved \ (T \cup F), Y, b.dropped + n)
          = Booked(b, b.reserved \ (T \cup F), Y, b.dropped + n)
    BY <2>1 DEF Booked, Buffers
  <2> QED BY <2>5, <2>6 DEF Delivered, F, T, Y, n
<1> QED BY <1>8, <1>9, <1>10

\* AsyncRuntime.pump, when the reply is the position of the source.
LEMMA PumpedSnapshot ==
  ASSUME NEW b \in Buffers, NEW position, results = <<>>, replies = <<Answer(position)>>
  PROVE  Pumped(b) = [b EXCEPT !.mail = position]
<1> DEFINE h == [n \in 0 .. 0 |-> b]
           c == [b EXCEPT !.mail = position]
           k == [n \in 0 .. 1 |-> IF n = 0 THEN b ELSE c]
<1>0. Len(results) = 0 /\ Len(replies) = 1 /\ replies[1] = Answer(position)
  OBVIOUS
<1>1. Admits(h, b, results)
  <2>1. h = [n \in 0 .. 0 |-> IF n = 0 THEN b ELSE Accept(h[n - 1], results[n])]
    OBVIOUS
  <2> QED BY <2>1, <1>0 DEF Admits
<1>2. Reply(b, Answer(position)) = c
  BY DEF Reply, Answer
<1>3. Answers(k, b, replies)
  <2>1. k[0] = b /\ k[1] = c
    OBVIOUS
  <2>2. \A n \in 0 .. 1 : k[n] = IF n = 0 THEN b ELSE Reply(k[n - 1], replies[n])
    <3>1. \A n \in 0 .. 1 : n = 0 \/ (n = 1 /\ n - 1 = 0)
      OBVIOUS
    <3> HIDE DEF k
    <3> QED BY <3>1, <2>1, <1>0, <1>2
  <2>3. k = [n \in 0 .. 1 |-> k[n]]
    OBVIOUS
  <2> HIDE DEF k
  <2>4. k = [n \in 0 .. 1 |-> IF n = 0 THEN b ELSE Reply(k[n - 1], replies[n])]
    BY <2>2, <2>3
  <2> QED BY <2>4, <1>0 DEF Answers
<1>4. h[Len(results)] = b /\ k[Len(replies)] = c
  BY <1>0
<1>5. Pumped(b) = k[Len(replies)]
  <2> HIDE DEF h, k, c
  <2>1. \A f : Admits(f, b, results) => f = h
    BY <1>0, <1>1, AdmitsOnce
  <2>2. \A f : Answers(f, b, replies) => f = k
    BY <1>0, <1>3, AnswersOnce
  <2>3. Answers(k, h[Len(results)], replies) /\ \A f : Answers(f, h[Len(results)], replies) => f = k
    BY <1>3, <1>4, <2>2
  <2> QED BY <1>1, <2>1, <2>3, PumpedIs
<1> QED BY <1>4, <1>5

\* What there is to know of a buffer c that a pump makes of b.
Delivery(b, c, pi, wo, rs) ==
  /\ Book(c) /\ Flown(c, pi, wo, <<>>, <<>>)
  /\ c.next = b.next /\ c.selected = b.selected /\ c.consumed = b.consumed
  /\ c.reserved \subseteq b.reserved
  /\ ToSet(c.ready) = ToSet(b.ready) \cup ToSet(rs)
  /\ Len(b.ready) <= Len(c.ready)
  /\ \A i \in 1 .. Len(b.ready) : c.ready[i] = b.ready[i]

\* Two sequences with identities apart, one after the other.
LEMMA OneEachConcat ==
  ASSUME NEW S, NEW s \in Seq(S), NEW t \in Seq(S), OneEach(s), OneEach(t),
         Apart(ToSet(t), ToSet(s))
  PROVE  OneEach(s \o t)
<1>1. /\ s \o t \in Seq(S) /\ Len(s \o t) = Len(s) + Len(t)
      /\ \A i \in 1 .. Len(s) : (s \o t)[i] = s[i]
      /\ \A i \in 1 .. Len(t) : (s \o t)[Len(s) + i] = t[i]
  BY Concatenated
<1>2. Len(s) \in Nat /\ Len(t) \in Nat /\ DOMAIN s = 1 .. Len(s) /\ DOMAIN t = 1 .. Len(t)
      /\ DOMAIN (s \o t) = 1 .. Len(s) + Len(t)
  BY <1>1
<1> DEFINE u == s \o t
<1>3. \A i \in 1 .. Len(s) : s[i] \in ToSet(s)
  BY <1>2 DEF ToSet
<1>4. \A i \in 1 .. Len(t) : t[i] \in ToSet(t)
  BY <1>2 DEF ToSet
<1>5. ASSUME NEW i \in 1 .. Len(s) + Len(t)
      PROVE  \/ i \in 1 .. Len(s) /\ u[i] = s[i]
             \/ i - Len(s) \in 1 .. Len(t) /\ u[i] = t[i - Len(s)]
  <2>1. i \in 1 .. Len(s) \/ (i - Len(s) \in 1 .. Len(t) /\ i = Len(s) + (i - Len(s)))
    BY <1>2
  <2> HIDE DEF u
  <2> QED BY <2>1, <1>1 DEF u
<1> HIDE DEF u
<1>6. ASSUME NEW i \in 1 .. Len(s) + Len(t), NEW j \in 1 .. Len(s) + Len(t), u[i].id = u[j].id
      PROVE  i = j
  <2>0. i \in Int /\ j \in Int /\ Len(s) \in Int
    BY <1>2
  <2>1. CASE i \in 1 .. Len(s) /\ u[i] = s[i] /\ j \in 1 .. Len(s) /\ u[j] = s[j]
    BY <2>1, <1>2, <1>6 DEF OneEach
  <2>2. CASE /\ i - Len(s) \in 1 .. Len(t) /\ u[i] = t[i - Len(s)]
             /\ j - Len(s) \in 1 .. Len(t) /\ u[j] = t[j - Len(s)]
    <3>1. i - Len(s) = j - Len(s)
      BY <2>2, <1>2, <1>6 DEF OneEach
    <3> QED BY <3>1, <2>0
  <2>3. CASE i \in 1 .. Len(s) /\ u[i] = s[i] /\ j - Len(s) \in 1 .. Len(t) /\ u[j] = t[j - Len(s)]
    BY <2>3, <1>3, <1>4, <1>6 DEF Apart
  <2>4. CASE j \in 1 .. Len(s) /\ u[j] = s[j] /\ i - Len(s) \in 1 .. Len(t) /\ u[i] = t[i - Len(s)]
    BY <2>4, <1>3, <1>4, <1>6 DEF Apart
  <2> QED BY <1>5, <2>1, <2>2, <2>3, <2>4
<1> QED BY <1>2, <1>6 DEF OneEach, u

\* The tasks of orders or failures, in their order.
LEMMA TasksOf ==
  ASSUME NEW K, NEW ms \in Seq([kind : K, task : Tickets])
  PROVE  Tasks(ms) \in Seq(Tickets) /\ Len(Tasks(ms)) = Len(ms)
<1> DEFINE M == [kind : K, task : Tickets]
<1>3. \A m \in M : m.task \in Tickets
  OBVIOUS
<1> HIDE DEF M
<1>1. Len(ms) \in Nat /\ DOMAIN ms = 1 .. Len(ms) /\ \A i \in 1 .. Len(ms) : ms[i].task \in Tickets
  <2>1. ms \in Seq(M)
    BY DEF M
  <2> QED BY <2>1, <1>3
<1>2. Tasks(ms) = [i \in 1 .. Len(ms) |-> ms[i].task]
  BY <1>1 DEF Tasks
<1> QED BY <1>1, <1>2

\* No message, no task.
LEMMA NoTasks == Tasks(<<>>) = <<>> /\ OneEach(<<>>) /\ ToSet(Tasks(<<>>)) = {}
<1>1. DOMAIN <<>> = {}
  OBVIOUS
<1>2. Tasks(<<>>) = <<>>
  BY DEF Tasks
<1>3. OneEach(<<>>)
  BY DEF OneEach
<1> QED BY <1>2, <1>3, NothingIn

\* The buffer after a pump keeps its books: a result moves a reservation to a
\* ready group, a failure moves one to the dropped.
LEMMA DeliveredBook ==
  ASSUME NEW b, Book(b), NEW pi, NEW wo, NEW rs, NEW rp, Flown(b, pi, wo, rs, rp)
  PROVE  /\ Book(Delivered(b, rs, rp))
         /\ ToSet(Delivered(b, rs, rp).ready) = ToSet(b.ready) \cup ToSet(rs)
         /\ Delivered(b, rs, rp).ready = b.ready \o rs
         /\ Delivered(b, rs, rp).reserved = b.reserved \ (Tasked(ToSet(rs)) \cup ToSet(Tasks(rp)))
<1>1. /\ b \in Buffers /\ b.reserved \in SUBSET Tickets /\ b.ready \in Seq(Finished)
      /\ b.dropped \in Nat /\ b.consumed \in Nat /\ b.next \in Nat /\ IsFiniteSet(b.reserved)
  BY DEF Book, Buffers
<1>2. rs \in Seq(Finished) /\ rp \in Seq(Failures) /\ OneEach(rs) /\ OneEach(Tasks(rp))
  BY DEF Flown
<1>3. Apart(ToSet(rs), ToSet(Tasks(rp))) /\ Apart(ToSet(rs), ToSet(b.ready))
  BY DEF Flown, Claims
<1>4. Tasked(ToSet(rs)) \subseteq b.reserved /\ ToSet(Tasks(rp)) \subseteq b.reserved
  BY DEF Flown, Tasked
<1>5. /\ b.ready \o rs \in Seq(Finished) /\ Len(b.ready \o rs) = Len(b.ready) + Len(rs)
      /\ ToSet(b.ready \o rs) = ToSet(b.ready) \cup ToSet(rs)
  BY <1>1, <1>2, Concatenated
<1>6. OneEach(b.ready \o rs)
  BY <1>1, <1>2, <1>3, OneEachConcat DEF Book
<1>7. Len(rp) \in Nat /\ Len(rs) \in Nat /\ Len(b.ready) \in Nat
  BY <1>1, <1>2
<1> DEFINE G == Tasked(ToSet(rs))
           F == ToSet(Tasks(rp))
           R == b.reserved \ (G \cup F)
           Y == b.ready \o rs
           n == b.dropped + Len(rp)
           c == Delivered(b, rs, rp)
<1>8. IsFiniteSet(G) /\ Cardinality(G) = Len(rs)
  <2>1. IsFiniteSet(ToSet(rs)) /\ Cardinality(ToSet(rs)) = Len(rs)
    BY <1>2, SetOfSeq
  <2>2. Unique(ToSet(rs))
    BY <1>2 DEF OneEach, Unique, ToSet
  <2>3. /\ IsFiniteSet({Task(x) : x \in ToSet(rs)})
        /\ Cardinality({Task(x) : x \in ToSet(rs)}) = Cardinality(ToSet(rs))
    BY <2>1, <2>2, TaskCount
  <2> QED BY <2>1, <2>3 DEF Tasked
<1>9. IsFiniteSet(F) /\ Cardinality(F) = Len(rp)
  <2>1. Tasks(rp) \in Seq(Tickets) /\ Len(Tasks(rp)) = Len(rp)
    BY <1>2, TasksOf DEF Failures
  <2> QED BY <2>1, <1>2, SetOfSeq
<1>10. G \cap F = {}
  <2>1. \A g \in ToSet(rs) : \A t \in F : Task(g) # t
    BY <1>3 DEF Apart, Task
  <2> QED BY <2>1 DEF Tasked
<1>11. /\ IsFiniteSet(R) /\ Cardinality(R) \in Nat
       /\ Cardinality(R) = Cardinality(b.reserved) - (Len(rs) + Len(rp))
       /\ Cardinality(b.reserved) \in Nat
  <2> HIDE DEF G, F
  <2>1. Cardinality(G \cup F) = Len(rs) + Len(rp)
    BY <1>8, <1>9, <1>10, DisjointCount
  <2>2. G \cup F \in SUBSET b.reserved
    BY <1>4 DEF G, F
  <2>3. /\ IsFiniteSet(b.reserved \ (G \cup F))
        /\ Cardinality(b.reserved \ (G \cup F)) = Cardinality(b.reserved) - Cardinality(G \cup F)
        /\ Cardinality(b.reserved) \in Nat /\ Cardinality(b.reserved \ (G \cup F)) \in Nat
    BY <2>2, <1>1, RestCount
  <2> QED BY <2>1, <2>3
<1>12. R \in SUBSET Tickets
  BY <1>1
<1>13. /\ c.reserved = R /\ c.ready = Y /\ c.dropped = n /\ c.next = b.next /\ c.consumed = b.consumed
       /\ c \in Buffers
  <2>1. Y \in Seq(Finished) /\ n \in Nat
    BY <1>1, <1>5, <1>7
  <2>2. c = Booked(b, R, Y, n)
    BY DEF Delivered
  <2> HIDE DEF c, R, Y, n
  <2> DEFINE x == Booked(b, R, Y, n)
  <2>3. /\ x.reserved = R /\ x.ready = Y /\ x.dropped = n /\ x.next = b.next /\ x.consumed = b.consumed
    BY <1>1, BookedFields
  <2>4. x \in Buffers
    BY <1>1, <1>12, <2>1, BookedFields
  <2> HIDE DEF x
  <2>5. c = x
    BY <2>2 DEF x
  <2> QED BY <2>3, <2>4, <2>5
<1>14. \A x \in R \cup ToSet(Y) : x.id < b.next
  <2>1. \A x \in b.reserved \cup ToSet(b.ready) : x.id < b.next
    BY DEF Book
  <2>2. \A g \in ToSet(rs) : g.id < b.next
    <3> TAKE g \in ToSet(rs)
    <3>1. Task(g) \in b.reserved
      BY DEF Flown
    <3>2. Task(g).id = g.id
      BY DEF Task
    <3>3. Task(g).id < b.next
      BY <3>1, <2>1
    <3> QED BY <3>2, <3>3
  <2> QED BY <2>1, <2>2, <1>5
<1>15. c.next = c.consumed + c.dropped + Len(c.ready) + Cardinality(c.reserved)
  <2>1. b.next = b.consumed + b.dropped + Len(b.ready) + Cardinality(b.reserved)
    BY DEF Book
  <2>2. Len(Y) = Len(b.ready) + Len(rs)
    BY <1>5
  <2>3. n = b.dropped + Len(rp)
    OBVIOUS
  <2> HIDE DEF c, R, Y, n
  <2>4. c.next = b.next /\ c.consumed = b.consumed /\ c.dropped = b.dropped + Len(rp)
    BY <2>3, <1>13
  <2>5. Len(c.ready) = Len(b.ready) + Len(rs)
    BY <2>2, <1>13
  <2>6. Cardinality(c.reserved) = Cardinality(b.reserved) - (Len(rs) + Len(rp))
    BY <1>11, <1>13
  <2> QED BY SMTT(30), <2>1, <2>4, <2>5, <2>6, <1>1, <1>7, <1>11
<1>16. Cardinality(c.reserved) <= MaxInflight /\ Cardinality(c.reserved) + Len(c.ready) <= MaxBuffer
  <2>1. Cardinality(b.reserved) <= MaxInflight /\ Cardinality(b.reserved) + Len(b.ready) <= MaxBuffer
    BY DEF Book
  <2>2. Len(Y) = Len(b.ready) + Len(rs)
    BY <1>5
  <2>3. MaxInflight \in Nat /\ MaxBuffer \in Nat
    BY CapacityAssumption
  <2> HIDE DEF c, R, Y, n
  <2> QED BY <2>1, <2>2, <2>3, <1>7, <1>11, <1>13
<1>17. Book(c)
  <2> HIDE DEF c, R, Y, n
  <2>1. IsFiniteSet(c.reserved) /\ OneEach(c.ready)
    BY <1>6, <1>11, <1>13 DEF Y
  <2>2. \A x \in c.reserved \cup ToSet(c.ready) : x.id < c.next
    BY <1>13, <1>14
  <2> QED BY <2>1, <2>2, <1>13, <1>15, <1>16 DEF Book
<1> HIDE DEF c
<1> QED BY <1>5, <1>13, <1>17 DEF c

\* The rest of what a pump keeps, the identities in flight included.
LEMMA DeliveredIs ==
  ASSUME NEW b, Book(b), NEW pi, NEW wo, NEW rs, NEW rp, Flown(b, pi, wo, rs, rp)
  PROVE  Delivery(b, Delivered(b, rs, rp), pi, wo, rs)
<1> DEFINE c == Delivered(b, rs, rp)
           G == Tasked(ToSet(rs))
           F == ToSet(Tasks(rp))
<1>1. /\ Book(c) /\ ToSet(c.ready) = ToSet(b.ready) \cup ToSet(rs)
      /\ c.ready = b.ready \o rs /\ c.reserved = b.reserved \ (G \cup F)
  BY DeliveredBook
<1>2. b.ready \in Seq(Finished) /\ rs \in Seq(Finished) /\ b \in Buffers
  BY DEF Book, Buffers, Flown
<1>3. /\ Len(c.ready) = Len(b.ready) + Len(rs) /\ Len(rs) \in Nat /\ Len(b.ready) \in Nat
      /\ \A i \in 1 .. Len(b.ready) : c.ready[i] = b.ready[i]
  BY <1>1, <1>2, Concatenated
<1>4. c.next = b.next /\ c.selected = b.selected /\ c.consumed = b.consumed
  BY <1>2, BookedFields DEF Delivered
<1> HIDE DEF c
<1>5. Flown(c, pi, wo, <<>>, <<>>)
  <2>1. /\ pi \in Seq(Orders) /\ wo \in SUBSET Sampled /\ OneEach(Tasks(pi)) /\ Unique(wo)
        /\ ToSet(Tasks(pi)) \subseteq b.reserved /\ \A g \in wo : Task(g) \in b.reserved
    BY DEF Flown
  <2>2. /\ <<>> \in Seq(Finished) /\ <<>> \in Seq(Failures) /\ OneEach(<<>>) /\ OneEach(Tasks(<<>>))
        /\ ToSet(<<>>) = {} /\ ToSet(Tasks(<<>>)) = {}
    BY NothingIn, NoTasks
  <2> DEFINE P == ToSet(Tasks(pi))
             Q == ToSet(rs)
             Y == ToSet(b.ready)
             Z == ToSet(c.ready)
  <2>3. Claims(P, wo, Q, F, Y)
    BY DEF Flown
  <2>4. Z = Y \cup Q
    BY <1>1
  <2> HIDE DEF P, Q, Y, F, Z
  <2>5. Claims(P, wo, {}, {}, Z)
    BY <2>3, <2>4 DEF Claims, Apart
  <2>6. P \subseteq c.reserved
    <3>1. P \cap G = {}
      <4>1. \A t \in P : \A g \in Q : t # Task(g)
        BY <2>3 DEF Claims, Apart, Task
      <4> QED BY <4>1 DEF Q, Tasked
    <3>2. P \cap F = {}
      BY <2>3 DEF Claims, Apart
    <3>3. P \subseteq b.reserved
      BY <2>1 DEF P
    <3> HIDE DEF G
    <3> QED BY <3>1, <3>2, <3>3, <1>1
  <2>7. \A g \in wo : Task(g) \in c.reserved
    <3> SUFFICES ASSUME NEW g \in wo PROVE Task(g) \in c.reserved
      OBVIOUS
    <3>1. \A h \in Q : g.id # h.id
      BY <2>3 DEF Claims, Apart
    <3>2. \A t \in F : g.id # t.id
      BY <2>3 DEF Claims, Apart
    <3>3. Task(g) \notin G
      BY <3>1 DEF Tasked, Task, Q
    <3>4. Task(g) \notin F
      BY <3>2 DEF Task
    <3>5. Task(g) \in b.reserved
      BY <2>1
    <3> HIDE DEF G
    <3> QED BY <3>3, <3>4, <3>5, <1>1
  <2> QED BY <2>1, <2>2, <2>5, <2>6, <2>7 DEF Flown, P, Z
<1>6. c.reserved \subseteq b.reserved
  BY <1>1
<1>7. Len(b.ready) <= Len(c.ready)
  BY <1>3
<1>8. Delivery(b, c, pi, wo, rs)
  BY <1>1, <1>3, <1>4, <1>5, <1>6, <1>7 DEF Delivery
<1> QED BY <1>8 DEF c

\* AsyncRuntime.pump, with tasks and failures on the pipes.
LEMMA PumpKeeps ==
  ASSUME NEW b, Book(b), Flown(b, pipe, working, results, replies),
         AllAged(ToSet(results), served)
  PROVE  Delivery(b, Pumped(b), pipe, working, results)
<1>1. \A g \in ToSet(results) : Task(g) \in b.reserved /\ g.src <= g.old
  <2> SUFFICES ASSUME NEW g \in ToSet(results) PROVE Task(g) \in b.reserved /\ g.src <= g.old
    OBVIOUS
  <2>1. results \in Seq(Finished) /\ Task(g) \in b.reserved
    BY DEF Flown
  <2>2. g \in Finished
    BY <2>1 DEF ToSet
  <2>3. g.old # NoSource
    BY <2>2 DEF Finished, NoSource
  <2>4. Aged(g, served)
    BY DEF AllAged
  <2> QED BY <2>1, <2>3, <2>4 DEF Aged
<1>2. Pumped(b) = Delivered(b, results, replies)
  BY <1>1, PumpedDelivers DEF Flown, Book, Claims
<1> QED BY <1>2, DeliveredIs

----------------------------------------------------------------------------
(***************************************************************************)
(* What a grant does to the buffer and to the pipe.                        *)
(***************************************************************************)
\* Places and elements of a sequence.
LEMMA ElementsOf ==
  ASSUME NEW S, NEW s \in Seq(S)
  PROVE  /\ Len(s) \in Nat /\ DOMAIN s = 1 .. Len(s)
         /\ \A i \in 1 .. Len(s) : s[i] \in ToSet(s) /\ s[i] \in S
         /\ \A x \in ToSet(s) : x \in S /\ \E i \in 1 .. Len(s) : x = s[i]
<1>1. Len(s) \in Nat /\ DOMAIN s = 1 .. Len(s) /\ \A i \in 1 .. Len(s) : s[i] \in S
  OBVIOUS
<1> QED BY <1>1 DEF ToSet

\* What the books say of the types, for use where Book stays closed.
LEMMA BookFacts ==
  ASSUME NEW b, Book(b)
  PROVE  /\ b \in Buffers /\ b.next \in Nat /\ b.consumed \in Nat /\ b.dropped \in Nat
         /\ b.ready \in Seq(Finished) /\ Len(b.ready) \in Nat /\ DOMAIN b.ready = 1 .. Len(b.ready)
         /\ b.reserved \subseteq Tickets /\ IsFiniteSet(b.reserved) /\ Cardinality(b.reserved) \in Nat
         /\ ToSet(b.ready) \subseteq Finished
         /\ b.mail = None /\ b.fault = FALSE
         /\ \A x \in b.reserved \cup ToSet(b.ready) : x.id \in Nat /\ x.id < b.next
<1>1. /\ b \in Buffers /\ b.next \in Nat /\ b.consumed \in Nat /\ b.dropped \in Nat
      /\ b.ready \in Seq(Finished) /\ b.reserved \subseteq Tickets /\ IsFiniteSet(b.reserved)
      /\ b.mail = None /\ b.fault = FALSE
  BY DEF Book, Buffers
<1>2. Len(b.ready) \in Nat /\ DOMAIN b.ready = 1 .. Len(b.ready) /\ ToSet(b.ready) \subseteq Finished
  BY <1>1, ElementsOf
<1>3. Cardinality(b.reserved) \in Nat
  BY <1>1, FS_CardinalityType
<1>4. \A x \in Tickets \cup Finished : x.id \in Nat
  BY DEF Tickets, Finished
<1>5. \A x \in b.reserved \cup ToSet(b.ready) : x.id < b.next
  BY DEF Book
<1> QED BY <1>1, <1>2, <1>3, <1>4, <1>5

OrdersFor(ts) == [i \in 1 .. Len(ts) |-> [kind |-> "task", task |-> ts[i]]]

\* The room a grant finds is within both limits.
LEMMA Room ==
  ASSUME NEW b, Book(b), NEW src \in Nat
  PROVE  \E room \in Nat :
           /\ Granted(b, src) = [i \in 1 .. room |-> [id |-> b.next + i - 1, src |-> src]]
           /\ Cardinality(b.reserved) + room <= MaxInflight
           /\ Cardinality(b.reserved) + room + Len(b.ready) <= MaxBuffer
<1> DEFINE x == MaxBuffer - Cardinality(b.reserved) - Len(b.ready)
           y == MaxInflight - Cardinality(b.reserved)
           room == CHOOSE k \in Capacity(b) : \A j \in Capacity(b) : k <= j
<1>1. MaxInflight \in Nat /\ MaxBuffer \in Nat
  BY CapacityAssumption
<1>2. Cardinality(b.reserved) \in Nat /\ Len(b.ready) \in Nat
  BY FS_CardinalityType DEF Book, Buffers
<1>3. x \in Nat /\ y \in Nat
  BY <1>1, <1>2 DEF Book
<1>4. Capacity(b) = {x, y}
  BY DEF Capacity
<1>5. room \in {x, y} /\ room <= x /\ room <= y
  <2> HIDE DEF x, y
  <2>1. \E k \in Capacity(b) : \A j \in Capacity(b) : k <= j
    <3>1. CASE x <= y
      BY <3>1, <1>3, <1>4
    <3>2. CASE y <= x
      BY <3>2, <1>3, <1>4
    <3> QED BY <3>1, <3>2, <1>3
  <2>2. room \in Capacity(b) /\ \A j \in Capacity(b) : room <= j
    BY <2>1
  <2> HIDE DEF room
  <2> QED BY <2>2, <1>4
<1>6. Granted(b, src) = [i \in 1 .. room |-> [id |-> b.next + i - 1, src |-> src]]
  BY DEF Granted
<1>7. room \in Nat
  BY <1>3, <1>5
<1> HIDE DEF room
<1>8. /\ Cardinality(b.reserved) + room <= MaxInflight
      /\ Cardinality(b.reserved) + room + Len(b.ready) <= MaxBuffer
  BY <1>1, <1>2, <1>5, <1>7
<1> QED BY <1>6, <1>7, <1>8

\* The tasks of a grant are new.
LEMMA GrantedAre ==
  ASSUME NEW b, Book(b), NEW src \in Nat
  PROVE  LET ts == Granted(b, src)
         IN  /\ ts \in Seq(Tickets) /\ OneEach(ts)
             /\ \A t \in ToSet(ts) : b.next <= t.id /\ t.id < b.next + Len(ts) /\ t.src = src
             /\ Cardinality(b.reserved) + Len(ts) <= MaxInflight
             /\ Cardinality(b.reserved) + Len(ts) + Len(b.ready) <= MaxBuffer
<1> DEFINE ts == Granted(b, src)
<1>1. PICK room \in Nat :
        /\ ts = [i \in 1 .. room |-> [id |-> b.next + i - 1, src |-> src]]
        /\ Cardinality(b.reserved) + room <= MaxInflight
        /\ Cardinality(b.reserved) + room + Len(b.ready) <= MaxBuffer
  BY Room
<1> HIDE DEF ts
<1>2. b.next \in Nat
  BY DEF Book, Buffers
<1>3. \A i \in 1 .. room : [id |-> b.next + i - 1, src |-> src] \in Tickets
  BY <1>2 DEF Tickets
<1>4. ts \in Seq(Tickets) /\ Len(ts) = room /\ DOMAIN ts = 1 .. room
  BY <1>1, <1>3
<1>5. \A i \in 1 .. room : ts[i].id = b.next + i - 1 /\ ts[i].src = src
  BY <1>1
<1>6. OneEach(ts)
  <2> SUFFICES ASSUME NEW i \in 1 .. room, NEW j \in 1 .. room, ts[i].id = ts[j].id
               PROVE  i = j
    BY <1>4 DEF OneEach
  <2>1. b.next + i - 1 = b.next + j - 1
    BY <1>5
  <2> QED BY <2>1, <1>2
<1>7. \A t \in ToSet(ts) : b.next <= t.id /\ t.id < b.next + Len(ts) /\ t.src = src
  <2> SUFFICES ASSUME NEW i \in 1 .. room
               PROVE  b.next <= ts[i].id /\ ts[i].id < b.next + room /\ ts[i].src = src
    BY <1>4 DEF ToSet
  <2>1. b.next <= b.next + i - 1 /\ b.next + i - 1 < b.next + room
    BY <1>2
  <2> QED BY <2>1, <1>5
<1> QED BY <1>1, <1>4, <1>6, <1>7 DEF ts

\* The orders of a grant carry its tickets.
LEMMA OrdersAre ==
  ASSUME NEW ts \in Seq(Tickets)
  PROVE  /\ OrdersFor(ts) \in Seq(Orders) /\ Len(OrdersFor(ts)) = Len(ts)
         /\ Tasks(OrdersFor(ts)) = ts
<1>1. Len(ts) \in Nat /\ DOMAIN ts = 1 .. Len(ts) /\ \A i \in 1 .. Len(ts) : ts[i] \in Tickets
  OBVIOUS
<1>2. \A i \in 1 .. Len(ts) : [kind |-> "task", task |-> ts[i]] \in Orders
  BY <1>1 DEF Orders
<1>3. OrdersFor(ts) \in Seq(Orders) /\ Len(OrdersFor(ts)) = Len(ts) /\ DOMAIN OrdersFor(ts) = 1 .. Len(ts)
  BY <1>1, <1>2 DEF OrdersFor
<1>4. \A i \in 1 .. Len(ts) : OrdersFor(ts)[i].task = ts[i]
  BY DEF OrdersFor
<1>5. Tasks(OrdersFor(ts)) = [i \in 1 .. Len(ts) |-> ts[i]]
  BY <1>3, <1>4 DEF Tasks
<1> QED BY <1>1, <1>3, <1>5

\* The tasks of two pipes in a row.
LEMMA TasksConcat ==
  ASSUME NEW pi \in Seq(Orders), NEW q \in Seq(Orders)
  PROVE  Tasks(pi \o q) = Tasks(pi) \o Tasks(q)
<1>1. /\ pi \o q \in Seq(Orders) /\ Len(pi \o q) = Len(pi) + Len(q)
      /\ \A i \in 1 .. Len(pi) : (pi \o q)[i] = pi[i]
      /\ \A i \in 1 .. Len(q) : (pi \o q)[Len(pi) + i] = q[i]
  BY Concatenated
<1>2. Len(pi) \in Nat /\ Len(q) \in Nat /\ DOMAIN (pi \o q) = 1 .. Len(pi) + Len(q)
      /\ DOMAIN pi = 1 .. Len(pi) /\ DOMAIN q = 1 .. Len(q)
  BY <1>1
<1>3. /\ Tasks(pi) \in Seq(Tickets) /\ Len(Tasks(pi)) = Len(pi)
      /\ Tasks(q) \in Seq(Tickets) /\ Len(Tasks(q)) = Len(q)
  BY TasksOf DEF Orders
<1> DEFINE u == Tasks(pi \o q)
           v == Tasks(pi) \o Tasks(q)
<1>4. /\ v \in Seq(Tickets) /\ Len(v) = Len(pi) + Len(q)
      /\ \A i \in 1 .. Len(pi) : v[i] = Tasks(pi)[i]
      /\ \A i \in 1 .. Len(q) : v[Len(pi) + i] = Tasks(q)[i]
  <2>1. /\ v \in Seq(Tickets) /\ Len(v) = Len(Tasks(pi)) + Len(Tasks(q))
        /\ \A i \in 1 .. Len(Tasks(pi)) : v[i] = Tasks(pi)[i]
        /\ \A i \in 1 .. Len(Tasks(q)) : v[Len(Tasks(pi)) + i] = Tasks(q)[i]
    <3> DEFINE A == Tasks(pi)
               B == Tasks(q)
    <3>1. A \in Seq(Tickets) /\ B \in Seq(Tickets)
      BY <1>3
    <3> HIDE DEF A, B
    <3>2. /\ A \o B \in Seq(Tickets) /\ Len(A \o B) = Len(A) + Len(B)
          /\ \A i \in 1 .. Len(A) : (A \o B)[i] = A[i]
          /\ \A i \in 1 .. Len(B) : (A \o B)[Len(A) + i] = B[i]
      BY <3>1, Concatenated
    <3> QED BY <3>2 DEF A, B
  <2> HIDE DEF v
  <2> QED BY <2>1, <1>3
<1>5. \A i \in 1 .. Len(pi) : Tasks(pi)[i] = pi[i].task
  BY <1>2 DEF Tasks
<1>6. \A i \in 1 .. Len(q) : Tasks(q)[i] = q[i].task
  BY <1>2 DEF Tasks
<1>7. u = [i \in 1 .. Len(pi) + Len(q) |-> (pi \o q)[i].task]
  BY <1>2 DEF Tasks
<1>8. DOMAIN v = 1 .. Len(pi) + Len(q) /\ v = [i \in 1 .. Len(pi) + Len(q) |-> v[i]]
  <2> HIDE DEF v
  <2> QED BY <1>2, <1>4
<1> HIDE DEF v
<1>9. ASSUME NEW i \in 1 .. Len(pi) + Len(q) PROVE (pi \o q)[i].task = v[i]
  <2>1. CASE i \in 1 .. Len(pi)
    BY <2>1, <1>1, <1>4, <1>5
  <2>2. CASE i \notin 1 .. Len(pi)
    <3>1. i - Len(pi) \in 1 .. Len(q) /\ i = Len(pi) + (i - Len(pi))
      BY <2>2, <1>2
    <3>2. (pi \o q)[i] = q[i - Len(pi)]
      BY <3>1, <1>1
    <3>3. v[i] = Tasks(q)[i - Len(pi)]
      BY <3>1, <1>4
    <3> QED BY <3>1, <3>2, <3>3, <1>6
  <2> QED BY <2>1, <2>2
<1> QED BY <1>7, <1>8, <1>9 DEF v

\* AsyncRuntime.fill, once the pump has left nothing on the way back.
Grants(b, c, pi, np, wo) ==
  /\ Book(c) /\ Flown(c, np, wo, <<>>, <<>>)
  /\ c.next - b.next = Len(np) - Len(pi)
  /\ c.ready = b.ready /\ c.selected = b.selected /\ c.consumed = b.consumed

\* The buffer after a grant keeps its books.
LEMMA FillBook ==
  ASSUME NEW b, Book(b), NEW src \in Nat
  PROVE  /\ Book(Fill(b, src))
         /\ Fill(b, src).next = b.next + Len(Granted(b, src))
         /\ Fill(b, src).reserved = b.reserved \cup ToSet(Granted(b, src))
         /\ Fill(b, src).ready = b.ready /\ Fill(b, src).selected = b.selected
         /\ Fill(b, src).consumed = b.consumed
<1> DEFINE ts == Granted(b, src)
           c == Fill(b, src)
<1>1. /\ ts \in Seq(Tickets) /\ OneEach(ts)
      /\ \A t \in ToSet(ts) : b.next <= t.id /\ t.id < b.next + Len(ts) /\ t.src = src
      /\ Cardinality(b.reserved) + Len(ts) <= MaxInflight
      /\ Cardinality(b.reserved) + Len(ts) + Len(b.ready) <= MaxBuffer
  BY GrantedAre
<1>2. c = [b EXCEPT !.next = b.next + Len(ts), !.reserved = b.reserved \cup ToSet(ts)]
  BY DEF Fill, Reserve
<1> HIDE DEF ts, c
<1>3. /\ b \in Buffers /\ b.next \in Nat /\ b.consumed \in Nat /\ b.dropped \in Nat /\ b.ready \in Seq(Finished)
      /\ Len(b.ready) \in Nat /\ Len(ts) \in Nat /\ b.reserved \subseteq Tickets
      /\ IsFiniteSet(b.reserved)
  BY <1>1, ElementsOf, BookFacts
<1>4. ToSet(ts) \subseteq Tickets /\ IsFiniteSet(ToSet(ts)) /\ Cardinality(ToSet(ts)) = Len(ts)
  <2>1. ToSet(ts) \subseteq Tickets
    BY <1>1 DEF ToSet
  <2> QED BY <2>1, <1>1, SetOfSeq
<1>5. \A x \in b.reserved \cup ToSet(b.ready) : x.id < b.next
  BY DEF Book
<1>6. b.reserved \cap ToSet(ts) = {}
  <2> SUFFICES ASSUME NEW t \in b.reserved, t \in ToSet(ts) PROVE FALSE
    OBVIOUS
  <2>1. t.id < b.next /\ b.next <= t.id /\ t.id \in Nat
    BY <1>1, <1>3, <1>5 DEF Tickets
  <2> QED BY <2>1, <1>3
<1>7. /\ IsFiniteSet(b.reserved \cup ToSet(ts))
      /\ Cardinality(b.reserved \cup ToSet(ts)) = Cardinality(b.reserved) + Len(ts)
      /\ Cardinality(b.reserved) \in Nat
  <2>1. /\ IsFiniteSet(b.reserved \cup ToSet(ts))
        /\ Cardinality(b.reserved \cup ToSet(ts)) = Cardinality(b.reserved) + Cardinality(ToSet(ts))
        /\ Cardinality(b.reserved) \in Nat
    BY <1>3, <1>4, <1>6, DisjointCount
  <2> QED BY <2>1, <1>4
<1>8. /\ c.next = b.next + Len(ts) /\ c.reserved = b.reserved \cup ToSet(ts)
      /\ c.ready = b.ready /\ c.selected = b.selected /\ c.consumed = b.consumed
      /\ c.dropped = b.dropped
  BY <1>2, <1>3 DEF Buffers
<1>9. c \in Buffers
  <2>1. b.next + Len(ts) \in Nat /\ b.reserved \cup ToSet(ts) \in SUBSET Tickets
    BY <1>3, <1>4
  <2> DEFINE n == b.next + Len(ts)
             R == b.reserved \cup ToSet(ts)
  <2> HIDE DEF n, R
  <2>2. c = [b EXCEPT !.next = n, !.reserved = R] /\ n \in Nat /\ R \in SUBSET Tickets
    BY <1>2, <2>1 DEF n, R
  <2> QED BY <2>2, <1>3 DEF Buffers
<1>10. c.next = c.consumed + c.dropped + Len(c.ready) + Cardinality(c.reserved)
  <2>1. b.next = b.consumed + b.dropped + Len(b.ready) + Cardinality(b.reserved)
    BY DEF Book
  <2>2. Cardinality(c.reserved) = Cardinality(b.reserved) + Len(ts)
    BY <1>7, <1>8
  <2> QED BY <2>1, <2>2, <1>3, <1>7, <1>8
<1>11. Cardinality(c.reserved) <= MaxInflight /\ Cardinality(c.reserved) + Len(c.ready) <= MaxBuffer
  BY <1>1, <1>7, <1>8
<1>12. \A x \in c.reserved \cup ToSet(c.ready) : x.id < c.next
  <2>1. ASSUME NEW x \in b.reserved \cup ToSet(b.ready) PROVE x.id < b.next + Len(ts)
    <3>1. x.id < b.next /\ x.id \in Nat
      BY BookFacts
    <3> QED BY <3>1, <1>3
  <2>2. \A x \in ToSet(ts) : x.id < b.next + Len(ts)
    BY <1>1
  <2> QED BY <2>1, <2>2, <1>8
<1>13. Book(c)
  <2>1. IsFiniteSet(c.reserved) /\ OneEach(c.ready)
    BY <1>7, <1>8 DEF Book
  <2> QED BY <2>1, <1>9, <1>10, <1>11, <1>12 DEF Book
<1> QED BY <1>8, <1>13 DEF c, ts

\* The tickets of a grant are held by the orders on the pipe, and by nobody else.
LEMMA FillKeeps ==
  ASSUME NEW b, Book(b), NEW pi, NEW wo, Flown(b, pi, wo, <<>>, <<>>), NEW src \in Nat
  PROVE  Grants(b, Fill(b, src), pi, pi \o OrdersFor(Granted(b, src)), wo)
<1> DEFINE ts == Granted(b, src)
           c == Fill(b, src)
           q == OrdersFor(ts)
           np == pi \o q
<1>1. /\ ts \in Seq(Tickets) /\ OneEach(ts)
      /\ \A t \in ToSet(ts) : b.next <= t.id
  BY GrantedAre
<1>2. /\ Book(c) /\ c.next = b.next + Len(ts) /\ c.reserved = b.reserved \cup ToSet(ts)
      /\ c.ready = b.ready /\ c.selected = b.selected /\ c.consumed = b.consumed
  BY FillBook
<1> HIDE DEF ts, c
<1>3. q \in Seq(Orders) /\ Len(q) = Len(ts) /\ Tasks(q) = ts
  BY <1>1, OrdersAre
<1> HIDE DEF q
<1>4. /\ pi \in Seq(Orders) /\ wo \in SUBSET Sampled /\ OneEach(Tasks(pi)) /\ Unique(wo)
      /\ ToSet(Tasks(pi)) \subseteq b.reserved
      /\ \A g \in wo : Task(g) \in b.reserved
      /\ Claims(ToSet(Tasks(pi)), wo, {}, {}, ToSet(b.ready))
  <2>1. ToSet(<<>>) = {} /\ ToSet(Tasks(<<>>)) = {}
    BY NothingIn, NoTasks
  <2> QED BY <2>1 DEF Flown
<1>5. np \in Seq(Orders) /\ Len(np) = Len(pi) + Len(ts)
  BY <1>3, <1>4, Concatenated
<1>6. Tasks(np) = Tasks(pi) \o ts
  BY <1>3, <1>4, TasksConcat
<1>7. Tasks(pi) \in Seq(Tickets)
  BY <1>4, TasksOf DEF Orders
<1> HIDE DEF np
<1>8. ToSet(Tasks(np)) = ToSet(Tasks(pi)) \cup ToSet(ts)
  BY <1>1, <1>6, <1>7, Concatenated
<1>9. \A x \in b.reserved \cup ToSet(b.ready) : x.id < b.next
  BY DEF Book
<1>10. b.next \in Nat /\ \A t \in Tickets : t.id \in Nat
  BY DEF Book, Buffers, Tickets
<1>11. \A t \in ToSet(ts) : t.id \in Nat
  BY <1>1, <1>10, ElementsOf
<1>12. \A x \in b.reserved \cup ToSet(b.ready) : x.id \in Nat
  BY BookFacts
<1>13. Apart(ToSet(ts), b.reserved) /\ Apart(ToSet(ts), ToSet(b.ready))
  <2> SUFFICES ASSUME NEW t \in ToSet(ts), NEW x \in b.reserved \cup ToSet(b.ready) PROVE t.id # x.id
    BY DEF Apart
  <2>1. b.next <= t.id /\ x.id < b.next /\ t.id \in Nat /\ x.id \in Nat
    BY <1>1, <1>9, <1>11, <1>12
  <2> QED BY <2>1, <1>10
<1>14. OneEach(Tasks(np))
  <2>1. Apart(ToSet(ts), ToSet(Tasks(pi)))
    BY <1>4, <1>13 DEF Apart
  <2> QED BY <2>1, <1>1, <1>4, <1>6, <1>7, OneEachConcat
<1>15. Apart(ToSet(ts), wo)
  <2> SUFFICES ASSUME NEW t \in ToSet(ts), NEW g \in wo PROVE t.id # g.id
    BY DEF Apart
  <2>1. Task(g) \in b.reserved /\ Task(g).id = g.id
    BY <1>4 DEF Task
  <2> QED BY <2>1, <1>13 DEF Apart
<1>16. Claims(ToSet(Tasks(np)), wo, {}, {}, ToSet(b.ready))
  BY <1>4, <1>8, <1>13, <1>15 DEF Claims, Apart
<1>17. Flown(c, np, wo, <<>>, <<>>)
  <2>1. /\ <<>> \in Seq(Finished) /\ <<>> \in Seq(Failures) /\ OneEach(<<>>) /\ OneEach(Tasks(<<>>))
        /\ ToSet(<<>>) = {} /\ ToSet(Tasks(<<>>)) = {}
    BY NothingIn, NoTasks
  <2>2. ToSet(Tasks(np)) \subseteq c.reserved /\ \A g \in wo : Task(g) \in c.reserved
    BY <1>2, <1>4, <1>8
  <2> QED BY <2>1, <2>2, <1>2, <1>4, <1>5, <1>14, <1>16 DEF Flown
<1>18. c.next - b.next = Len(np) - Len(pi)
  <2>1. Len(pi) \in Nat /\ Len(ts) \in Nat
    BY <1>1, <1>4
  <2> QED BY <2>1, <1>2, <1>5, <1>10
<1>19. Grants(b, c, pi, np, wo)
  BY <1>2, <1>17, <1>18 DEF Grants
<1> QED BY <1>19 DEF c, ts, q, np

\* A grant under the policy that is served.
LEMMA GrantDated ==
  ASSUME NEW b, Book(b), NEW src \in Nat, NEW policy, src <= policy, Dated(b.reserved, policy)
  PROVE  Dated(Fill(b, src).reserved, policy)
<1>1. \A t \in ToSet(Granted(b, src)) : t.src = src
  BY GrantedAre
<1>2. Fill(b, src).reserved = b.reserved \cup ToSet(Granted(b, src))
  BY FillBook
<1> QED BY <1>1, <1>2 DEF Dated

----------------------------------------------------------------------------
(***************************************************************************)
(* What an eviction, a lease, a commit and a rejection do to the buffer.   *)
(***************************************************************************)
\* Elements with different identities have as many identities.
LEMMA IdCount ==
  ASSUME NEW S, IsFiniteSet(S), Unique(S)
  PROVE  /\ IsFiniteSet({x.id : x \in S})
         /\ Cardinality({x.id : x \in S}) = Cardinality(S)
<1> DEFINE f == [x \in S |-> x.id]
<1>1. \A x, y \in S : f[x] = f[y] => x = y
  BY DEF Unique
<1>2. {x.id : x \in S} = {f[x] : x \in S}
  OBVIOUS
<1> HIDE DEF f
<1>3. IsFiniteSet({f[x] : x \in S}) /\ Cardinality({f[x] : x \in S}) = Cardinality(S)
  BY <1>1, ImageCount
<1> QED BY <1>2, <1>3

\* A sequence without repeated identity has elements without one.
LEMMA UniqueElements ==
  ASSUME NEW s, OneEach(s) PROVE Unique(ToSet(s))
BY DEF OneEach, Unique, ToSet

\* The buffer with fewer groups, consumed or dropped.
Sieved(b, S, k, d) ==
  [b EXCEPT !.ready = Among(@, S), !.selected = {}, !.consumed = k, !.dropped = d]

Accounts(b, S, k, d) ==
  /\ k \in Nat /\ d \in Nat
  /\ k + d = b.consumed + b.dropped + (Len(b.ready) - Len(Among(b.ready, S)))

\* Such a buffer keeps its books, if the counts make up for the groups taken out.
LEMMA SievedBook ==
  ASSUME NEW b, NEW S, NEW k, NEW d, Book(b), Accounts(b, S, k, d)
  PROVE  /\ Book(Sieved(b, S, k, d))
         /\ ToSet(Sieved(b, S, k, d).ready) = ToSet(b.ready) \cap S
         /\ Sieved(b, S, k, d).next = b.next /\ Sieved(b, S, k, d).reserved = b.reserved
         /\ Sieved(b, S, k, d).selected = {}
<1> DEFINE kept == Among(b.ready, S)
           c == Sieved(b, S, k, d)
<1>0. /\ b \in Buffers /\ b.next \in Nat /\ b.consumed \in Nat /\ b.dropped \in Nat
      /\ b.ready \in Seq(Finished) /\ Len(b.ready) \in Nat /\ DOMAIN b.ready = 1 .. Len(b.ready)
      /\ Cardinality(b.reserved) \in Nat /\ OneEach(b.ready)
  <2>1. OneEach(b.ready)
    BY DEF Book
  <2> QED BY <2>1, BookFacts
<1>1. /\ kept \in Seq(Finished) /\ Len(kept) <= Len(b.ready)
      /\ ToSet(kept) = ToSet(b.ready) \cap S /\ OneEach(kept)
  BY <1>0, AmongKeeps
<1>2. c = [b EXCEPT !.ready = kept, !.selected = {}, !.consumed = k, !.dropped = d]
  BY DEF Sieved
<1>3. k \in Nat /\ d \in Nat /\ k + d = b.consumed + b.dropped + (Len(b.ready) - Len(kept))
  BY DEF Accounts
<1> HIDE DEF kept, c
<1>4. /\ c.ready = kept /\ c.selected = {} /\ c.consumed = k /\ c.dropped = d
      /\ c.next = b.next /\ c.reserved = b.reserved
  BY <1>2, BookFacts DEF Buffers
<1>5. c \in Buffers
  <2>1. b \in Buffers
    BY BookFacts
  <2> QED BY <2>1, <1>1, <1>2, <1>3 DEF Buffers
<1>6. Len(kept) \in Nat
  BY <1>1
<1>7. c.next = c.consumed + c.dropped + Len(c.ready) + Cardinality(c.reserved)
  <2>1. b.next = b.consumed + b.dropped + Len(b.ready) + Cardinality(b.reserved)
    BY DEF Book
  <2> DEFINE r == Cardinality(b.reserved)
             m == Len(b.ready)
             l == Len(kept)
  <2>2. /\ b.next = b.consumed + b.dropped + m + r
        /\ k + d = b.consumed + b.dropped + (m - l)
        /\ r \in Nat /\ m \in Nat /\ l \in Nat
    BY <2>1, <1>0, <1>3, <1>6
  <2>3. Cardinality(c.reserved) = r /\ Len(c.ready) = l
    BY <1>4
  <2> HIDE DEF r, m, l
  <2>4. /\ b.consumed \in Nat /\ b.dropped \in Nat /\ k \in Nat /\ d \in Nat
    BY <1>0, <1>3
  <2>5. b.next = k + d + l + r
    BY <2>2, <2>4
  <2> QED BY <2>3, <2>5, <1>4
<1>8. Cardinality(c.reserved) <= MaxInflight /\ Cardinality(c.reserved) + Len(c.ready) <= MaxBuffer
  <2>1. Cardinality(b.reserved) <= MaxInflight /\ Cardinality(b.reserved) + Len(b.ready) <= MaxBuffer
    BY DEF Book
  <2>2. MaxBuffer \in Nat
    BY CapacityAssumption
  <2>3. Cardinality(c.reserved) = Cardinality(b.reserved) /\ Len(c.ready) = Len(kept)
    BY <1>4
  <2>4. Cardinality(b.reserved) + Len(kept) <= MaxBuffer
    BY <2>1, <2>2, <1>0, <1>1, <1>6
  <2> QED BY <2>1, <2>3, <2>4
<1>9. \A x \in c.reserved \cup ToSet(c.ready) : x.id < c.next
  BY <1>1, <1>4 DEF Book
<1>10. Book(c)
  BY <1>1, <1>4, <1>5, <1>7, <1>8, <1>9 DEF Book
<1> QED BY <1>1, <1>4, <1>10 DEF c

\* Groups that leave the buffer leave the exchange sound.
LEMMA FlownFewer ==
  ASSUME NEW b, NEW c, NEW pi, NEW wo, NEW rs, NEW rp, Flown(b, pi, wo, rs, rp),
         c.reserved = b.reserved, ToSet(c.ready) \subseteq ToSet(b.ready)
  PROVE  Flown(c, pi, wo, rs, rp)
<1> DEFINE P == ToSet(Tasks(pi))
           R == ToSet(rs)
           F == ToSet(Tasks(rp))
           Y == ToSet(b.ready)
           Z == ToSet(c.ready)
<1>1. Claims(P, wo, R, F, Y)
  BY DEF Flown
<1>2. Z \subseteq Y
  OBVIOUS
<1> HIDE DEF P, R, F, Y, Z
<1>3. Claims(P, wo, R, F, Z)
  BY <1>1, <1>2 DEF Claims, Apart
<1> QED BY <1>3 DEF Flown, P, R, F, Z

\* evict_stale
LEMMA EvictedIs ==
  ASSUME NEW b, Book(b), b.selected = {}, NEW policy \in Nat, AllAged(ToSet(b.ready), policy),
         NEW update \in Nat, policy <= update
  PROVE  /\ Book(Evicted(b, update))
         /\ ToSet(Evicted(b, update).ready) \subseteq ToSet(b.ready)
         /\ Evicted(b, update).next = b.next /\ Evicted(b, update).reserved = b.reserved
         /\ Evicted(b, update).selected = {}
         /\ \A g \in ToSet(Evicted(b, update).ready) : update - g.old <= Lag
<1> DEFINE S == {g \in ToSet(b.ready) : ~Stale(g, update)}
           kept == Among(b.ready, S)
           d == b.dropped + Len(b.ready) - Len(kept)
           c == Sieved(b, S, b.consumed, d)
<1>1. ~(b.selected # {} \/ \E i \in 1 .. Len(b.ready) : b.ready[i].new > update)
  <2> SUFFICES ASSUME NEW i \in 1 .. Len(b.ready) PROVE ~(b.ready[i].new > update)
    OBVIOUS
  <2>1. b.ready[i] \in ToSet(b.ready) /\ b.ready[i] \in Finished
    BY BookFacts, ElementsOf
  <2>2. Aged(b.ready[i], policy) /\ b.ready[i].old \in Nat /\ b.ready[i].new \in Nat
    BY <2>1 DEF AllAged, Finished
  <2> QED BY <2>2 DEF Aged, NoSource
<1>2. Evicted(b, update) = [b EXCEPT !.ready = kept, !.dropped = d]
  BY <1>1 DEF Evicted
<1>3. [b EXCEPT !.ready = kept, !.dropped = d] = c
  <2>1. b \in Buffers
    BY BookFacts
  <2> HIDE DEF d, S
  <2> QED BY <2>1 DEF Sieved, Buffers
<1>4. Len(kept) \in Nat /\ Len(kept) <= Len(b.ready)
  <2>1. Among(b.ready, S) \in Seq(Finished) /\ Len(Among(b.ready, S)) <= Len(b.ready)
    BY BookFacts, AmongKeeps
  <2> HIDE DEF S
  <2> QED BY <2>1
<1>5. /\ d \in Nat /\ b.consumed \in Nat
      /\ b.consumed + d = b.consumed + b.dropped + (Len(b.ready) - Len(Among(b.ready, S)))
  <2>1. Len(b.ready) \in Nat /\ b.dropped \in Nat /\ b.consumed \in Nat
    BY BookFacts
  <2> DEFINE m == Len(b.ready)
             l == Len(kept)
  <2>2. m \in Nat /\ l \in Nat /\ l <= m
    BY <2>1, <1>4
  <2>3. d = b.dropped + m - l
    OBVIOUS
  <2> HIDE DEF m, l, d
  <2>4. d \in Nat /\ b.consumed + d = b.consumed + b.dropped + (m - l)
    BY <2>1, <2>2, <2>3
  <2> QED BY <2>1, <2>4 DEF m, l
<1>6. /\ Book(c) /\ ToSet(c.ready) = ToSet(b.ready) \cap S
      /\ c.next = b.next /\ c.reserved = b.reserved /\ c.selected = {}
  <2> HIDE DEF S, d
  <2>1. Accounts(b, S, b.consumed, d)
    BY <1>5 DEF Accounts
  <2>2. Book(Sieved(b, S, b.consumed, d))
    BY <2>1, SievedBook
  <2>3. ToSet(Sieved(b, S, b.consumed, d).ready) = ToSet(b.ready) \cap S
    BY <2>1, SievedBook
  <2>4. /\ Sieved(b, S, b.consumed, d).next = b.next /\ Sieved(b, S, b.consumed, d).reserved = b.reserved
        /\ Sieved(b, S, b.consumed, d).selected = {}
    BY <2>1, SievedBook
  <2> QED BY <2>2, <2>3, <2>4 DEF c
<1>7. Evicted(b, update) = c
  BY <1>2, <1>3
<1> HIDE DEF c
<1>8. ToSet(c.ready) \subseteq ToSet(b.ready) /\ ToSet(c.ready) \subseteq S
  BY <1>6
<1>9. \A g \in ToSet(c.ready) : update - g.old <= Lag
  <2> SUFFICES ASSUME NEW g \in ToSet(c.ready) PROVE update - g.old <= Lag
    OBVIOUS
  <2>1. ~Stale(g, update)
    BY <1>8
  <2>2. g \in Finished
    BY <1>8, BookFacts
  <2>3. update - g.old \in Int /\ Lag \in Int
    BY <2>2, CapacityAssumption DEF Finished
  <2> QED BY <2>1, <2>3 DEF Stale
<1> QED BY <1>6, <1>7, <1>8, <1>9

\* The groups that are left when some identities are taken out.
LEMMA LeftOut ==
  ASSUME NEW b, Book(b), NEW ids, ids \subseteq {g.id : g \in ToSet(b.ready)}
  PROVE  /\ Cardinality(ids) \in Nat /\ IsFiniteSet(ids)
         /\ Cardinality({g \in ToSet(b.ready) : g.id \in ids}) = Cardinality(ids)
         /\ Len(Among(b.ready, {g \in ToSet(b.ready) : g.id \notin ids})) \in Nat
         /\ Len(Among(b.ready, {g \in ToSet(b.ready) : g.id \notin ids})) = Len(b.ready) - Cardinality(ids)
<1> DEFINE Y == ToSet(b.ready)
           B == {g \in Y : g.id \in ids}
           S == {g \in Y : g.id \notin ids}
           kept == Among(b.ready, S)
<1>1. IsFiniteSet(Y) /\ Cardinality(Y) = Len(b.ready)
  BY BookFacts, SetOfSeq DEF Book
<1>2. Unique(Y)
  BY UniqueElements DEF Book
<1>3. kept \in Seq(Finished) /\ ToSet(kept) = S /\ OneEach(kept)
  <2>1. ToSet(kept) = Y \cap S /\ kept \in Seq(Finished) /\ OneEach(kept)
    <3> HIDE DEF S
    <3> QED BY BookFacts, AmongKeeps DEF Book
  <2> QED BY <2>1
<1>4. ids = {g.id : g \in B}
  OBVIOUS
<1>5. Unique(B) /\ IsFiniteSet(B)
  BY <1>1, <1>2, FS_Subset DEF Unique
<1>6. IsFiniteSet(ids) /\ Cardinality(ids) = Cardinality(B)
  <2> HIDE DEF B
  <2>1. IsFiniteSet({g.id : g \in B}) /\ Cardinality({g.id : g \in B}) = Cardinality(B)
    BY <1>5, IdCount
  <2> QED BY <2>1, <1>4
<1>7. S = Y \ B /\ B \in SUBSET Y
  OBVIOUS
<1>8. Cardinality(S) = Cardinality(Y) - Cardinality(B) /\ Cardinality(B) \in Nat /\ Cardinality(S) \in Nat
  <2> HIDE DEF S, B, Y
  <2> QED BY <1>1, <1>7, RestCount
<1>9. Cardinality(S) = Len(kept)
  <2> HIDE DEF S, kept
  <2> QED BY <1>3, SetOfSeq
<1> HIDE DEF kept
<1> QED BY <1>1, <1>6, <1>8, <1>9 DEF kept

\* select
LEMMA LeasedIs ==
  ASSUME NEW b, Book(b), b.selected = {}, Required <= Len(b.ready)
  PROVE  /\ Book(Leased(b))
         /\ Leased(b).ready = b.ready /\ Leased(b).reserved = b.reserved
         /\ Leased(b).next = b.next
         /\ Leased(b).selected = {b.ready[i].id : i \in 1 .. Required}
<1> DEFINE ids == {b.ready[i].id : i \in 1 .. Required}
           c == [b EXCEPT !.selected = ids]
<1>0. Required \in Nat
  BY CapacityAssumption
<1>1. ~(b.selected # {} \/ Len(b.ready) < Required)
  BY <1>0, BookFacts
<1>2. Leased(b) = c
  BY <1>1 DEF Leased
<1>3. ids \in SUBSET Nat
  <2>0. b.ready \in Seq(Finished) /\ Len(b.ready) \in Nat
    BY BookFacts
  <2>1. \A i \in 1 .. Required : b.ready[i] \in Finished
    BY <1>0, <2>0
  <2> QED BY <2>1 DEF Finished
<1> HIDE DEF ids
<1>4. b \in Buffers
  BY BookFacts
<1>5. /\ c.ready = b.ready /\ c.reserved = b.reserved /\ c.next = b.next /\ c.selected = ids
      /\ c.consumed = b.consumed /\ c.dropped = b.dropped /\ c \in Buffers
  BY <1>3, <1>4 DEF Buffers
<1> HIDE DEF c
<1>6. Book(c)
  BY <1>5 DEF Book
<1> QED BY <1>2, <1>5, <1>6 DEF ids

\* The lease of a batch: identities of the first groups.
Leases(b) == Required <= Len(b.ready) /\ b.selected = {b.ready[i].id : i \in 1 .. Required}

\* A lease: whole, of different groups, the first of the buffer.
LEMMA LeasesAre ==
  ASSUME NEW b, Book(b), Leases(b)
  PROVE  /\ b.selected \subseteq {g.id : g \in ToSet(b.ready)} /\ b.selected # {}
         /\ Cardinality(b.selected) = Required /\ Cardinality(Batch(b)) = Required
         /\ Batch(b) = {b.ready[i] : i \in 1 .. Required}
<1>8. /\ b \in Buffers /\ b.next \in Nat /\ b.consumed \in Nat /\ b.dropped \in Nat
      /\ b.ready \in Seq(Finished) /\ Len(b.ready) \in Nat /\ DOMAIN b.ready = 1 .. Len(b.ready)
      /\ Cardinality(b.reserved) \in Nat /\ OneEach(b.ready)
  <2>1. OneEach(b.ready)
    BY DEF Book
  <2> QED BY <2>1, BookFacts
<1>0. Required \in Nat \ {0} /\ Required \in 0 .. Len(b.ready) /\ 1 \in 1 .. Required
  BY CapacityAssumption, <1>8 DEF Leases
<1>1. \A i \in 1 .. Required : i \in 1 .. Len(b.ready) /\ b.ready[i] \in ToSet(b.ready)
  <2>1. \A i \in 1 .. Len(b.ready) : b.ready[i] \in ToSet(b.ready)
    BY <1>8, ElementsOf
  <2> QED BY <2>1, <1>0, <1>8
<1>2. b.selected = {b.ready[i].id : i \in 1 .. Required}
  BY DEF Leases
<1>3. b.selected \subseteq {g.id : g \in ToSet(b.ready)} /\ b.selected # {}
  BY <1>0, <1>1, <1>2
<1>4. Cardinality(b.selected) = Required
  <2>1. Cardinality({b.ready[i].id : i \in 1 .. Required}) = Required
    <3>1. b.ready \in Seq(Finished) /\ OneEach(b.ready) /\ Required \in 0 .. Len(b.ready)
      BY <1>0, <1>8
    <3> QED BY Zenon, <3>1, PlaceCount
  <2> QED BY <2>1, <1>2
<1>5. Cardinality({g \in ToSet(b.ready) : g.id \in b.selected}) = Cardinality(b.selected)
  BY <1>3, LeftOut
<1>6. Batch(b) = {g \in ToSet(b.ready) : g.id \in b.selected}
  BY DEF Batch
<1>7. Batch(b) = {b.ready[i] : i \in 1 .. Required}
  <2>1. ASSUME NEW g \in Batch(b) PROVE g \in {b.ready[i] : i \in 1 .. Required}
    <3>1. PICK j \in 1 .. Len(b.ready) : g = b.ready[j]
      <4>1. g \in ToSet(b.ready)
        BY <1>6
      <4> QED BY <4>1, <1>8, ElementsOf
    <3>2. PICK i \in 1 .. Required : g.id = b.ready[i].id
      BY <1>2, <1>6
    <3>3. i = j
      BY <3>1, <3>2, <1>1, <1>8 DEF OneEach
    <3> QED BY <3>1, <3>3
  <2>2. ASSUME NEW i \in 1 .. Required PROVE b.ready[i] \in Batch(b)
    BY <1>1, <1>2, <1>6
  <2> QED BY <2>1, <2>2
<1> QED BY <1>3, <1>4, <1>5, <1>6, <1>7

\* commit
LEMMA CommittedIs ==
  ASSUME NEW b, Book(b), Leases(b)
  PROVE  /\ Book(Committed(b))
         /\ ToSet(Committed(b).ready) = ToSet(b.ready) \ Batch(b)
         /\ Committed(b).next = b.next /\ Committed(b).reserved = b.reserved
         /\ Committed(b).selected = {}
<1> DEFINE S == {g \in ToSet(b.ready) : g.id \notin b.selected}
           k == b.consumed + Cardinality(b.selected)
           c == Sieved(b, S, k, b.dropped)
<1>1. b.selected \subseteq {g.id : g \in ToSet(b.ready)} /\ b.selected # {}
  BY LeasesAre
<1>2. /\ Cardinality(b.selected) \in Nat
      /\ Len(Among(b.ready, S)) = Len(b.ready) - Cardinality(b.selected)
  BY <1>1, LeftOut
<1>3. Committed(b) = [b EXCEPT !.ready = Among(b.ready, S), !.selected = {}, !.consumed = k]
  BY <1>1 DEF Committed, Unleased
<1>0. /\ b \in Buffers /\ b.next \in Nat /\ b.consumed \in Nat /\ b.dropped \in Nat
      /\ b.ready \in Seq(Finished) /\ Len(b.ready) \in Nat /\ DOMAIN b.ready = 1 .. Len(b.ready)
      /\ Cardinality(b.reserved) \in Nat /\ OneEach(b.ready)
  <2>1. OneEach(b.ready)
    BY DEF Book
  <2> QED BY <2>1, BookFacts
<1> HIDE DEF S
<1>4. /\ k \in Nat /\ b.dropped \in Nat
      /\ k + b.dropped = b.consumed + b.dropped + (Len(b.ready) - Len(Among(b.ready, S)))
  <2> DEFINE x == Cardinality(b.selected)
             m == Len(b.ready)
             l == Len(Among(b.ready, S))
  <2>1. x \in Nat /\ l = m - x /\ m \in Nat /\ k = b.consumed + x
    BY <1>0, <1>2
  <2> HIDE DEF x, m, l, k
  <2>2. k \in Nat /\ k + b.dropped = b.consumed + b.dropped + (m - l)
    BY <2>1, <1>0
  <2> QED BY <2>2, <1>0 DEF m, l
<1> HIDE DEF k
<1>5. [b EXCEPT !.ready = Among(b.ready, S), !.selected = {}, !.consumed = k] = c
  <2>1. b \in Buffers
    BY BookFacts
  <2> QED BY <2>1 DEF Sieved, Buffers
<1>6. /\ Book(c) /\ ToSet(c.ready) = ToSet(b.ready) \cap S
      /\ c.next = b.next /\ c.reserved = b.reserved /\ c.selected = {}
  <2>1. Accounts(b, S, k, b.dropped)
    BY <1>4 DEF Accounts
  <2>2. Book(Sieved(b, S, k, b.dropped))
    BY <2>1, SievedBook
  <2>3. ToSet(Sieved(b, S, k, b.dropped).ready) = ToSet(b.ready) \cap S
    BY <2>1, SievedBook
  <2>4. /\ Sieved(b, S, k, b.dropped).next = b.next /\ Sieved(b, S, k, b.dropped).reserved = b.reserved
        /\ Sieved(b, S, k, b.dropped).selected = {}
    BY <2>1, SievedBook
  <2> QED BY <2>2, <2>3, <2>4 DEF c
<1>7. Committed(b) = c
  BY <1>3, <1>5
<1>8. ToSet(b.ready) \cap S = ToSet(b.ready) \ Batch(b)
  BY DEF S, Batch
<1> HIDE DEF c
<1> QED BY <1>6, <1>7, <1>8

----------------------------------------------------------------------------
(***************************************************************************)
(* The exchange outside of a snapshot, and what each call keeps of it.     *)
(***************************************************************************)
\* Fewer groups with the same records.
LEMMA RecordedFewer ==
  ASSUME NEW H, NEW K, NEW p, NEW R, Recorded(H, p, R),
         \A x \in K : \E y \in H : x.record = y.record /\ x.id = y.id
  PROVE  Recorded(K, p, R)
BY DEF Recorded

\* Records and ages of the groups that are left after a move or a drop.
LEMMA SoundlyFewer ==
  ASSUME NEW b, NEW c, NEW wo, NEW rs, NEW rt, NEW p, NEW R, NEW y,
         Soundly(b, wo, rs, p, R, y),
         ToSet(rt) \cup ToSet(c.ready) \subseteq ToSet(rs) \cup ToSet(b.ready)
  PROVE  Soundly(c, wo, rt, p, R, y)
<1> DEFINE H == wo \cup ToSet(rs) \cup ToSet(b.ready)
           K == wo \cup ToSet(rt) \cup ToSet(c.ready)
<1>1. K \subseteq H
  OBVIOUS
<1>2. Recorded(H, p, R) /\ AllAged(H, y)
  BY DEF Soundly
<1> HIDE DEF H, K
<1>3. Recorded(K, p, R) /\ AllAged(K, y)
  BY <1>1, <1>2, RecordedFewer DEF AllAged
<1> QED BY <1>3 DEF K, Soundly

\* A pump keeps the exchange sound (AsyncRuntime.pump).
LEMMA PumpSound ==
  ASSUME NEW b, NEW position, NEW records,
         Sound(b, pipe, working, results, replies, position, records, served)
  PROVE  /\ Sound(Pumped(b), pipe, working, <<>>, <<>>, position, records, served)
         /\ Delivery(b, Pumped(b), pipe, working, results)
<1>1. Book(b) /\ Flown(b, pipe, working, results, replies) /\ AllAged(ToSet(results), served)
  BY DEF Sound, Soundly, AllAged
<1> DEFINE c == Pumped(b)
<1>2. Delivery(b, c, pipe, working, results)
  BY <1>1, PumpKeeps
<1> HIDE DEF c
<1>3. ToSet(<<>>) = {}
  BY DEF ToSet
<1>4. Soundly(c, working, <<>>, position, records, served)
  BY <1>2, <1>3, SoundlyFewer DEF Sound, Delivery
<1>5. Book(c) /\ Flown(c, pipe, working, <<>>, <<>>) /\ c.next = b.next
  BY <1>2 DEF Delivery
<1>7. Dated(c.reserved, served)
  BY <1>2 DEF Delivery, Sound, Dated
<1>6. Sound(c, pipe, working, <<>>, <<>>, position, records, served)
  BY <1>4, <1>5, <1>7 DEF Sound
<1> QED BY <1>2, <1>6 DEF c

\* An eviction keeps it sound and leaves no group that is too old (evict_stale).
LEMMA EvictSound ==
  ASSUME NEW b, NEW pi, NEW wo, NEW rs, NEW rp, NEW position, NEW records, NEW policy \in Nat,
         Sound(b, pi, wo, rs, rp, position, records, policy), b.selected = {},
         NEW update \in Nat, policy <= update
  PROVE  /\ Sound(Evicted(b, update), pi, wo, rs, rp, position, records, policy)
         /\ ToSet(Evicted(b, update).ready) \subseteq ToSet(b.ready)
         /\ Evicted(b, update).reserved = b.reserved
         /\ Evicted(b, update).selected = {}
         /\ \A g \in ToSet(Evicted(b, update).ready) : update - g.old <= Lag
<1> DEFINE c == Evicted(b, update)
<1>1. Book(b) /\ AllAged(ToSet(b.ready), policy)
  BY DEF Sound, Soundly, AllAged
<1>2. /\ Book(c) /\ ToSet(c.ready) \subseteq ToSet(b.ready)
      /\ c.next = b.next /\ c.reserved = b.reserved /\ c.selected = {}
      /\ \A g \in ToSet(c.ready) : update - g.old <= Lag
  BY <1>1, EvictedIs
<1> HIDE DEF c
<1>3. Flown(c, pi, wo, rs, rp)
  BY <1>2, FlownFewer DEF Sound
<1>4. Soundly(c, wo, rs, position, records, policy)
  BY <1>2, SoundlyFewer DEF Sound
<1>5. Sound(c, pi, wo, rs, rp, position, records, policy)
  BY <1>2, <1>3, <1>4 DEF Sound
<1> QED BY <1>2, <1>5 DEF c

\* A grant under the policy that is served keeps it sound (AsyncRuntime.fill).
LEMMA FillSound ==
  ASSUME NEW b, NEW pi, NEW wo, NEW position \in Nat, NEW records, NEW policy \in Nat,
         Sound(b, pi, wo, <<>>, <<>>, position, records, policy),
         NEW src \in Nat, src <= policy
  PROVE  /\ Sound(Fill(b, src), pi \o OrdersFor(Granted(b, src)), wo, <<>>, <<>>,
                  position, records, policy)
         /\ Fill(b, src).ready = b.ready /\ Fill(b, src).selected = b.selected
<1> DEFINE c == Fill(b, src)
           np == pi \o OrdersFor(Granted(b, src))
<1>1. Book(b) /\ Flown(b, pi, wo, <<>>, <<>>) /\ Dated(b.reserved, policy) /\ pi \in Seq(Orders)
  BY DEF Sound, Flown
<1>2. Grants(b, c, pi, np, wo)
  BY <1>1, FillKeeps
<1>3. Dated(c.reserved, policy)
  BY <1>1, GrantDated
<1> HIDE DEF c, np
<1>4. Book(c) /\ Flown(c, np, wo, <<>>, <<>>) /\ c.ready = b.ready /\ c.selected = b.selected
  BY <1>2 DEF Grants
<1>5. c.next = position + Len(np)
  <2>1. Len(np) \in Nat /\ Len(pi) \in Nat
    BY <1>1, <1>4 DEF Flown
  <2>2. c.next \in Nat /\ b.next \in Nat /\ b.next = position + Len(pi)
    BY <1>1, <1>4, BookFacts DEF Sound
  <2>3. c.next - b.next = Len(np) - Len(pi)
    BY <1>2 DEF Grants
  <2> QED BY <2>1, <2>2, <2>3
<1>6. Soundly(c, wo, <<>>, position, records, policy)
  BY <1>4 DEF Sound, Soundly
<1>7. Sound(c, np, wo, <<>>, <<>>, position, records, policy)
  BY <1>3, <1>4, <1>5, <1>6 DEF Sound
<1> QED BY <1>4, <1>7 DEF c, np

\* A lease keeps it sound (select).
LEMMA LeaseSound ==
  ASSUME NEW b, NEW pi, NEW wo, NEW rs, NEW rp, NEW position, NEW records, NEW policy,
         Sound(b, pi, wo, rs, rp, position, records, policy),
         b.selected = {}, Required <= Len(b.ready)
  PROVE  /\ Sound(Leased(b), pi, wo, rs, rp, position, records, policy)
         /\ Leased(b).ready = b.ready /\ Leased(b).reserved = b.reserved /\ Leases(Leased(b))
<1> DEFINE c == Leased(b)
<1>1. /\ Book(c) /\ c.ready = b.ready /\ c.reserved = b.reserved /\ c.next = b.next
      /\ c.selected = {b.ready[i].id : i \in 1 .. Required}
  BY LeasedIs DEF Sound
<1> HIDE DEF c
<1>2. Flown(c, pi, wo, rs, rp)
  BY <1>1, FlownFewer DEF Sound
<1>3. Leases(c)
  BY <1>1 DEF Leases
<1>4. Sound(c, pi, wo, rs, rp, position, records, policy)
  BY <1>1, <1>2 DEF Sound, Soundly
<1> QED BY <1>1, <1>3, <1>4 DEF c

\* A commit keeps it sound, with the records of the batch in the weights (commit).
LEMMA CommitSound ==
  ASSUME NEW b, NEW pi, NEW wo, NEW rs, NEW rp, NEW position \in Nat, NEW records, NEW policy,
         Sound(b, pi, wo, rs, rp, position, records, policy), Leases(b)
  PROVE  /\ Sound(Committed(b), pi, wo, rs, rp, position,
                  records \cup {g.record : g \in Batch(b)}, policy)
         /\ ToSet(Committed(b).ready) = ToSet(b.ready) \ Batch(b)
         /\ Committed(b).selected = {} /\ Committed(b).reserved = b.reserved
<1> DEFINE c == Committed(b)
           N == records \cup {g.record : g \in Batch(b)}
           H == wo \cup ToSet(rs) \cup ToSet(b.ready)
           K == wo \cup ToSet(rs) \cup ToSet(c.ready)
<1>1. /\ Book(c) /\ ToSet(c.ready) = ToSet(b.ready) \ Batch(b)
      /\ c.next = b.next /\ c.reserved = b.reserved /\ c.selected = {}
  BY CommittedIs DEF Sound
<1> HIDE DEF c
<1>2. Flown(c, pi, wo, rs, rp)
  BY <1>1, FlownFewer DEF Sound
<1>3. Soundly(c, wo, rs, position, records, policy)
  BY <1>1, SoundlyFewer DEF Sound
<1>4. Recorded(H, position, records) /\ Recorded(K, position, records) /\ AllAged(K, policy)
  BY <1>3 DEF Sound, Soundly
<1>5. Batch(b) \subseteq ToSet(b.ready)
  BY DEF Batch
<1>6. ASSUME NEW x \in K, NEW g \in Batch(b), x.record = g.record PROVE FALSE
  <2>1. x.id = g.id
    <3>1. x \in H /\ g \in H
      BY <1>1, <1>5
    <3> HIDE DEF H
    <3> QED BY <3>1, <1>4, <1>6 DEF Recorded
  <2>2. CASE x \in wo \cup ToSet(rs)
    <3>1. Apart(wo, ToSet(b.ready)) /\ Apart(ToSet(rs), ToSet(b.ready))
      BY DEF Sound, Flown, Claims
    <3> QED BY <2>1, <2>2, <3>1, <1>5 DEF Apart
  <2>3. CASE x \in ToSet(c.ready)
    <3>1. Unique(ToSet(b.ready))
      BY UniqueElements DEF Sound, Book
    <3> QED BY <2>1, <2>3, <3>1, <1>1, <1>5 DEF Unique
  <2> QED BY <2>2, <2>3
<1>7. Recorded(K, position, N)
  <2>1. \A x \in K : x.record \notin N
    BY <1>4, <1>6 DEF Recorded
  <2> HIDE DEF K, N
  <2> QED BY <1>4, <2>1 DEF Recorded
<1>8. Sound(c, pi, wo, rs, rp, position, N, policy)
  <2> HIDE DEF N
  <2> QED BY <1>1, <1>2, <1>4, <1>7 DEF Sound, Soundly
<1> QED BY <1>1, <1>8 DEF c

\* A newer policy keeps it sound.
LEMMA NewerSound ==
  ASSUME NEW b, NEW pi, NEW wo, NEW rs, NEW rp, NEW position, NEW records,
         NEW policy \in Nat, NEW newer \in Nat, policy <= newer,
         Sound(b, pi, wo, rs, rp, position, records, policy)
  PROVE  Sound(b, pi, wo, rs, rp, position, records, newer)
<1> DEFINE H == wo \cup ToSet(rs) \cup ToSet(b.ready)
<1>1. pi \in Seq(Orders) /\ H \subseteq Sampled \cup Finished
  <2>1. ToSet(rs) \subseteq Finished
    <3>1. rs \in Seq(Finished)
      BY DEF Sound, Flown
    <3> QED BY <3>1, ElementsOf
  <2>2. ToSet(b.ready) \subseteq Finished
    BY BookFacts DEF Sound
  <2>3. wo \subseteq Sampled
    BY DEF Sound, Flown
  <2> QED BY <2>1, <2>2, <2>3 DEF Sound, Flown
<1>2. AllAged(H, policy)
  BY DEF Sound, Soundly
<1> HIDE DEF H
<1>3. AllAged(H, newer)
  <2> SUFFICES ASSUME NEW x \in H PROVE Aged(x, newer)
    BY DEF AllAged
  <2>1. Aged(x, policy)
    BY <1>2 DEF AllAged
  <2>2. x.src \in Nat /\ x.old \in Nat \cup {NoSource} /\ x.new \in Nat \cup {NoSource}
    BY <1>1 DEF Sampled, Finished
  <2> QED BY <2>1, <2>2 DEF Aged, NoSource
<1>4. Dated(b.reserved, newer)
  <2>1. \A t \in b.reserved : t.src \in Nat
    <3>1. b.reserved \subseteq Tickets
      BY BookFacts DEF Sound
    <3> QED BY <3>1 DEF Tickets
  <2>2. Dated(b.reserved, policy)
    BY DEF Sound
  <2> QED BY <2>1, <2>2 DEF Dated
<1> QED BY <1>3, <1>4 DEF H, Sound, Soundly

----------------------------------------------------------------------------
(***************************************************************************)
(* What the producer does to the exchange.                                 *)
(***************************************************************************)
\* Without a reservation nothing is in flight.
LEMMA EmptyFlight ==
  ASSUME NEW b, NEW pi, NEW wo, NEW rs, NEW rp, Flown(b, pi, wo, rs, rp), b.reserved = {}
  PROVE  pi = <<>> /\ wo = {} /\ rs = <<>> /\ rp = <<>>
<1>1. /\ pi \in Seq(Orders) /\ rs \in Seq(Finished) /\ rp \in Seq(Failures)
      /\ ToSet(Tasks(pi)) = {} /\ ToSet(Tasks(rp)) = {} /\ wo = {} /\ ToSet(rs) = {}
  BY DEF Flown
<1>2. \A s \in Seq(Finished) : ToSet(s) = {} => s = <<>>
  <2> SUFFICES ASSUME NEW s \in Seq(Finished), s # <<>> PROVE ToSet(s) # {}
    OBVIOUS
  <2>1. 1 \in 1 .. Len(s)
    OBVIOUS
  <2> QED BY <2>1, ElementsOf
<1>3. \A s \in Seq(Tickets) : ToSet(s) = {} => Len(s) = 0
  <2> SUFFICES ASSUME NEW s \in Seq(Tickets), s # <<>> PROVE ToSet(s) # {}
    OBVIOUS
  <2>1. 1 \in 1 .. Len(s)
    OBVIOUS
  <2> QED BY <2>1, ElementsOf
<1>4. Tasks(pi) \in Seq(Tickets) /\ Len(Tasks(pi)) = Len(pi)
  BY <1>1, TasksOf DEF Orders
<1>5. Tasks(rp) \in Seq(Tickets) /\ Len(Tasks(rp)) = Len(rp)
  BY <1>1, TasksOf DEF Failures
<1>6. Len(pi) = 0 /\ Len(rp) = 0
  BY <1>1, <1>3, <1>4, <1>5
<1> QED BY <1>1, <1>2, <1>6

\* The pipe without its first order.
LEMMA TaskTail ==
  ASSUME NEW pi \in Seq(Orders), pi # <<>>, OneEach(Tasks(pi))
  PROVE  /\ Tail(pi) \in Seq(Orders) /\ Len(Tail(pi)) + 1 = Len(pi) /\ Len(Tail(pi)) \in Nat
         /\ Head(pi) \in Orders /\ Head(pi).task \in ToSet(Tasks(pi)) /\ OneEach(Tasks(Tail(pi)))
         /\ ToSet(Tasks(Tail(pi))) \subseteq ToSet(Tasks(pi))
         /\ \A u \in ToSet(Tasks(Tail(pi))) : u.id # Head(pi).task.id
<1> DEFINE q == Tail(pi)
           n == Len(pi)
<1>1. /\ Head(pi) = pi[1] /\ pi[1] \in Orders /\ n \in Nat /\ n # 0 /\ q \in Seq(Orders) /\ Len(q) = n - 1
      /\ \A i \in 1 .. n - 1 : q[i] = pi[i + 1]
      /\ DOMAIN pi = 1 .. n /\ DOMAIN q = 1 .. n - 1
  BY TailOf
<1>2. /\ DOMAIN Tasks(pi) = 1 .. n /\ DOMAIN Tasks(q) = 1 .. n - 1
      /\ \A i \in 1 .. n : Tasks(pi)[i] = pi[i].task
      /\ \A i \in 1 .. n - 1 : Tasks(q)[i] = q[i].task
  BY <1>1 DEF Tasks
<1> HIDE DEF q, n
<1>3. \A i \in 1 .. n - 1 : i + 1 \in 1 .. n /\ i + 1 # 1 /\ i \in Int
  BY <1>1
<1>4. \A i \in 1 .. n - 1 : Tasks(q)[i] = Tasks(pi)[i + 1]
  BY <1>1, <1>2, <1>3
<1>5. 1 \in 1 .. n /\ Tasks(pi)[1] = Head(pi).task
  BY <1>1, <1>2
<1>6. OneEach(Tasks(q))
  <2> SUFFICES ASSUME NEW i \in 1 .. n - 1, NEW j \in 1 .. n - 1, Tasks(q)[i].id = Tasks(q)[j].id
               PROVE  i = j
    BY <1>2 DEF OneEach
  <2>1. i + 1 = j + 1
    BY <1>2, <1>3, <1>4 DEF OneEach
  <2> QED BY <2>1, <1>3
<1>7. ToSet(Tasks(q)) \subseteq ToSet(Tasks(pi)) /\ Head(pi).task \in ToSet(Tasks(pi))
  BY <1>2, <1>3, <1>4, <1>5 DEF ToSet
<1>8. ASSUME NEW u \in ToSet(Tasks(q)) PROVE u.id # Head(pi).task.id
  <2>1. PICK i \in 1 .. n - 1 : u = Tasks(q)[i]
    BY <1>2 DEF ToSet
  <2>2. Tasks(pi)[i + 1].id # Tasks(pi)[1].id
    BY <1>2, <1>3, <1>5 DEF OneEach
  <2> QED BY <2>1, <2>2, <1>4, <1>5
<1>10. Len(q) + 1 = Len(pi) /\ Len(q) \in Nat
  BY <1>1 DEF n
<1> QED BY <1>1, <1>6, <1>7, <1>8, <1>10 DEF q

\* A group the producer starts.
Begun(t, record) == [id |-> t.id, src |-> t.src, record |-> record,
                     old |-> NoSource, new |-> NoSource]

\* The producer never has more groups than it may: the tasks on their way and
\* the groups at work hold a reservation each.
LEMMA InFlight ==
  ASSUME NEW b, NEW pi, NEW wo, NEW rs, NEW rp, Book(b), Flown(b, pi, wo, rs, rp)
  PROVE  /\ IsFiniteSet(wo) /\ Cardinality(wo) \in Nat /\ Len(pi) \in Nat
         /\ Cardinality(wo) + Len(pi) <= Cardinality(b.reserved)
         /\ Cardinality(wo) + Len(pi) <= MaxInflight
<1> DEFINE T == {Task(g) : g \in wo}
           P == ToSet(Tasks(pi))
<1>1. /\ Unique(wo) /\ wo \subseteq Sampled
      /\ pi \in Seq(Orders) /\ OneEach(Tasks(pi)) /\ P \subseteq b.reserved
      /\ \A g \in wo : Task(g) \in b.reserved
  BY DEF Flown
<1>2. Apart(P, wo)
  BY DEF Flown, Claims
<1>3. P \cap T = {}
  <2> SUFFICES ASSUME NEW g \in wo, Task(g) \in P PROVE FALSE
    OBVIOUS
  <2>1. Task(g).id = g.id
    BY DEF Task
  <2> QED BY <2>1, <1>2 DEF Apart
<1>4. IsFiniteSet(b.reserved) /\ Cardinality(b.reserved) <= MaxInflight /\ Cardinality(b.reserved) \in Nat
  BY BookFacts DEF Book
<1>5. T \in SUBSET b.reserved
  BY <1>1
<1>6. IsFiniteSet(T)
  <2> HIDE DEF T
  <2> QED BY <1>4, <1>5, FS_Subset
<1>7. IsFiniteSet(wo) /\ Cardinality(wo) = Cardinality(T)
  <2> DEFINE f == [g \in wo |-> Task(g)]
  <2>1. f \in Injection(wo, T)
    <3>1. f \in [wo -> T]
      OBVIOUS
    <3>2. \A x, y \in wo : Task(x) = Task(y) => x = y
      BY <1>1 DEF Unique, Task
    <3>3. \A x, y \in wo : f[x] = f[y] => x = y
      BY <3>2
    <3> HIDE DEF f, T
    <3> QED BY <3>1, <3>3 DEF Injection, IsInjective
  <2>2. IsFiniteSet(wo)
    <3> HIDE DEF f, T
    <3> QED BY <2>1, <1>6, FS_Injection
  <2>3. Cardinality({Task(g) : g \in wo}) = Cardinality(wo)
    BY <1>1, <2>2, TaskCount
  <2> QED BY <2>2, <2>3
<1>8. IsFiniteSet(P) /\ Cardinality(P) = Len(pi)
  <2>1. Tasks(pi) \in Seq(Tickets) /\ Len(Tasks(pi)) = Len(pi)
    BY <1>1, TasksOf DEF Orders
  <2>2. IsFiniteSet(ToSet(Tasks(pi))) /\ Cardinality(ToSet(Tasks(pi))) = Len(Tasks(pi))
    BY <1>1, <2>1, SetOfSeq
  <2> QED BY <2>1, <2>2
<1>9. P \cup T \in SUBSET b.reserved
  BY <1>1, <1>5
<1> HIDE DEF T, P
<1>10. /\ IsFiniteSet(P \cup T) /\ Cardinality(P \cup T) = Cardinality(P) + Cardinality(T)
       /\ Cardinality(P) \in Nat /\ Cardinality(T) \in Nat
  BY <1>3, <1>6, <1>8, DisjointCount
<1>11. Cardinality(P \cup T) <= Cardinality(b.reserved)
  BY <1>4, <1>9, FS_Subset
<1>12. MaxInflight \in Nat
  BY CapacityAssumption
<1>13. Cardinality(wo) + Len(pi) <= Cardinality(b.reserved)
  BY <1>7, <1>8, <1>10, <1>11
<1> QED BY <1>4, <1>7, <1>8, <1>10, <1>12, <1>13

\* The producer starts the first task of the pipe on the next record
\* (FullyAsyncRollouter, the command "task").
LEMMA TaskSound ==
  ASSUME NEW b, NEW pi, NEW wo, NEW rs, NEW rp, NEW position \in Nat, NEW records, NEW policy,
         Sound(b, pi, wo, rs, rp, position, records, policy), pi # <<>>,
         records \subseteq 0 .. position - 1
  PROVE  Sound(b, Tail(pi), wo \cup {Begun(Head(pi).task, position)}, rs, rp,
               position + 1, records, policy)
<1> DEFINE t == Head(pi).task
           g == Begun(t, position)
           q == Tail(pi)
           V == wo \cup {g}
           R == ToSet(rs)
           F == ToSet(Tasks(rp))
           Y == ToSet(b.ready)
           P == ToSet(Tasks(pi))
           Q == ToSet(Tasks(q))
<1>1. /\ Book(b) /\ Flown(b, pi, wo, rs, rp) /\ Dated(b.reserved, policy) /\ b.next = position + Len(pi)
      /\ Recorded(wo \cup R \cup Y, position, records) /\ AllAged(wo \cup R \cup Y, policy)
  BY DEF Sound, Soundly
<1>2. /\ pi \in Seq(Orders) /\ OneEach(Tasks(pi)) /\ Unique(wo) /\ wo \in SUBSET Sampled
      /\ Claims(P, wo, R, F, Y) /\ P \subseteq b.reserved
      /\ \A x \in wo \cup R : Task(x) \in b.reserved
      /\ rs \in Seq(Finished)
  BY DEF Sound, Flown
<1>3. /\ q \in Seq(Orders) /\ Len(q) + 1 = Len(pi) /\ Len(q) \in Nat /\ t \in P
      /\ OneEach(Tasks(q)) /\ Q \subseteq P
      /\ (\A u \in Q : u.id # t.id)
  BY <1>1, <1>2, TaskTail
<1>4. t \in Tickets
  <2>1. b.reserved \subseteq Tickets
    BY <1>1, BookFacts
  <2> QED BY <2>1, <1>2, <1>3
<1>5. g \in Sampled /\ g.id = t.id /\ g.src = t.src /\ g.record = position /\ Task(g) = t
      /\ g.old = NoSource /\ g.new = NoSource
  BY <1>4 DEF Begun, Sampled, Tickets, Task
<1>6. ToSet(rs) \subseteq Finished /\ Y \subseteq Finished
  BY <1>1, <1>2, ElementsOf, BookFacts
<1>19. t.src <= policy
  BY <1>1, <1>2, <1>3 DEF Dated
<1> HIDE DEF t, g, q, R, F, Y, P, Q
<1>7. /\ (\A x \in wo : x.id # t.id) /\ (\A x \in R : x.id # t.id)
      /\ (\A x \in F : x.id # t.id) /\ (\A x \in Y : x.id # t.id)
  BY <1>2, <1>3 DEF Claims, Apart
<1>8. Unique(V) /\ V \in SUBSET Sampled
  BY <1>2, <1>5, <1>7 DEF Unique
<1>9. Claims(Q, V, R, F, Y)
  <2>1. Apart(Q, V)
    BY <1>2, <1>3, <1>5 DEF Claims, Apart
  <2>2. Apart(V, R) /\ Apart(V, F) /\ Apart(V, Y)
    BY <1>2, <1>5, <1>7 DEF Claims, Apart
  <2>3. Apart(Q, R) /\ Apart(Q, F) /\ Apart(Q, Y)
    BY <1>2, <1>3 DEF Claims, Apart
  <2>4. Apart(R, F) /\ Apart(R, Y)
    BY <1>2 DEF Claims
  <2> HIDE DEF V
  <2> QED BY <2>1, <2>2, <2>3, <2>4 DEF Claims
<1>10. \A x \in V \cup R : Task(x) \in b.reserved
  BY <1>2, <1>3, <1>5
<1>11. Q \subseteq b.reserved
  BY <1>2, <1>3
<1>12. Flown(b, q, V, rs, rp)
  <2> HIDE DEF V
  <2> QED BY <1>1, <1>3, <1>8, <1>9, <1>10, <1>11 DEF Flown, R, F, Y, Q
<1>13. b.next = (position + 1) + Len(q)
  BY <1>1, <1>3
<1>14. \A x \in wo \cup R \cup Y : x.record \in Nat /\ x.record < position
  <2>1. \A x \in wo \cup R \cup Y : x.record \in Nat
    BY <1>2, <1>6 DEF Sampled, Finished, R
  <2> QED BY <2>1, <1>1 DEF Recorded
<1>15. Recorded(V \cup R \cup Y, position + 1, records)
  <2> DEFINE H == wo \cup R \cup Y
  <2>1. V \cup R \cup Y = H \cup {g}
    OBVIOUS
  <2>2. position \notin records
    OBVIOUS
  <2>3. \A x \in H : x.record < position + 1 /\ x.record \notin records /\ x.record # position
    BY <1>1, <1>14 DEF Recorded
  <2>4. position < position + 1
    OBVIOUS
  <2>5. \A x, y \in H : x.record = y.record => x.id = y.id
    BY <1>1 DEF Recorded
  <2> HIDE DEF H
  <2>6. Recorded(H \cup {g}, position + 1, records)
    BY <2>2, <2>3, <2>4, <2>5, <1>5 DEF Recorded
  <2> QED BY <2>1, <2>6
<1>16. AllAged(V \cup R \cup Y, policy)
  BY <1>1, <1>5, <1>19 DEF AllAged, Aged
<1>17. Soundly(b, V, rs, position + 1, records, policy)
  <2> HIDE DEF V
  <2> QED BY <1>15, <1>16 DEF Soundly, R, Y
<1>18. Sound(b, q, V, rs, rp, position + 1, records, policy)
  <2> HIDE DEF V
  <2> QED BY <1>1, <1>3, <1>12, <1>13, <1>17 DEF Sound
<1> QED BY <1>18 DEF V, g, q, t

\* A group after a segment under a policy.
Grown(g, policy) == [g EXCEPT !.old = IF @ = NoSource THEN policy ELSE @, !.new = policy]

\* A segment under the policy that is served keeps the ages in order.
LEMMA SegmentSound ==
  ASSUME NEW b, NEW pi, NEW wo, NEW rs, NEW rp, NEW position, NEW records, NEW policy \in Nat,
         Sound(b, pi, wo, rs, rp, position, records, policy), NEW g \in wo
  PROVE  Sound(b, pi, (wo \ {g}) \cup {Grown(g, policy)}, rs, rp, position, records, policy)
<1> DEFINE h == Grown(g, policy)
           V == (wo \ {g}) \cup {h}
           R == ToSet(rs)
           F == ToSet(Tasks(rp))
           Y == ToSet(b.ready)
           P == ToSet(Tasks(pi))
<1>1. /\ Book(b) /\ Flown(b, pi, wo, rs, rp)
      /\ Recorded(wo \cup R \cup Y, position, records) /\ AllAged(wo \cup R \cup Y, policy)
  BY DEF Sound, Soundly
<1>2. /\ Unique(wo) /\ wo \in SUBSET Sampled /\ Claims(P, wo, R, F, Y)
      /\ \A x \in wo \cup R : Task(x) \in b.reserved
  BY DEF Sound, Flown
<1>3. g \in Sampled /\ Aged(g, policy)
  BY <1>1, <1>2 DEF AllAged
<1>4. /\ h \in Sampled /\ h.id = g.id /\ h.src = g.src /\ h.record = g.record
      /\ h.new = policy /\ h.old = IF g.old = NoSource THEN policy ELSE g.old
  BY <1>3 DEF Grown, Sampled
<1>5. Task(h) = Task(g) /\ Aged(h, policy)
  <2>1. Task(h) = Task(g)
    BY <1>4 DEF Task
  <2>2. g.src \in Nat /\ g.old \in Nat \cup {NoSource} /\ g.new \in Nat \cup {NoSource}
    BY <1>3 DEF Sampled
  <2> HIDE DEF h
  <2>3. Aged(h, policy)
    BY <1>3, <1>4, <2>2 DEF Aged, NoSource
  <2> QED BY <2>1, <2>3
<1> HIDE DEF h, R, F, Y, P
<1>6. Unique(V) /\ V \in SUBSET Sampled
  BY <1>2, <1>4 DEF Unique
<1>7. Claims(P, V, R, F, Y)
  BY <1>2, <1>4 DEF Claims, Apart
<1>8. \A x \in V \cup R : Task(x) \in b.reserved
  BY <1>2, <1>5
<1>9. Flown(b, pi, V, rs, rp)
  <2> HIDE DEF V
  <2> QED BY <1>1, <1>6, <1>7, <1>8 DEF Flown, R, F, Y, P
<1>10. Recorded(V \cup R \cup Y, position, records)
  <2>1. \A x \in V \cup R \cup Y : \E y \in wo \cup R \cup Y : x.record = y.record /\ x.id = y.id
    BY <1>4
  <2> HIDE DEF V
  <2> QED BY <1>1, <2>1, RecordedFewer
<1>11. AllAged(V \cup R \cup Y, policy)
  BY <1>1, <1>5 DEF AllAged
<1>12. Sound(b, pi, V, rs, rp, position, records, policy)
  <2> HIDE DEF V
  <2> QED BY <1>9, <1>10, <1>11 DEF Sound, Soundly, R, Y
<1> QED BY <1>12 DEF V, h

\* A group that has sampled moves from the producer to the queue.
LEMMA FinishSound ==
  ASSUME NEW b, NEW pi, NEW wo, NEW rs, NEW rp, NEW position, NEW records, NEW policy,
         Sound(b, pi, wo, rs, rp, position, records, policy), NEW g \in wo, g.old # NoSource
  PROVE  Sound(b, pi, wo \ {g}, Append(rs, g), rp, position, records, policy)
<1> DEFINE V == wo \ {g}
           rt == Append(rs, g)
           R == ToSet(rs)
           T == ToSet(rt)
           F == ToSet(Tasks(rp))
           Y == ToSet(b.ready)
           P == ToSet(Tasks(pi))
<1>1. /\ Book(b) /\ Flown(b, pi, wo, rs, rp)
      /\ Recorded(wo \cup R \cup Y, position, records) /\ AllAged(wo \cup R \cup Y, policy)
  BY DEF Sound, Soundly
<1>2. /\ Unique(wo) /\ wo \in SUBSET Sampled /\ Claims(P, wo, R, F, Y) /\ OneEach(rs)
      /\ rs \in Seq(Finished)
      /\ \A x \in wo \cup R : Task(x) \in b.reserved
  BY DEF Sound, Flown
<1>3. g \in Sampled /\ Aged(g, policy)
  BY <1>1, <1>2 DEF AllAged
<1>4. g \in Finished
  BY <1>3 DEF Aged, Sampled, Finished
<1>5. /\ rt \in Seq(Finished) /\ Len(rt) = Len(rs) + 1 /\ Len(rs) \in Nat
      /\ (\A i \in 1 .. Len(rs) : rt[i] = rs[i]) /\ rt[Len(rs) + 1] = g /\ T = R \cup {g}
  BY <1>2, <1>4, Appended
<1>6. DOMAIN rt = 1 .. Len(rs) + 1 /\ DOMAIN rs = 1 .. Len(rs) /\ \A i \in 1 .. Len(rs) : rs[i] \in R
  BY <1>2, <1>5, ElementsOf
<1> HIDE DEF rt, R, T, F, Y, P
<1>7. \A x \in R : x.id # g.id
  BY <1>2 DEF Claims, Apart
<1>8. OneEach(rt)
  <2> SUFFICES ASSUME NEW i \in 1 .. Len(rs) + 1, NEW j \in 1 .. Len(rs) + 1, rt[i].id = rt[j].id
               PROVE  i = j
    BY <1>6 DEF OneEach
  <2>1. \A k \in 1 .. Len(rs) + 1 : k \in 1 .. Len(rs) \/ k = Len(rs) + 1
    BY <1>5
  <2>2. CASE i \in 1 .. Len(rs) /\ j \in 1 .. Len(rs)
    BY <2>2, <1>2, <1>5, <1>6 DEF OneEach
  <2>3. CASE i = Len(rs) + 1 /\ j \in 1 .. Len(rs)
    BY <2>3, <1>5, <1>6, <1>7
  <2>4. CASE j = Len(rs) + 1 /\ i \in 1 .. Len(rs)
    BY <2>4, <1>5, <1>6, <1>7
  <2> QED BY <2>1, <2>2, <2>3, <2>4
<1>9. Claims(P, V, T, F, Y)
  <2>1. Apart(P, V) /\ Apart(P, T) /\ Apart(P, F) /\ Apart(P, Y)
    BY <1>2, <1>5 DEF Claims, Apart
  <2>2. Apart(V, T)
    BY <1>2, <1>5 DEF Claims, Apart, Unique
  <2>3. Apart(V, F) /\ Apart(V, Y) /\ Apart(T, F) /\ Apart(T, Y)
    BY <1>2, <1>5 DEF Claims, Apart
  <2> HIDE DEF V
  <2> QED BY <2>1, <2>2, <2>3 DEF Claims
<1>10. V \cup T = wo \cup R
  BY <1>5
<1>11. Unique(V) /\ V \in SUBSET Sampled
  BY <1>2 DEF Unique
<1> HIDE DEF V
<1>12. Flown(b, pi, V, rt, rp)
  BY <1>1, <1>2, <1>5, <1>8, <1>9, <1>10, <1>11 DEF Flown, R, T, F, Y, P
<1>13. Soundly(b, V, rt, position, records, policy)
  BY <1>1, <1>10 DEF Soundly, T, Y
<1>14. Sound(b, pi, V, rt, rp, position, records, policy)
  BY <1>12, <1>13 DEF Sound
<1> QED BY <1>14 DEF V, rt

\* The message for a group that failed.
Failure(g) == [kind |-> "discarded", task |-> Task(g)]

\* A failed group leaves its ticket in a reply.
LEMMA FailSound ==
  ASSUME NEW b, NEW pi, NEW wo, NEW rs, NEW rp, NEW position, NEW records, NEW policy,
         Sound(b, pi, wo, rs, rp, position, records, policy), NEW g \in wo
  PROVE  Sound(b, pi, wo \ {g}, rs, Append(rp, Failure(g)), position, records, policy)
<1> DEFINE V == wo \ {g}
           rq == Append(rp, Failure(g))
           t == Task(g)
           n == Len(rp)
           R == ToSet(rs)
           F == ToSet(Tasks(rp))
           G == ToSet(Tasks(rq))
           Y == ToSet(b.ready)
           P == ToSet(Tasks(pi))
<1>1. /\ Book(b) /\ Flown(b, pi, wo, rs, rp)
      /\ Recorded(wo \cup R \cup Y, position, records) /\ AllAged(wo \cup R \cup Y, policy)
  BY DEF Sound, Soundly
<1>2. /\ Unique(wo) /\ wo \in SUBSET Sampled /\ Claims(P, wo, R, F, Y) /\ OneEach(Tasks(rp))
      /\ rp \in Seq(Failures) /\ F \subseteq b.reserved
      /\ \A x \in wo \cup R : Task(x) \in b.reserved
  BY DEF Sound, Flown
<1>3. t \in Tickets /\ t \in b.reserved /\ t.id = g.id
  <2>1. t \in b.reserved /\ t.id = g.id
    BY <1>2 DEF Task
  <2>2. b.reserved \subseteq Tickets
    BY <1>1, BookFacts
  <2> QED BY <2>1, <2>2
<1>4. Failure(g) \in Failures /\ Failure(g).task = t
  <2> HIDE DEF t
  <2> QED BY <1>3 DEF Failure, Failures, t
<1>5. /\ rq \in Seq(Failures) /\ Len(rq) = n + 1 /\ n \in Nat
      /\ (\A i \in 1 .. n : rq[i] = rp[i]) /\ rq[n + 1] = Failure(g)
  <2> HIDE DEF t
  <2> QED BY <1>2, <1>4, Appended
<1>6. DOMAIN rq = 1 .. n + 1 /\ DOMAIN rp = 1 .. n
  BY <1>2, <1>5, ElementsOf
<1> HIDE DEF rq, t, n
<1>7. /\ DOMAIN Tasks(rq) = 1 .. n + 1 /\ DOMAIN Tasks(rp) = 1 .. n
      /\ (\A i \in 1 .. n : Tasks(rq)[i] = Tasks(rp)[i]) /\ Tasks(rq)[n + 1] = t
  <2>1. \A i \in 1 .. n : i \in 1 .. n + 1
    BY <1>5
  <2>2. n + 1 \in 1 .. n + 1
    BY <1>5
  <2> QED BY <1>4, <1>5, <1>6, <2>1, <2>2 DEF Tasks
<1>20. \A k \in 1 .. n + 1 : k \in 1 .. n \/ k = n + 1
  BY <1>5
<1>21. \A k \in 1 .. n : k \in 1 .. n + 1
  BY <1>5
<1>22. n + 1 \in 1 .. n + 1
  BY <1>5
<1>8. G = F \cup {t}
  <2>1. \A x \in G : x \in F \cup {t}
    BY <1>7, <1>20 DEF ToSet
  <2>2. \A x \in F : x \in G
    BY <1>7, <1>21 DEF ToSet
  <2>3. t \in G
    BY <1>7, <1>22 DEF ToSet
  <2> HIDE DEF G, F
  <2> QED BY <2>1, <2>2, <2>3
<1>9. \A i \in 1 .. n : Tasks(rp)[i] \in F
  BY <1>7 DEF ToSet
<1> HIDE DEF R, F, G, Y, P
<1>10. \A x \in F : x.id # t.id
  BY <1>2, <1>3 DEF Claims, Apart
<1>11. OneEach(Tasks(rq))
  <2> SUFFICES ASSUME NEW i \in 1 .. n + 1, NEW j \in 1 .. n + 1,
                      Tasks(rq)[i].id = Tasks(rq)[j].id
               PROVE  i = j
    BY <1>7 DEF OneEach
  <2>1. CASE i \in 1 .. n /\ j \in 1 .. n
    BY <2>1, <1>2, <1>7 DEF OneEach
  <2>2. CASE i = n + 1 /\ j \in 1 .. n
    BY <2>2, <1>7, <1>9, <1>10
  <2>3. CASE j = n + 1 /\ i \in 1 .. n
    BY <2>3, <1>7, <1>9, <1>10
  <2> QED BY <1>20, <2>1, <2>2, <2>3
<1>12. Claims(P, V, R, G, Y)
  <2>1. Apart(P, V) /\ Apart(P, R) /\ Apart(P, G) /\ Apart(P, Y)
    BY <1>2, <1>3, <1>8 DEF Claims, Apart
  <2>2. Apart(V, G)
    BY <1>2, <1>3, <1>8 DEF Claims, Apart, Unique
  <2>3. Apart(R, G)
    BY <1>2, <1>3, <1>8 DEF Claims, Apart
  <2>4. Apart(V, R) /\ Apart(V, Y) /\ Apart(R, Y)
    BY <1>2 DEF Claims, Apart
  <2> HIDE DEF V
  <2> QED BY <2>1, <2>2, <2>3, <2>4 DEF Claims
<1>13. Unique(V) /\ V \in SUBSET Sampled /\ V \subseteq wo
  BY <1>2 DEF Unique
<1>14. G \subseteq b.reserved
  BY <1>2, <1>3, <1>8
<1> HIDE DEF V
<1>15. Flown(b, pi, V, rs, rq)
  BY <1>1, <1>2, <1>5, <1>11, <1>12, <1>13, <1>14 DEF Flown, R, G, Y, P
<1>16. Soundly(b, V, rs, position, records, policy)
  <2>1. V \cup R \cup Y \subseteq wo \cup R \cup Y
    BY <1>13
  <2> DEFINE H == wo \cup R \cup Y
             K == V \cup R \cup Y
  <2>2. K \subseteq H /\ Recorded(H, position, records) /\ AllAged(H, policy)
    BY <2>1, <1>1
  <2> HIDE DEF H, K
  <2>3. Recorded(K, position, records) /\ AllAged(K, policy)
    BY <2>2, RecordedFewer DEF AllAged
  <2> QED BY <2>3 DEF K, R, Y, Soundly
<1>17. Sound(b, pi, V, rs, rq, position, records, policy)
  BY <1>15, <1>16 DEF Sound
<1> QED BY <1>17 DEF V, rq

----------------------------------------------------------------------------
(***************************************************************************)
(* The steps both trainers share.                                          *)
(***************************************************************************)
\* The moments a restart may go back to.
Moments == {[learned |-> disk[s].weights.trained,
             pool |-> {g.record : g \in ToSet(disk[s].state.async.ready)},
             read |-> disk[s].state.async.cursor] : s \in Complete}

LedgerStep == [Ledger!Next]_<<trained, HeldRecords, cursor, Moments>>

\* The moments depend on the disk alone.
LEMMA MomentsSame == ASSUME disk' = disk PROVE Moments' = Moments
BY DEF Moments, Complete

\* A step that changes neither weights nor groups nor the disk.
LEMMA LedgerStays ==
  ASSUME trained' = trained, HeldRecords' = HeldRecords, cursor' = cursor, disk' = disk
  PROVE  LedgerStep
BY MomentsSame DEF LedgerStep

\* A step that at most takes groups away.
LEMMA LedgerDrops ==
  ASSUME trained' = trained, HeldRecords' \subseteq HeldRecords, cursor' = cursor, disk' = disk
  PROVE  LedgerStep
BY MomentsSame DEF LedgerStep, Ledger!Next, Ledger!Drop, Moments

\* The invariant outside a save: what is to be shown of a step that ends there.
LEMMA Calm ==
  ASSUME pc' \notin Saving \cup {"await", "down"}, Flying', Counters', Stored',
         pc' = "snapshot" => /\ buf'.reserved = {} /\ buf'.selected = {}
                             /\ source' = step' /\ step' # 0
  PROVE  LearnerInv'
<1>1. Exchanging' /\ Stopped' /\ Snapped'
  BY DEF Exchanging, Stopped, Snapped
<1>2. Frozen'
  BY DEF Frozen, Freezing
<1>3. Staged'
  BY DEF Staged, Saving
<1> QED BY <1>1, <1>2, <1>3 DEF LearnerInv

\* Without a reservation the exchange may as well be empty.
LEMMA SoundAtRest ==
  ASSUME NEW b, NEW pi, NEW wo, NEW rs, NEW rp, NEW p, NEW r, NEW y,
         Sound(b, pi, wo, rs, rp, p, r, y), b.reserved = {}
  PROVE  /\ Sound(b, <<>>, {}, <<>>, <<>>, p, r, y)
         /\ pi = <<>> /\ wo = {} /\ rs = <<>> /\ rp = <<>>
<1>1. pi = <<>> /\ wo = {} /\ rs = <<>> /\ rp = <<>>
  BY EmptyFlight DEF Sound
<1> QED BY <1>1

\* The invariant after a step of the producer.
LEMMA ProducerMoves ==
  ASSUME LearnerInv, TrainerStays, UNCHANGED <<buf, open, served>>, pc # "await",
         Sound(buf, pipe', working', results', replies', cursor', trained, served),
         cursor' \in Nat, cursor <= cursor', discards' \in 0 .. MaxDiscards,
         pc \in Freezing \cup Saving => cursor' = cursor
  PROVE  LearnerInv'
<1>1. UNCHANGED <<pc, step, source, trained, snap, disk, cadence, crashes, buf, open, served>>
  BY DEF TrainerStays, learner, experiment
<1>2. Exchanging'
  BY <1>1 DEF Exchanging, Flying
<1>3. Counters'
  <2>1. cursor \in Nat /\ trained \subseteq 0 .. cursor - 1
    BY DEF LearnerInv, Counters
  <2>2. trained \subseteq 0 .. cursor' - 1
    <3> SUFFICES ASSUME NEW x \in trained PROVE x \in 0 .. cursor' - 1
      OBVIOUS
    <3>1. x \in Nat /\ x <= cursor - 1 /\ cursor \in Nat
      BY <2>1
    <3>2. cursor' \in Nat /\ cursor <= cursor'
      OBVIOUS
    <3>3. \A a, b, y \in Nat : y <= a - 1 /\ a <= b => y \in 0 .. b - 1
      OBVIOUS
    <3> QED BY <3>1, <3>2, <3>3
  <2>3. Counters
    BY DEF LearnerInv
  <2> QED BY <1>1, <2>2, <2>3 DEF Counters, Updates
<1>4. Stopped' /\ Frozen' /\ Stored' /\ Staged'
  BY <1>1 DEF LearnerInv, Stopped, Frozen, Stored, Staged, Weights
<1>5. Snapped'
  BY <1>1 DEF LearnerInv, Snapped
<1> QED BY <1>2, <1>3, <1>4, <1>5 DEF LearnerInv

\* The producer reads a task.  It is not over its limit, since every group at
\* work and every task on the pipe hold a reservation.
LEMMA TakesTask ==
  ASSUME LearnerInv, TakeTask, TrainerStays PROVE LearnerInv' /\ LedgerStep
<1>1. pipe # <<>> /\ Head(pipe).kind = "task" /\ pipe' = Tail(pipe)
      /\ UNCHANGED <<buf, results, open, served, discards>>
  BY DEF TakeTask
<1>2. pc # "await"
  <2> SUFFICES ASSUME pc = "await" PROVE FALSE
    OBVIOUS
  <2>1. pipe = <<Ask>>
    BY <1>1 DEF LearnerInv, Exchanging, Asking
  <2>2. Head(pipe) = Ask
    BY <2>1
  <2> QED BY <1>1, <2>2 DEF Ask
<1>3. Sound(buf, pipe, working, results, replies, cursor, trained, served)
  BY <1>2 DEF LearnerInv, Exchanging, Flying
<1>4. cursor \in Nat /\ trained \subseteq 0 .. cursor - 1 /\ discards \in 0 .. MaxDiscards
  BY DEF LearnerInv, Counters
<1>5. /\ Cardinality(working) \in Nat /\ Len(pipe) \in Nat
      /\ Cardinality(working) + Len(pipe) <= MaxInflight
  BY <1>3, InFlight DEF Sound
<1>6. ~(Cardinality(working) >= MaxInflight)
  <2>1. MaxInflight \in Nat
    BY CapacityAssumption
  <2>2. Len(pipe) # 0
    <3>1. pipe \in Seq(Orders)
      BY <1>3 DEF Sound, Flown
    <3> QED BY <3>1, <1>1, TailOf
  <2> QED BY <2>1, <2>2, <1>5
<1>7. /\ working' = working \cup {Begun(Head(pipe).task, cursor)}
      /\ cursor' = cursor + 1 /\ replies' = replies
  BY <1>6 DEF TakeTask, Begun
<1>8. Sound(buf, Tail(pipe), working \cup {Begun(Head(pipe).task, cursor)}, results, replies,
            cursor + 1, trained, served)
  BY <1>1, <1>3, <1>4, TaskSound
<1>9. pc \notin Freezing \cup Saving
  <2> SUFFICES ASSUME pc \in Freezing \cup Saving PROVE FALSE
    OBVIOUS
  <2>1. buf.reserved = {}
    BY DEF LearnerInv, Frozen
  <2> QED BY <1>1, <1>3, <2>1, SoundAtRest
<1>10. LearnerInv'
  BY <1>1, <1>2, <1>4, <1>7, <1>8, <1>9, ProducerMoves
<1>11. UNCHANGED <<trained, disk>>
  BY DEF TrainerStays, learner, experiment
<1>12. HeldRecords' = HeldRecords \cup {cursor}
  <2>1. Held' = Held \cup {Begun(Head(pipe).task, cursor)}
    BY <1>1, <1>7 DEF Held
  <2>2. Begun(Head(pipe).task, cursor).record = cursor
    BY DEF Begun
  <2> QED BY <2>1, <2>2 DEF HeldRecords
<1>13. Ledger!Read
  BY <1>7, <1>11, <1>12, MomentsSame DEF Ledger!Read, Moments
<1> QED BY <1>10, <1>13 DEF LedgerStep, Ledger!Next

\* The producer reads the question for its snapshot, and answers: nothing is
\* at work then.
LEMMA TakesSnapshot ==
  ASSUME LearnerInv, TakeSnapshot, TrainerStays PROVE LearnerInv' /\ LedgerStep
<1>1. pipe # <<>> /\ Head(pipe).kind = "snapshot" /\ pipe' = Tail(pipe)
      /\ UNCHANGED <<buf, working, results, cursor, open, served, discards>>
  BY DEF TakeSnapshot
<1>0. UNCHANGED <<pc, step, source, trained, snap, disk, cadence, crashes, buf, open, served>>
  BY <1>1 DEF TrainerStays, learner, experiment
<1>2. pc = "await"
  <2> SUFFICES ASSUME pc # "await" PROVE FALSE
    OBVIOUS
  <2>1. pipe \in Seq(Orders)
    BY DEF LearnerInv, Exchanging, Flying, Sound, Flown
  <2>2. Head(pipe) \in Orders
    BY <2>1, <1>1, TailOf
  <2> QED BY <1>1, <2>2 DEF Orders
<1>3. Asking
  BY <1>2 DEF LearnerInv, Exchanging
<1>4. pipe = <<Ask>> /\ replies = <<>> /\ working = {}
  BY <1>1, <1>3 DEF Asking
<1>5. pipe' = <<>>
  BY <1>1, <1>4
<1>6. replies' = <<Answer(cursor)>>
  BY <1>4 DEF TakeSnapshot, Answer
<1>7. Asking'
  BY <1>0, <1>1, <1>3, <1>5, <1>6 DEF Asking
<1>8. Counters' /\ Stopped' /\ Frozen' /\ Stored' /\ Staged' /\ Snapped'
  BY <1>0, <1>1 DEF LearnerInv, Counters, Stopped, Frozen, Stored, Staged, Weights, Snapped, Updates
<1>9. LearnerInv'
  BY <1>0, <1>2, <1>7, <1>8 DEF LearnerInv, Exchanging
<1>10. HeldRecords' = HeldRecords
  BY <1>1 DEF HeldRecords, Held
<1> QED BY <1>0, <1>1, <1>9, <1>10, LedgerStays

\* The producer samples a segment.
LEMMA Segments ==
  ASSUME LearnerInv, NEW g \in working, Segment(g), TrainerStays PROVE LearnerInv' /\ LedgerStep
<1>1. /\ working' = (working \ {g}) \cup {Grown(g, served)}
      /\ UNCHANGED <<buf, pipe, results, replies, cursor, open, served, discards>>
  BY DEF Segment, Grown
<1>2. pc # "await"
  BY DEF LearnerInv, Exchanging, Asking
<1>3. Sound(buf, pipe, working, results, replies, cursor, trained, served)
  BY <1>2 DEF LearnerInv, Exchanging, Flying
<1>4. cursor \in Nat /\ discards \in 0 .. MaxDiscards /\ served \in Nat
  BY LearnerAssumption DEF LearnerInv, Counters, Updates
<1>5. Sound(buf, pipe, working', results, replies, cursor, trained, served)
  BY <1>1, <1>3, <1>4, SegmentSound
<1>6. LearnerInv'
  BY <1>1, <1>2, <1>4, <1>5, ProducerMoves
<1>7. HeldRecords' = HeldRecords
  <2>1. g \in Sampled
    BY <1>3 DEF Sound, Flown
  <2>2. Grown(g, served).record = g.record
    BY <2>1 DEF Grown, Sampled
  <2> DEFINE h == Grown(g, served)
             K == ToSet(results) \cup ToSet(buf.ready)
  <2>3. Held' = (working \ {g}) \cup {h} \cup K /\ Held = working \cup K /\ h.record = g.record
    BY <1>1, <2>2 DEF Held
  <2> HIDE DEF h, K
  <2> QED BY <2>3 DEF HeldRecords
<1> QED BY <1>1, <1>6, <1>7, LedgerStays DEF TrainerStays, learner, experiment

\* The producer finishes a group.
LEMMA Finishes ==
  ASSUME LearnerInv, NEW g \in working, Finish(g), TrainerStays PROVE LearnerInv' /\ LedgerStep
<1>1. /\ g.old # NoSource /\ results' = Append(results, g) /\ working' = working \ {g}
      /\ UNCHANGED <<buf, pipe, replies, cursor, open, served, discards>>
  BY DEF Finish
<1>2. pc # "await"
  BY DEF LearnerInv, Exchanging, Asking
<1>3. Sound(buf, pipe, working, results, replies, cursor, trained, served)
  BY <1>2 DEF LearnerInv, Exchanging, Flying
<1>4. cursor \in Nat /\ discards \in 0 .. MaxDiscards
  BY DEF LearnerInv, Counters
<1>5. Sound(buf, pipe, working', results', replies, cursor, trained, served)
  BY <1>1, <1>3, FinishSound
<1>6. LearnerInv'
  BY <1>1, <1>2, <1>4, <1>5, ProducerMoves
<1>7. HeldRecords' = HeldRecords
  <2>1. g \in Sampled /\ Aged(g, served) /\ results \in Seq(Finished)
    BY <1>3 DEF Sound, Soundly, AllAged, Flown
  <2>2. g \in Finished
    BY <1>1, <2>1 DEF Aged, Sampled, Finished
  <2>3. ToSet(results') = ToSet(results) \cup {g}
    BY <1>1, <2>1, <2>2, Appended
  <2>4. Held' = Held
    BY <1>1, <2>3 DEF Held
  <2> QED BY <2>4 DEF HeldRecords
<1> QED BY <1>1, <1>6, <1>7, LedgerStays DEF TrainerStays, learner, experiment

\* A group fails after its retries.
LEMMA Fails ==
  ASSUME LearnerInv, GroupFails PROVE LearnerInv' /\ LedgerStep
<1> PICK g \in working : Fail(g) /\ TrainerStays
  BY DEF GroupFails
<1>1. /\ discards < MaxDiscards /\ discards' = discards + 1
      /\ replies' = Append(replies, Failure(g)) /\ working' = working \ {g}
      /\ UNCHANGED <<buf, pipe, results, cursor, open, served>>
  BY DEF Fail, Failure
<1>2. pc # "await"
  BY DEF LearnerInv, Exchanging, Asking
<1>3. Sound(buf, pipe, working, results, replies, cursor, trained, served)
  BY <1>2 DEF LearnerInv, Exchanging, Flying
<1>4. cursor \in Nat /\ discards' \in 0 .. MaxDiscards
  BY <1>1, CapacityAssumption DEF LearnerInv, Counters
<1>5. Sound(buf, pipe, working', results, replies', cursor, trained, served)
  BY <1>1, <1>3, FailSound
<1>6. LearnerInv'
  BY <1>1, <1>2, <1>4, <1>5, ProducerMoves
<1>7. HeldRecords' \subseteq HeldRecords
  BY <1>1 DEF HeldRecords, Held
<1> QED BY <1>1, <1>6, <1>7, LedgerDrops DEF TrainerStays, learner, experiment

\* What the producer does of itself.
LEMMA Samples ==
  ASSUME LearnerInv, Sampling PROVE LearnerInv' /\ LedgerStep
BY TakesTask, TakesSnapshot, Segments, Finishes DEF Sampling, Produce

\* A buffer without fault lets the trainer go on.
LEMMA GotoIs ==
  ASSUME NEW b, NEW next, b.fault = FALSE, Goto(b, next)
  PROVE  buf' = b /\ pc' = next
BY DEF Goto

\* The counters, when no step touches them.
LEMMA SameCounters ==
  ASSUME Counters, UNCHANGED <<cursor, step, source, trained, served, discards, crashes, open, cadence>>
  PROVE  Counters'
BY DEF Counters, Updates

\* One round of AsyncRuntime.wait().
LEMMA DrainKeeps ==
  ASSUME LearnerInv, NEW next, Drain(next), pc \notin Freezing \cup Saving \cup {"down"},
         next \notin Saving \cup {"await", "down"},
         next = "snapshot" => buf.selected = {} /\ source = step /\ step # 0
  PROVE  /\ LearnerInv' /\ LedgerStep
         /\ buf'.selected = buf.selected
         /\ pc' = pc \/ (pc' = next /\ buf'.reserved = {})
<1> DEFINE b == Pumped(buf)
<1>1. Sound(buf, pipe, working, results, replies, cursor, trained, served)
  BY DEF LearnerInv, Exchanging, Flying, Freezing
<1>2. /\ Sound(b, pipe, working, <<>>, <<>>, cursor, trained, served)
      /\ Delivery(buf, b, pipe, working, results)
  BY <1>1, PumpSound
<1>3. b.fault = FALSE
  BY <1>2, BookFacts DEF Sound
<1>4. /\ Goto(b, IF Drained(b) THEN next ELSE pc) /\ results' = <<>> /\ replies' = <<>>
      /\ UNCHANGED <<open, served, cursor, discards, working, disk, cadence, crashes, pipe,
                     step, source, trained, snap>>
  BY DEF Drain, Received, Quietly, experiment, learner
<1> HIDE DEF b
<1>5. buf' = b /\ pc' = IF Drained(b) THEN next ELSE pc
  BY <1>3, <1>4, GotoIs
<1>6. Flying'
  BY <1>2, <1>4, <1>5 DEF Flying
<1>7. Counters' /\ Stored'
  BY <1>4, SameCounters DEF LearnerInv, Stored
<1>8. buf'.selected = buf.selected
  BY <1>2, <1>5 DEF Delivery
<1>9. pc' = pc \/ (pc' = next /\ buf'.reserved = {})
  BY <1>5 DEF Drained
<1>10. LearnerInv'
  <2>1. pc' \notin Saving \cup {"await", "down"}
    BY <1>9 DEF Freezing
  <2>2. pc' = "snapshot" => buf'.reserved = {} /\ buf'.selected = {} /\ source' = step' /\ step' # 0
    <3> SUFFICES ASSUME pc' = "snapshot"
                 PROVE  buf'.reserved = {} /\ buf'.selected = {} /\ source' = step' /\ step' # 0
      OBVIOUS
    <3>1. pc # "snapshot"
      BY DEF Freezing
    <3>2. next = "snapshot" /\ buf'.reserved = {}
      BY <1>9, <3>1
    <3>3. source' = source /\ step' = step
      BY <1>4
    <3> QED BY <1>8, <3>2, <3>3
  <2> QED BY <1>6, <1>7, <2>1, <2>2, Calm
<1>11. HeldRecords' = HeldRecords
  <2>1. ToSet(b.ready) = ToSet(buf.ready) \cup ToSet(results)
    BY <1>2 DEF Delivery
  <2>0. ToSet(<<>>) = {}
    BY DEF ToSet
  <2>2. Held' = Held
    BY <1>4, <1>5, <2>0, <2>1 DEF Held
  <2> QED BY <2>2 DEF HeldRecords
<1> QED BY <1>4, <1>8, <1>9, <1>10, <1>11, LedgerStays

\* The request for a snapshot, in a loop that has drained.
LEMMA RequestKeeps ==
  ASSUME LearnerInv, RequestSnapshot
  PROVE  LearnerInv' /\ LedgerStep /\ pc' = "await" /\ buf' = buf
<1>1. pc = "snapshot" /\ buf.reserved = {} /\ buf.selected = {} /\ source = step /\ step # 0
  BY DEF RequestSnapshot, LearnerInv, Frozen, Freezing
<1>2. Sound(buf, pipe, working, results, replies, cursor, trained, served)
  BY <1>1 DEF LearnerInv, Exchanging, Flying
<1>3. /\ Sound(buf, <<>>, {}, <<>>, <<>>, cursor, trained, served)
      /\ pipe = <<>> /\ working = {} /\ results = <<>> /\ replies = <<>>
  BY <1>1, <1>2, SoundAtRest
<1>4. buf.fault = FALSE
  BY <1>2, BookFacts DEF Sound
<1>5. /\ Goto(buf, "await") /\ pipe' = Append(pipe, Ask)
      /\ UNCHANGED <<results, replies, step, source, trained, snap,
                     open, served, cursor, discards, working, disk, cadence, crashes>>
  BY <1>1 DEF RequestSnapshot, Ask, Quietly, experiment, learner
<1>6. buf' = buf /\ pc' = "await"
  BY <1>4, <1>5, GotoIs
<1>7. pipe' = <<Ask>>
  BY <1>3, <1>5
<1>8. Asking'
  BY <1>1, <1>3, <1>5, <1>6, <1>7 DEF Asking
<1>9. Counters' /\ Stored'
  BY <1>5, SameCounters DEF LearnerInv, Stored
<1>10. Frozen' /\ Snapped' /\ Staged' /\ Stopped'
  BY <1>1, <1>5, <1>6 DEF Frozen, Snapped, Staged, Stopped, Saving
<1>11. LearnerInv'
  BY <1>6, <1>8, <1>9, <1>10 DEF LearnerInv, Exchanging
<1>12. HeldRecords' = HeldRecords
  BY <1>5, <1>6 DEF HeldRecords, Held
<1> QED BY <1>5, <1>6, <1>11, <1>12, LedgerStays

\* A pump that finds nothing.
LEMMA PumpedNothing ==
  ASSUME NEW b \in Buffers, results = <<>>, replies = <<>>
  PROVE  Pumped(b) = b
<1>1. /\ ToSet(<<>>) = {} /\ Tasks(<<>>) = <<>> /\ OneEach(<<>>)
      /\ <<>> \in Seq(Finished) /\ <<>> \in Seq(Failures)
  BY NoTasks DEF ToSet
<1>2. Pumped(b) = Delivered(b, <<>>, <<>>)
  <2>1. Apart(ToSet(results), ToSet(Tasks(replies)))
    BY <1>1 DEF Apart
  <2> QED BY <1>1, <2>1, PumpedDelivers
<1>3. b.reserved \ (Tasked({}) \cup {}) = b.reserved
  BY DEF Tasked
<1>4. b.ready \o <<>> = b.ready /\ b.dropped + Len(<<>>) = b.dropped
  BY DEF Buffers
<1>5. Delivered(b, <<>>, <<>>) = Booked(b, b.reserved, b.ready, b.dropped)
  BY <1>1, <1>3, <1>4 DEF Delivered
<1> QED BY <1>2, <1>5, BookedSame

\* The wait for the snapshot: either it is not there yet, or it is the picture
\* of buffer and source.
LEMMA ReceiveKeeps ==
  ASSUME LearnerInv, NEW next \in {"invalidate", "asleep"}, ReceiveSnapshot(next)
  PROVE  /\ LearnerInv' /\ LedgerStep /\ pc' \in {"await", next} /\ buf' = buf
<1> DEFINE b == Pumped(buf)
           m == [buf EXCEPT !.mail = cursor]
<1>1. pc = "await" /\ buf.reserved = {} /\ buf.selected = {} /\ source = step /\ step # 0
  BY DEF ReceiveSnapshot, LearnerInv, Frozen, Freezing
<1>2. Asking
  BY <1>1 DEF LearnerInv, Exchanging
<1>3. /\ Sound(buf, <<>>, {}, <<>>, <<>>, cursor, trained, served)
      /\ working = {} /\ results = <<>>
  BY <1>2 DEF Asking
<1>4. buf \in Buffers /\ buf.mail = None /\ buf.fault = FALSE
  BY <1>3, BookFacts DEF Sound
<1>5. /\ results' = <<>> /\ replies' = <<>>
      /\ UNCHANGED <<pipe, step, source, trained,
                     open, served, cursor, discards, working, disk, cadence, crashes>>
  BY DEF ReceiveSnapshot, Received, Quietly, experiment
<1>6. IF b.mail = None
      THEN Goto(b, "await") /\ UNCHANGED snap
      ELSE /\ Goto([b EXCEPT !.mail = None], next)
           /\ snap' = [step |-> step, async |-> Exported(b, b.mail)]
  BY DEF ReceiveSnapshot
<1>7. Counters' /\ Stored'
  BY <1>5, SameCounters DEF LearnerInv, Stored
<1>8. cursor # None
  BY NoneAssumption DEF LearnerInv, Counters
<1>9. CASE pipe = <<Ask>> /\ replies = <<>>
  <2>1. b = buf
    BY <1>3, <1>4, <1>9, PumpedNothing
  <2> HIDE DEF b
  <2>2. Goto(buf, "await") /\ snap' = snap
    BY <1>4, <1>6, <2>1
  <2>3. buf' = buf /\ pc' = "await"
    BY <1>4, <2>2, GotoIs
  <2>4. Asking'
    BY <1>1, <1>3, <1>5, <1>9, <2>3 DEF Asking
  <2>5. Frozen' /\ Snapped' /\ Staged' /\ Stopped'
    BY <1>1, <1>5, <2>3 DEF Frozen, Snapped, Staged, Stopped, Saving
  <2>6. LearnerInv'
    BY <1>7, <2>3, <2>4, <2>5 DEF LearnerInv, Exchanging
  <2>7. HeldRecords' = HeldRecords
    BY <1>3, <1>5, <2>3 DEF HeldRecords, Held
  <2> QED BY <1>5, <2>3, <2>6, <2>7, LedgerStays
<1>10. CASE pipe = <<>> /\ replies = <<Answer(cursor)>>
  <2>1. b = m
    BY <1>3, <1>4, <1>10, PumpedSnapshot
  <2>2. /\ m.mail = cursor /\ [m EXCEPT !.mail = None] = buf
        /\ Exported(m, cursor) = Exported(buf, cursor)
    BY <1>4 DEF Buffers, Exported
  <2> HIDE DEF b, m
  <2>3. Goto(buf, next) /\ snap' = [step |-> step, async |-> Exported(buf, cursor)]
    BY <1>6, <1>8, <2>1, <2>2
  <2>4. buf' = buf /\ pc' = next
    BY <1>4, <2>3, GotoIs
  <2>5. Flying'
    BY <1>3, <1>5, <1>10, <2>4 DEF Flying
  <2>6. Exchanging' /\ Stopped' /\ Staged'
    BY <2>4, <2>5 DEF Exchanging, Stopped, Staged
  <2>7. Frozen' /\ Snapped'
    BY <1>1, <1>5, <2>3, <2>4 DEF Frozen, Snapped
  <2>8. LearnerInv'
    BY <1>7, <2>6, <2>7 DEF LearnerInv
  <2>9. HeldRecords' = HeldRecords
    BY <1>3, <1>5, <2>4 DEF HeldRecords, Held
  <2> QED BY <1>5, <2>4, <2>8, <2>9, LedgerStays
<1> QED BY <1>2, <1>9, <1>10 DEF Asking

----------------------------------------------------------------------------
\* The restart gives back the buffer of the snapshot.
LEMMA RestoredExported ==
  ASSUME NEW b, Book(b), b.reserved = {}, b.selected = {}, NEW position
  PROVE  Restored(Exported(b, position)) = b
<1> DEFINE s == Exported(b, position)
<1>1. /\ s.next = b.next /\ s.ready = b.ready /\ s.consumed = b.consumed /\ s.dropped = b.dropped
  BY DEF Exported
<1>2. /\ b \in Buffers /\ b.mail = None /\ b.fault = FALSE /\ Len(b.ready) \in Nat
      /\ DOMAIN b.ready = 1 .. Len(b.ready) /\ b.consumed \in Nat /\ b.dropped \in Nat
  BY BookFacts
<1>3. Cardinality(b.reserved) = 0
  BY FS_EmptySet
<1> HIDE DEF s
<1>4. Restorable(s)
  <2>1. \A i, j \in 1 .. Len(b.ready) : i # j => b.ready[i].id # b.ready[j].id
    BY <1>2 DEF Book, OneEach
  <2>2. \A i \in 1 .. Len(b.ready) : b.ready[i].id < b.next
    <3>1. b.ready \in Seq(Finished)
      BY BookFacts
    <3>2. \A i \in 1 .. Len(b.ready) : b.ready[i] \in ToSet(b.ready)
      BY <3>1, ElementsOf
    <3> QED BY <3>2 DEF Book
  <2>3. Len(b.ready) <= MaxBuffer
    <3>1. Cardinality(b.reserved) + Len(b.ready) <= MaxBuffer
      BY DEF Book
    <3> QED BY <3>1, <1>2, <1>3
  <2>4. b.next = b.consumed + b.dropped + Len(b.ready)
    <3>1. b.next = b.consumed + b.dropped + Len(b.ready) + Cardinality(b.reserved)
      BY DEF Book
    <3> QED BY <3>1, <1>2, <1>3
  <2> QED BY <1>1, <2>1, <2>2, <2>3, <2>4 DEF Restorable
<1>5. Restored(s) = [EmptyBuffer EXCEPT !.next = b.next, !.ready = b.ready,
                       !.consumed = b.consumed, !.dropped = b.dropped, !.fault = FALSE]
  BY <1>1, <1>4 DEF Restored
<1> DEFINE r == [next |-> b.next, reserved |-> {}, ready |-> b.ready, selected |-> {},
                  consumed |-> b.consumed, dropped |-> b.dropped, mail |-> None, fault |-> FALSE]
<1>6. Restored(s) = r
  BY <1>5 DEF EmptyBuffer
<1>7. b = r
  BY <1>2 DEF Buffers
<1> HIDE DEF r
<1> QED BY <1>6, <1>7 DEF s

\* The ready groups of a restored buffer are those of the snapshot.
LEMMA RestoredReady == ASSUME NEW s PROVE Restored(s).ready = s.ready
BY DEF Restored, EmptyBuffer

----------------------------------------------------------------------------
\* A step of a save, which replaces the directory of the step: what it must
\* write.
LEMMA HereKeeps ==
  ASSUME LearnerInv, pc \in Saving, NEW d, Here(d), OnDisk, UNCHANGED snap,
         pc' \notin Freezing \cup {"down"}, IsDirectory(d), d.seal # None => Whole(d, step),
         pc' \in Saving \ {"invalidate", "asleep"} => d.seal = None,
         pc' \in {"mark", "seal"} => d.weights = Weights,
         (pc' = "state" /\ d.mark) => d.weights = Weights,
         pc' = "seal" => d.state = snap,
         Directory!Listed(d) => /\ d.weights.trained = trained
                                /\ d.state.async.cursor = cursor
                                /\ {g.record : g \in ToSet(d.state.async.ready)} = HeldRecords
  PROVE  /\ LearnerInv' /\ LedgerStep /\ buf' = buf /\ disk'[step] = d
         /\ \A s \in 1 .. MaxUpdates : s # step => disk'[s] = disk[s]
<1>1. /\ UNCHANGED <<buf, pipe, working, results, replies, cursor, discards, open, served,
                     step, source, trained, cadence, crashes, snap>>
      /\ disk' = [disk EXCEPT ![step] = d]
  BY DEF OnDisk, Here, exchange, producer
<1>2. step \in 1 .. MaxUpdates
  BY LearnerAssumption DEF LearnerInv, Frozen, Counters, Updates
<1>3. disk = [s \in 1 .. MaxUpdates |-> disk[s]]
  BY DEF LearnerInv, Stored
<1>4. /\ disk' = [s \in 1 .. MaxUpdates |-> disk'[s]] /\ disk'[step] = d
      /\ \A s \in 1 .. MaxUpdates : s # step => disk'[s] = disk[s]
  BY <1>1, <1>2, <1>3
<1>5. Stored'
  <2>1. \A s \in 1 .. MaxUpdates : IsDirectory(disk[s]) /\ (disk[s].seal # None => Whole(disk[s], s))
    <3>1. Stored
      BY DEF LearnerInv
    <3> QED BY <3>1 DEF Stored
  <2>2. \A s \in 1 .. MaxUpdates : IsDirectory(disk'[s]) /\ (disk'[s].seal # None => Whole(disk'[s], s))
    BY <1>4, <2>1
  <2> QED BY <1>4, <2>2 DEF Stored
<1>6. Counters' /\ Stopped'
  BY <1>1, SameCounters DEF LearnerInv, Stopped
<1>7. Exchanging'
  <2>1. pc # "await" /\ pc' # "await"
    BY DEF Freezing, Saving
  <2> QED BY <1>1, <2>1 DEF LearnerInv, Exchanging, Flying
<1>8. Frozen' /\ Snapped'
  BY <1>1 DEF LearnerInv, Frozen, Snapped
<1>9. Staged'
  <2>1. Weights' = Weights
    BY <1>1 DEF Weights
  <2>2. disk'[step'] = d /\ snap' = snap
    BY <1>1, <1>4
  <2>3. pc' \in Saving \ {"invalidate", "asleep"} => disk'[step'].seal = None
    BY <2>2
  <2>4. pc' \in {"mark", "seal"} => disk'[step'].weights = Weights'
    BY <2>1, <2>2
  <2>5. (pc' = "state" /\ disk'[step'].mark) => disk'[step'].weights = Weights'
    BY <2>1, <2>2
  <2>6. pc' = "seal" => disk'[step'].state = snap'
    BY <2>2
  <2> QED BY <2>3, <2>4, <2>5, <2>6 DEF Staged
<1>10. LearnerInv'
  BY <1>5, <1>6, <1>7, <1>8, <1>9 DEF LearnerInv
<1>11. HeldRecords' = HeldRecords
  BY <1>1 DEF HeldRecords, Held
<1> DEFINE M(x) == [learned |-> x.weights.trained,
                    pool |-> {g.record : g \in ToSet(x.state.async.ready)},
                    read |-> x.state.async.cursor]
<1>12. Moments = {M(disk[s]) : s \in Complete} /\ Moments' = {M(disk'[s]) : s \in Complete'}
  BY DEF Moments
<1>13. DOMAIN disk = 1 .. MaxUpdates /\ DOMAIN disk' = 1 .. MaxUpdates
  BY <1>3, <1>4
<1>14. \A s \in Complete' : s = step \/ (s \in Complete /\ disk'[s] = disk[s])
  BY <1>4, <1>13 DEF Complete
<1>15. step \in Complete' => Directory!Listed(d)
  BY <1>4 DEF Complete
<1>16. Directory!Listed(d) => M(d) = Ledger!Moment
  BY DEF Ledger!Moment
<1> HIDE DEF M
<1>17. Moments' \subseteq Moments \cup {Ledger!Moment}
  BY <1>4, <1>12, <1>14, <1>15, <1>16
<1>18. LedgerStep
  BY <1>1, <1>11, <1>17 DEF LedgerStep, Ledger!Next, Ledger!Keep, Moments
<1> QED BY <1>1, <1>4, <1>10, <1>18

\* The directory a save works on.
LEMMA DirectoryOfStep ==
  ASSUME LearnerInv, pc \in Saving
  PROVE  /\ step \in 1 .. MaxUpdates /\ IsDirectory(disk[step])
         /\ pc \notin {"invalidate", "asleep"} => disk[step].seal = None
<1>1. step \in 1 .. MaxUpdates
  BY LearnerAssumption DEF LearnerInv, Frozen, Counters, Updates
<1>2. Stored /\ Staged
  BY DEF LearnerInv
<1> QED BY <1>1, <1>2 DEF Stored, Staged

\* A directory by its parts.
LEMMA DirectoryIs ==
  ASSUME NEW d, NEW w, NEW m \in BOOLEAN, NEW t, NEW l,
         d = [weights |-> w, mark |-> m, state |-> t, seal |-> l]
  PROVE  IsDirectory(d) /\ d.weights = w /\ d.mark = m /\ d.state = t /\ d.seal = l
BY DEF IsDirectory

\* A directory with another mark.
LEMMA Remarked ==
  ASSUME NEW d, IsDirectory(d), NEW n
  PROVE  [d EXCEPT !.mark = n] = [weights |-> d.weights, mark |-> n, state |-> d.state, seal |-> d.seal]
<1> DEFINE w == d.weights
           m == d.mark
           t == d.state
           l == d.seal
<1>1. d = [weights |-> w, mark |-> m, state |-> t, seal |-> l]
  BY DEF IsDirectory
<1> HIDE DEF w, m, t, l
<1>2. [[weights |-> w, mark |-> m, state |-> t, seal |-> l] EXCEPT !.mark = n]
        = [weights |-> w, mark |-> n, state |-> t, seal |-> l]
  OBVIOUS
<1>3. [d EXCEPT !.mark = n] = [weights |-> w, mark |-> n, state |-> t, seal |-> l]
  BY <1>1, <1>2, Zenon
<1> QED BY <1>3 DEF w, t, l

\* The old commit is hidden (AsyncCheckpoint.invalidate).
LEMMA InvalidateKeeps ==
  ASSUME LearnerInv, NEW next, Invalidate(next),
         next = "unmark" \/ (next = "state" /\ ~disk[step].mark)
  PROVE  /\ LearnerInv' /\ LedgerStep /\ buf' = buf /\ pc' = next
         /\ disk'[step].mark = disk[step].mark
         /\ \A s \in 1 .. MaxUpdates : s # step => disk'[s] = disk[s]
<1> DEFINE d == Directory!Invalidate(disk[step])
<1>1. pc = "invalidate" /\ pc \in Saving /\ Here(d) /\ pc' = next /\ OnDisk /\ snap' = snap
  BY DEF Invalidate, Saving
<1>2. IsDirectory(disk[step])
  BY <1>1, DirectoryOfStep
<1>3. IsDirectory(d) /\ d.seal = None /\ d.mark = disk[step].mark
  BY <1>2 DEF IsDirectory, Directory!Invalidate
<1> HIDE DEF d
<1>4. ~Directory!Listed(d)
  BY <1>3 DEF Directory!Listed
<1>5. pc' \notin Freezing \cup {"down"} /\ pc' \notin {"mark", "seal"} /\ ~(pc' = "state" /\ d.mark)
  BY <1>1, <1>3 DEF Freezing
<1>6. /\ LearnerInv' /\ LedgerStep /\ buf' = buf /\ disk'[step] = d
      /\ \A s \in 1 .. MaxUpdates : s # step => disk'[s] = disk[s]
  BY <1>1, <1>3, <1>4, <1>5, HereKeeps
<1> QED BY <1>1, <1>3, <1>6

\* The parts of the model are written and marked (RLCheckpointManager._save).
LEMMA SaveModelKeeps ==
  ASSUME LearnerInv, SaveModel
  PROVE  /\ LearnerInv' /\ LedgerStep /\ buf' = buf
         /\ \/ pc = "unmark" /\ pc' = "overwrite"
            \/ pc = "overwrite" /\ pc' = "persist"
            \/ pc = "persist" /\ pc' = "mark"
            \/ pc = "mark" /\ pc' = "state"
         /\ pc = "mark" => disk'[step].mark
         /\ pc # "mark" => (disk'[step].mark => disk[step].mark)
         /\ \A s \in 1 .. MaxUpdates : s # step => disk'[s] = disk[s]
<1> DEFINE e == disk[step]
<1>1. pc \in {"unmark", "overwrite", "persist", "mark"} /\ OnDisk /\ snap' = snap
  BY DEF SaveModel
<1>2. IsDirectory(e) /\ e.seal = None
  <2>1. pc \in Saving /\ pc \notin {"invalidate", "asleep"}
    BY <1>1 DEF Saving
  <2> QED BY <2>1, DirectoryOfStep
<1>3. pc = "mark" => e.weights = Weights
  BY DEF LearnerInv, Staged
<1> HIDE DEF e
<1>4. PICK d : /\ Here(d) /\ IsDirectory(d) /\ d.seal = None
               /\ \/ pc = "unmark" /\ pc' = "overwrite" /\ d.mark = FALSE
                  \/ pc = "overwrite" /\ pc' = "persist" /\ d.mark = e.mark
                  \/ pc = "persist" /\ pc' = "mark" /\ d.mark = e.mark /\ d.weights = Weights
                  \/ pc = "mark" /\ pc' = "state" /\ d.mark /\ d.weights = Weights
  <2>1. CASE pc = "unmark"
    <3>1. Here(Directory!Unmark(e)) /\ pc' = "overwrite"
      BY <2>1 DEF SaveModel, e
    <3>2. /\ IsDirectory(Directory!Unmark(e)) /\ Directory!Unmark(e).seal = None
          /\ Directory!Unmark(e).mark = FALSE
      <4>1. Directory!Unmark(e) = [weights |-> e.weights, mark |-> FALSE, state |-> e.state, seal |-> e.seal]
        BY <1>2, Remarked DEF Directory!Unmark
      <4> DEFINE d == Directory!Unmark(e)
      <4> HIDE DEF d
      <4>2. IsDirectory(d) /\ d.mark = FALSE /\ d.seal = e.seal
        <5>1. d = [weights |-> e.weights, mark |-> FALSE, state |-> e.state, seal |-> e.seal]
          BY <4>1 DEF d
        <5> QED BY <5>1, DirectoryIs
      <4> QED BY <1>2, <4>2 DEF d
    <3> QED BY <2>1, <3>1, <3>2
  <2>2. CASE pc = "overwrite"
    <3>1. Here(Directory!Overwrite(e)) /\ pc' = "persist"
      BY <2>2 DEF SaveModel, e
    <3>2. /\ IsDirectory(Directory!Overwrite(e)) /\ Directory!Overwrite(e).seal = None
          /\ Directory!Overwrite(e).mark = e.mark
      BY <1>2 DEF IsDirectory, Directory!Overwrite
    <3> QED BY <2>2, <3>1, <3>2
  <2>3. CASE pc = "persist"
    <3> DEFINE d == Directory!Persist(e, Weights)
    <3>1. Here(d) /\ pc' = "mark"
      BY <2>3 DEF SaveModel, e, Weights
    <3>2. IsDirectory(d) /\ d.seal = None /\ d.mark = e.mark /\ d.weights = Weights
      BY <1>2 DEF IsDirectory, Directory!Persist
    <3> HIDE DEF d
    <3> QED BY <2>3, <3>1, <3>2
  <2>4. CASE pc = "mark"
    <3> DEFINE d == Directory!Mark(e)
    <3>1. Here(d) /\ pc' = "state"
      BY <2>4 DEF SaveModel, e
    <3>2. IsDirectory(d) /\ d.seal = None /\ d.mark /\ d.weights = Weights
      <4>1. d = [weights |-> e.weights, mark |-> TRUE, state |-> e.state, seal |-> e.seal]
        BY <1>2, Remarked DEF Directory!Mark
      <4> HIDE DEF d
      <4>2. IsDirectory(d) /\ d.weights = e.weights /\ d.mark = TRUE /\ d.seal = e.seal
        BY <4>1, DirectoryIs
      <4> QED BY <1>2, <1>3, <2>4, <4>2
    <3> HIDE DEF d
    <3> QED BY <2>4, <3>1, <3>2
  <2> QED BY <1>1, <2>1, <2>2, <2>3, <2>4
<1>5. ~Directory!Listed(d)
  BY <1>4 DEF Directory!Listed
<1>6. pc \in Saving /\ pc' \notin Freezing \cup {"down"} /\ pc' # "seal"
      /\ (pc' = "mark" => d.weights = Weights) /\ (pc' = "state" => d.weights = Weights)
  BY <1>4 DEF Saving, Freezing
<1>7. /\ LearnerInv' /\ LedgerStep /\ buf' = buf /\ disk'[step] = d
      /\ \A s \in 1 .. MaxUpdates : s # step => disk'[s] = disk[s]
  BY <1>1, <1>4, <1>5, <1>6, HereKeeps
<1> QED BY <1>4, <1>7 DEF e

\* The state is written, if the model is complete (AsyncCheckpoint.commit).
LEMMA CommitStateKeeps ==
  ASSUME LearnerInv, CommitState
  PROVE  /\ LearnerInv' /\ LedgerStep /\ buf' = buf /\ pc = "state"
         /\ pc' = IF disk[step].mark THEN "seal" ELSE "failed"
         /\ disk'[step].mark = disk[step].mark
         /\ \A s \in 1 .. MaxUpdates : s # step => disk'[s] = disk[s]
<1> DEFINE e == disk[step]
<1>1. pc = "state" /\ pc \in Saving /\ OnDisk /\ snap' = snap
  BY DEF CommitState, Saving
<1>2. IsDirectory(e) /\ e.seal = None /\ step \in 1 .. MaxUpdates
  BY <1>1, DirectoryOfStep
<1>3. e.mark => e.weights = Weights
  BY <1>1 DEF LearnerInv, Staged
<1>4. CASE e.mark
  <2> DEFINE d == Directory!WriteState(e, snap)
  <2>1. Here(d) /\ pc' = "seal"
    BY <1>4 DEF CommitState
  <2>2. IsDirectory(d) /\ d.seal = None /\ d.mark = e.mark /\ d.weights = Weights /\ d.state = snap
    <3>1. d = [weights |-> e.weights, mark |-> e.mark, state |-> snap, seal |-> e.seal]
      BY <1>2 DEF IsDirectory, Directory!WriteState
    <3>2. e.mark \in BOOLEAN
      BY <1>2 DEF IsDirectory
    <3> HIDE DEF d, e
    <3>3. IsDirectory(d) /\ d.weights = e.weights /\ d.mark = e.mark /\ d.state = snap /\ d.seal = e.seal
      BY <3>1, <3>2, DirectoryIs
    <3> QED BY <1>2, <1>3, <1>4, <3>3
  <2> HIDE DEF d, e
  <2>3. ~Directory!Listed(d)
    BY <2>2 DEF Directory!Listed
  <2>4. pc' \notin Freezing \cup {"down"}
    BY <2>1 DEF Freezing
  <2>5. /\ LearnerInv' /\ LedgerStep /\ buf' = buf /\ disk'[step] = d
        /\ \A s \in 1 .. MaxUpdates : s # step => disk'[s] = disk[s]
    BY <1>1, <2>1, <2>2, <2>3, <2>4, HereKeeps
  <2> QED BY <1>1, <1>4, <2>1, <2>2, <2>5 DEF e
<1>5. CASE ~e.mark
  <2>1. pc' = "failed" /\ disk' = disk
    BY <1>5 DEF CommitState
  <2>2. UNCHANGED <<buf, pipe, working, results, replies, cursor, discards, open, served,
                    step, source, trained, cadence, crashes, snap>>
    BY <1>1 DEF OnDisk, exchange, producer
  <2>3. Flying'
    BY <1>1, <2>2 DEF LearnerInv, Exchanging, Flying
  <2>4. Counters' /\ Stored'
    BY <2>1, <2>2, SameCounters DEF LearnerInv, Stored
  <2>5. LearnerInv'
    BY <2>1, <2>3, <2>4, Calm DEF Saving
  <2>6. HeldRecords' = HeldRecords
    BY <2>2 DEF HeldRecords, Held
  <2> QED BY <1>1, <1>5, <2>1, <2>2, <2>5, <2>6, LedgerStays
<1> QED BY <1>4, <1>5

\* The manifest is written, and the directory becomes complete.
LEMMA CommitSealKeeps ==
  ASSUME LearnerInv, NEW next, CommitSeal(next), next \notin Freezing \cup Saving \cup {"down"}
  PROVE  /\ LearnerInv' /\ LedgerStep /\ buf' = buf /\ pc = "seal" /\ pc' = next
         /\ disk'[step].mark = disk[step].mark
         /\ \A s \in 1 .. MaxUpdates : s # step => disk'[s] = disk[s]
<1> DEFINE e == disk[step]
           d == Directory!Seal(e)
<1>1. pc = "seal" /\ pc \in Saving /\ Here(d) /\ OnDisk /\ snap' = snap /\ pc' = next
  BY DEF CommitSeal, Saving
<1>2. IsDirectory(e) /\ e.seal = None /\ step \in 1 .. MaxUpdates
  BY <1>1, DirectoryOfStep
<1>3. e.weights = Weights /\ e.state = snap
  BY <1>1 DEF LearnerInv, Staged
<1>4. snap = [step |-> step, async |-> Exported(buf, cursor)]
  BY <1>1 DEF LearnerInv, Snapped
<1> HIDE DEF e
<1>5. IsDirectory(d) /\ d.mark = e.mark /\ d.weights = Weights /\ d.state = snap /\ d.seal = d.state
  BY <1>2, <1>3 DEF IsDirectory, Directory!Seal
<1> HIDE DEF d
<1>6. buf.reserved = {} /\ buf.selected = {} /\ source = step
  BY <1>1 DEF LearnerInv, Frozen
<1>7. Sound(buf, pipe, working, results, replies, cursor, trained, served)
  BY <1>1 DEF LearnerInv, Exchanging, Flying
<1>8. /\ Sound(buf, <<>>, {}, <<>>, <<>>, cursor, trained, served)
      /\ working = {} /\ results = <<>>
  BY <1>6, <1>7, SoundAtRest
<1>9. /\ cursor \in Nat /\ trained \subseteq 0 .. cursor - 1 /\ served = step
      /\ step \in Nat /\ trained \in SUBSET Nat
  <2>1. cursor \in Nat /\ trained \subseteq 0 .. cursor - 1 /\ served = source /\ step \in Updates
    BY DEF LearnerInv, Counters
  <2>2. step \in Nat
    BY <1>2, LearnerAssumption
  <2> QED BY <2>1, <2>2, <1>6
<1>10. /\ d.state.step = step /\ d.state.async = Exported(buf, cursor)
       /\ d.state.async.cursor = cursor /\ d.state.async.ready = buf.ready
       /\ d.weights.step = step /\ d.weights.trained = trained /\ d.weights \in SavedWeights
  BY <1>4, <1>5, <1>9 DEF Weights, Exported, SavedWeights
<1>11. Restored(d.state.async) = buf
  <2>1. Book(buf)
    BY <1>7 DEF Sound
  <2> QED BY <1>6, <1>10, <2>1, RestoredExported
<1>12. Whole(d, step)
  BY <1>5, <1>8, <1>9, <1>10, <1>11 DEF Whole
<1>13. {g.record : g \in ToSet(d.state.async.ready)} = HeldRecords
  <2>1. Held = ToSet(buf.ready)
    <3>1. ToSet(<<>>) = {}
      BY DEF ToSet
    <3> QED BY <1>8, <3>1 DEF Held
  <2> QED BY <1>10, <2>1 DEF HeldRecords
<1>14. pc' \notin Freezing \cup {"down"} /\ pc' \notin Saving
       /\ pc' \notin {"mark", "seal"} /\ pc' # "state"
  BY <1>1 DEF Saving
<1>15. /\ LearnerInv' /\ LedgerStep /\ buf' = buf /\ disk'[step] = d
       /\ \A s \in 1 .. MaxUpdates : s # step => disk'[s] = disk[s]
  BY <1>1, <1>5, <1>10, <1>12, <1>13, <1>14, HereKeeps
<1> QED BY <1>1, <1>5, <1>15 DEF e

----------------------------------------------------------------------------
(***************************************************************************)
(* The start, the crash and the restart.                                   *)
(***************************************************************************)
\* An empty buffer with nothing in flight.
LEMMA NoFlight ==
  ASSUME NEW b, b.ready = <<>>
  PROVE  /\ Flown(b, <<>>, {}, <<>>, <<>>) /\ Dated({}, 0) /\ Len(<<>>) = 0
         /\ \A position, policy : Soundly(b, {}, <<>>, position, {}, policy)
<1>1. /\ ToSet(<<>>) = {} /\ Tasks(<<>>) = <<>> /\ OneEach(<<>>)
      /\ <<>> \in Seq(Finished) /\ <<>> \in Seq(Failures) /\ <<>> \in Seq(Orders)
  BY NoTasks DEF ToSet
<1>2. Claims({}, {}, {}, {}, {}) /\ Unique({})
  BY DEF Claims, Apart, Unique
<1>3. Flown(b, <<>>, {}, <<>>, <<>>)
  BY <1>1, <1>2 DEF Flown
<1>4. Dated({}, 0) /\ Len(<<>>) = 0
  BY DEF Dated
<1>5. \A position, policy : Soundly(b, {}, <<>>, position, {}, policy)
  BY <1>1 DEF Soundly, Recorded, AllAged
<1> QED BY <1>3, <1>4, <1>5

\* A new buffer is sound.
LEMMA EmptySound ==
  /\ Sound(EmptyBuffer, <<>>, {}, <<>>, <<>>, 0, {}, 0)
  /\ EmptyBuffer.reserved = {} /\ EmptyBuffer.selected = {} /\ EmptyBuffer.ready = <<>>
  /\ EmptyBuffer.fault = FALSE
<1>1. /\ EmptyBuffer.reserved = {} /\ EmptyBuffer.selected = {} /\ EmptyBuffer.ready = <<>>
      /\ EmptyBuffer.next = 0 /\ EmptyBuffer.consumed = 0 /\ EmptyBuffer.dropped = 0
      /\ EmptyBuffer.fault = FALSE
  BY DEF EmptyBuffer
<1>2. EmptyBuffer \in Buffers
  BY DEF EmptyBuffer, Buffers
<1>3. IsFiniteSet({}) /\ Cardinality({}) = 0 /\ ToSet(<<>>) = {} /\ OneEach(<<>>) /\ Len(<<>>) = 0
  BY FS_EmptySet, NoTasks DEF ToSet
<1>4. 0 <= MaxInflight /\ 0 <= MaxBuffer
  BY CapacityAssumption
<1>5. Book(EmptyBuffer)
  BY <1>1, <1>2, <1>3, <1>4 DEF Book
<1> DEFINE b == EmptyBuffer
<1>6. b.ready = <<>> /\ b.reserved = {} /\ b.next = 0 + Len(<<>>) /\ Book(b)
  BY <1>1, <1>3, <1>5
<1> HIDE DEF b
<1>7. Sound(b, <<>>, {}, <<>>, <<>>, 0, {}, 0)
  BY <1>6, NoFlight DEF Sound
<1> QED BY <1>1, <1>7 DEF b

\* The first start.
LEMMA StartSound ==
  ASSUME InitLearner
  PROVE  /\ LearnerInv /\ Ledger!Init /\ pc = "down" /\ buf.selected = {}
         /\ \A s \in 1 .. MaxUpdates : ~disk[s].mark
<1>1. /\ buf = EmptyBuffer /\ pipe = <<>> /\ working = {} /\ results = <<>> /\ replies = <<>>
      /\ cursor = 0 /\ discards = 0 /\ open = FALSE /\ served = 0
      /\ pc = "down" /\ step = 0 /\ source = 0 /\ trained = {} /\ snap = None
      /\ cadence \in Cadences /\ crashes = 0
      /\ disk = [s \in 1 .. MaxUpdates |-> Directory!EmptyDirectory]
  BY DEF InitLearner, InitExchange
<1>2. Flying
  BY <1>1, EmptySound DEF Flying
<1>3. Counters
  <2>1. 0 \in 0 .. MaxUpdates /\ 0 \in 0 .. MaxDiscards /\ 0 \in 0 .. MaxCrashes /\ 0 <= 0 /\ 0 \in Nat
    BY CapacityAssumption, LearnerAssumption
  <2>2. cursor \in Nat /\ trained \subseteq 0 .. cursor - 1 /\ served = source /\ source <= step
    BY <1>1, <2>1
  <2>3. /\ {step, source, served} \subseteq Updates
        /\ discards \in 0 .. MaxDiscards /\ crashes \in 0 .. MaxCrashes
    BY <1>1, <2>1 DEF Updates
  <2>4. open \in BOOLEAN /\ cadence \in Cadences
    BY <1>1
  <2> QED BY <2>2, <2>3, <2>4 DEF Counters
<1>4. \A s \in 1 .. MaxUpdates : disk[s] = Directory!EmptyDirectory
  BY <1>1
<1>5. disk = [s \in 1 .. MaxUpdates |-> disk[s]]
  BY <1>1
<1>6. /\ IsDirectory(Directory!EmptyDirectory) /\ Directory!EmptyDirectory.seal = None
      /\ Directory!EmptyDirectory.mark = FALSE
  <2> DEFINE d == Directory!EmptyDirectory
  <2>1. d = [weights |-> None, mark |-> FALSE, state |-> None, seal |-> None]
    BY DEF Directory!EmptyDirectory
  <2> HIDE DEF d
  <2>2. IsDirectory(d) /\ d.seal = None /\ d.mark = FALSE
    BY <2>1, DirectoryIs
  <2> QED BY <2>2 DEF d
<1>7. Stored
  BY <1>4, <1>5, <1>6 DEF Stored
<1>8. Stopped /\ Frozen /\ Snapped /\ Staged
  BY <1>1, EmptySound DEF Stopped, Frozen, Snapped, Staged, Freezing, Saving
<1>9. LearnerInv
  BY <1>1, <1>2, <1>3, <1>7, <1>8 DEF LearnerInv, Exchanging
<1>10. DOMAIN disk = 1 .. MaxUpdates
  BY <1>1
<1>11. \A s \in 1 .. MaxUpdates : ~disk[s].mark
  BY <1>4, <1>6
<1>12. Complete = {}
  BY <1>10, <1>11 DEF Complete, Directory!Listed
<1>13. HeldRecords = {}
  <2>1. ToSet(<<>>) = {}
    BY DEF ToSet
  <2> QED BY <1>1, <2>1, EmptySound DEF HeldRecords, Held
<1>14. Ledger!Init
  BY <1>1, <1>12, <1>13 DEF Ledger!Init, Ledger!Moment, Ledger!Start
<1> QED BY <1>1, <1>9, <1>11, <1>14, EmptySound

\* The death of the job leaves a new exchange and the directories as they are.
LEMMA CrashKeeps ==
  ASSUME LearnerInv, Crash
  PROVE  LearnerInv' /\ LedgerStep /\ pc' = "down" /\ buf'.selected = {} /\ disk' = disk
<1>1. /\ buf' = EmptyBuffer /\ pipe' = <<>> /\ working' = {} /\ results' = <<>> /\ replies' = <<>>
      /\ cursor' = 0 /\ discards' = discards /\ open' = FALSE /\ served' = 0
      /\ pc' = "down" /\ step' = 0 /\ source' = 0 /\ trained' = {} /\ snap' = None
      /\ cadence' = cadence /\ crashes' = crashes + 1 /\ crashes < MaxCrashes /\ disk' = disk
  BY DEF Crash, Quiet
<1>2. Flying'
  BY <1>1, EmptySound DEF Flying
<1>3. Counters'
  <2>1. cadence \in Cadences /\ discards \in 0 .. MaxDiscards /\ crashes \in 0 .. MaxCrashes
    BY DEF LearnerInv, Counters
  <2>2. crashes' \in 0 .. MaxCrashes
    BY <1>1, <2>1, LearnerAssumption
  <2>3. 0 \in 0 .. MaxUpdates /\ 0 <= 0 /\ 0 \in Nat
    BY LearnerAssumption
  <2>4. /\ cursor' \in Nat /\ trained' \subseteq 0 .. cursor' - 1 /\ served' = source' /\ source' <= step'
    BY <1>1, <2>3
  <2>5. {step', source', served'} \subseteq Updates /\ discards' \in 0 .. MaxDiscards
    BY <1>1, <2>1, <2>3 DEF Updates
  <2>6. open' \in BOOLEAN /\ cadence' \in Cadences
    BY <1>1, <2>1
  <2> QED BY <2>2, <2>4, <2>5, <2>6 DEF Counters, Updates
<1>4. Stored'
  BY <1>1 DEF LearnerInv, Stored
<1>5. Stopped' /\ Frozen' /\ Snapped' /\ Staged'
  BY <1>1, EmptySound DEF Stopped, Frozen, Snapped, Staged, Freezing, Saving
<1>6. LearnerInv'
  BY <1>1, <1>2, <1>3, <1>4, <1>5 DEF LearnerInv, Exchanging
<1>7. HeldRecords' = {}
  <2>1. ToSet(<<>>) = {}
    BY DEF ToSet
  <2> QED BY <1>1, <2>1, EmptySound DEF HeldRecords, Held
<1>8. LedgerStep
  BY <1>1, <1>7, MomentsSame
  DEF LedgerStep, Ledger!Next, Ledger!GoBack, Ledger!Moment, Ledger!Start, Moments
<1> QED BY <1>1, <1>6, <1>8, EmptySound

\* The exchange of a job that is down.
LEMMA DownIsQuiet ==
  ASSUME LearnerInv, pc = "down"
  PROVE  pipe = <<>> /\ working = {} /\ results = <<>> /\ replies = <<>>
<1>1. Sound(buf, pipe, working, results, replies, cursor, trained, served) /\ buf.reserved = {}
  BY DEF LearnerInv, Exchanging, Flying, Stopped
<1> QED BY <1>1, SoundAtRest

\* A restart at the state it is given.
LEMMA BootKeeps ==
  ASSUME LearnerInv, pc = "down", NEW s \in Updates, NEW records, NEW b, NEW position \in Nat,
         NEW next, Boot(s, records, b, position, next),
         Sound(b, <<>>, {}, <<>>, <<>>, position, records, s), records \subseteq 0 .. position - 1,
         next \notin Freezing \cup Saving \cup {"down"}
  PROVE  /\ LearnerInv' /\ pc' = next /\ buf' = b /\ step' = s /\ disk' = disk
         /\ trained' = records /\ cursor' = position
         /\ HeldRecords' = {g.record : g \in ToSet(b.ready)}
<1>1. pipe = <<>> /\ working = {} /\ results = <<>> /\ replies = <<>>
  BY DownIsQuiet
<1>2. b.fault = FALSE
  BY BookFacts DEF Sound
<1>3. /\ step' = s /\ source' = s /\ served' = s /\ trained' = records
      /\ open' = TRUE /\ cursor' = position /\ Goto(b, next)
      /\ UNCHANGED <<pipe, working, results, replies, discards, snap, disk, cadence, crashes>>
  BY DEF Boot, experiment
<1>4. buf' = b /\ pc' = next
  BY <1>2, <1>3, GotoIs
<1>5. Flying'
  BY <1>1, <1>3, <1>4 DEF Flying
<1>6. Counters'
  <2>1. cadence \in Cadences /\ discards \in 0 .. MaxDiscards /\ crashes \in 0 .. MaxCrashes
    BY DEF LearnerInv, Counters
  <2>2. s <= s
    BY LearnerAssumption DEF Updates
  <2> QED BY <1>3, <2>1, <2>2 DEF Counters, Updates
<1>7. Stored'
  BY <1>3 DEF LearnerInv, Stored
<1>8. LearnerInv'
  BY <1>4, <1>5, <1>6, <1>7, Calm DEF Freezing
<1>9. HeldRecords' = {g.record : g \in ToSet(b.ready)}
  <2>1. ToSet(<<>>) = {}
    BY DEF ToSet
  <2> QED BY <1>1, <1>3, <1>4, <2>1 DEF HeldRecords, Held
<1> QED BY <1>3, <1>4, <1>8, <1>9

\* A restart without a complete directory goes back to the start.
LEMMA StartAfreshKeeps ==
  ASSUME LearnerInv, NEW next, StartAfresh(next), next \notin Freezing \cup Saving \cup {"down"}
  PROVE  /\ LearnerInv' /\ LedgerStep /\ pc' = next /\ buf'.selected = {} /\ buf'.ready = <<>>
         /\ step' = 0 /\ disk' = disk
<1>1. pc = "down" /\ Boot(0, {}, EmptyBuffer, 0, next)
  BY DEF StartAfresh
<1>2. 0 \in Updates /\ 0 \in Nat
  BY LearnerAssumption DEF Updates
<1>3. {} \subseteq 0 .. 0 - 1
  OBVIOUS
<1>4. /\ LearnerInv' /\ pc' = next /\ buf' = EmptyBuffer /\ step' = 0 /\ disk' = disk
      /\ trained' = {} /\ cursor' = 0 /\ HeldRecords' = {g.record : g \in ToSet(EmptyBuffer.ready)}
  BY <1>1, <1>2, <1>3, EmptySound, BootKeeps
<1>5. HeldRecords' = {}
  <2>1. ToSet(<<>>) = {}
    BY DEF ToSet
  <2> QED BY <1>4, <2>1, EmptySound
<1>6. LedgerStep
  BY <1>4, <1>5, MomentsSame
  DEF LedgerStep, Ledger!Next, Ledger!GoBack, Ledger!Moment, Ledger!Start, Moments
<1> QED BY <1>4, <1>6, EmptySound

\* A restart from a complete directory: it loads, and goes back to the moment
\* that was saved.
LEMMA RecoverKeeps ==
  ASSUME LearnerInv, NEW next, Recover(next),
         \A s \in 1 .. MaxUpdates : next[s] \notin Freezing \cup Saving \cup {"down"}
  PROVE  /\ LearnerInv' /\ LedgerStep /\ buf'.selected = {} /\ disk' = disk
         /\ step' \in 1 .. MaxUpdates /\ pc' = next[step']
<1>1. PICK s \in Complete :
        IF Directory!Loads(disk[s])
        THEN Boot(s, disk[s].weights.trained, Restored(disk[s].state.async),
                  disk[s].state.async.cursor, next[s])
        ELSE pc' = "failed" /\ UNCHANGED <<exchange, learner, experiment>>
  BY DEF Recover
<1> DEFINE d == disk[s]
           b == Restored(d.state.async)
           position == d.state.async.cursor
<1>0. Stored
  BY DEF LearnerInv
<1>2. DOMAIN disk = 1 .. MaxUpdates
  BY <1>0 DEF Stored
<1>3. s \in 1 .. MaxUpdates /\ d.seal # None
  BY <1>2 DEF Complete, Directory!Listed
<1>4. Whole(d, s)
  BY <1>0, <1>3 DEF Stored
<1> HIDE DEF d
<1>5. /\ d.seal = d.state /\ d.weights.step = s /\ d.weights \in SavedWeights /\ d.state.step = s
      /\ position \in Nat /\ d.weights.trained \subseteq 0 .. position - 1
      /\ Sound(b, <<>>, {}, <<>>, <<>>, position, d.weights.trained, s)
  BY <1>4 DEF Whole
<1>6. d.weights \notin {None, Torn}
  BY <1>5, MarksAssumption DEF SavedWeights
<1>7. Directory!Loads(d)
  BY <1>5, <1>6 DEF Directory!Loads
<1>8. Boot(s, d.weights.trained, b, position, next[s]) /\ pc = "down"
  BY <1>1, <1>7 DEF d, Recover
<1>9. s \in Updates
  BY <1>3 DEF Updates
<1>10. b.ready = d.state.async.ready /\ b.selected = {}
  BY RestoredReady DEF Restored, EmptyBuffer
<1> HIDE DEF b, position
<1>11. /\ LearnerInv' /\ pc' = next[s] /\ buf' = b /\ step' = s /\ disk' = disk
       /\ trained' = d.weights.trained /\ cursor' = position
       /\ HeldRecords' = {g.record : g \in ToSet(b.ready)}
  BY <1>3, <1>5, <1>8, <1>9, BootKeeps
<1>12. Ledger!Moment' \in Moments
  <2>1. Ledger!Moment' = [learned |-> d.weights.trained,
                          pool |-> {g.record : g \in ToSet(d.state.async.ready)},
                          read |-> d.state.async.cursor]
    BY <1>10, <1>11 DEF Ledger!Moment, position
  <2> QED BY <2>1 DEF Moments, d
<1>13. LedgerStep
  BY <1>11, <1>12, MomentsSame DEF LedgerStep, Ledger!Next, Ledger!GoBack, Moments
<1> QED BY <1>3, <1>10, <1>11, <1>13

----------------------------------------------------------------------------
(***************************************************************************)
(* Counting what is held, and the types.                                   *)
(***************************************************************************)
\* Groups of a sound exchange that agree in a record are one group, and those
\* in the buffer are in no other place.
LEMMA OneRecord ==
  ASSUME NEW b, NEW pi, NEW wo, NEW rs, NEW rp, NEW position, NEW records, NEW policy,
         Sound(b, pi, wo, rs, rp, position, records, policy)
  PROVE  /\ \A x, y \in wo \cup ToSet(rs) \cup ToSet(b.ready) : x.record = y.record => x = y
         /\ (wo \cup ToSet(rs)) \cap ToSet(b.ready) = {}
<1> DEFINE H == wo \cup ToSet(rs) \cup ToSet(b.ready)
<1>1. Book(b) /\ Flown(b, pi, wo, rs, rp) /\ Soundly(b, wo, rs, position, records, policy)
  BY DEF Sound
<1>2. Unique(wo) /\ Unique(ToSet(rs)) /\ Unique(ToSet(b.ready))
  BY <1>1, UniqueElements DEF Flown, Book
<1>3. Apart(wo, ToSet(rs)) /\ Apart(wo, ToSet(b.ready)) /\ Apart(ToSet(rs), ToSet(b.ready))
  BY <1>1 DEF Flown, Claims
<1>4. \A x, y \in H : x.record = y.record => x.id = y.id
  BY <1>1 DEF Soundly, Recorded
<1>5. \A x, y \in H : x.id = y.id => x = y
  BY <1>2, <1>3 DEF Unique, Apart
<1>6. (wo \cup ToSet(rs)) \cap ToSet(b.ready) = {}
  BY <1>3 DEF Apart
<1> QED BY <1>4, <1>5, <1>6

\* There are as many records held as there are groups.
LEMMA HeldCount ==
  ASSUME NEW b, NEW pi, NEW wo, NEW rs, NEW rp, NEW position, NEW records, NEW policy,
         Sound(b, pi, wo, rs, rp, position, records, policy)
  PROVE  Cardinality({g.record : g \in wo \cup ToSet(rs) \cup ToSet(b.ready)})
           = Cardinality(wo) + Len(rs) + Len(b.ready)
<1> DEFINE H == wo \cup ToSet(rs) \cup ToSet(b.ready)
<1>1. Book(b) /\ Flown(b, pi, wo, rs, rp) /\ Soundly(b, wo, rs, position, records, policy)
  BY DEF Sound
<1>2. IsFiniteSet(wo) /\ Cardinality(wo) \in Nat
  BY <1>1, InFlight
<1>3. IsFiniteSet(ToSet(rs)) /\ Cardinality(ToSet(rs)) = Len(rs)
  BY <1>1, SetOfSeq DEF Flown
<1>4. IsFiniteSet(ToSet(b.ready)) /\ Cardinality(ToSet(b.ready)) = Len(b.ready)
  BY <1>1, BookFacts, SetOfSeq DEF Book
<1>7. wo \cap ToSet(rs) = {} /\ (wo \cup ToSet(rs)) \cap ToSet(b.ready) = {}
  BY <1>1, OneRecord DEF Flown, Claims, Apart
<1>8. IsFiniteSet(wo \cup ToSet(rs))
      /\ Cardinality(wo \cup ToSet(rs)) = Cardinality(wo) + Len(rs)
  BY <1>2, <1>3, <1>7, DisjointCount
<1>9. IsFiniteSet(H) /\ Cardinality(H) = Cardinality(wo) + Len(rs) + Len(b.ready)
  <2> DEFINE A == wo \cup ToSet(rs)
             B == ToSet(b.ready)
  <2>1. IsFiniteSet(A) /\ IsFiniteSet(B) /\ A \cap B = {}
    BY <1>4, <1>7, <1>8
  <2>2. Cardinality(A) = Cardinality(wo) + Len(rs) /\ Cardinality(B) = Len(b.ready)
    BY <1>4, <1>8
  <2>3. H = A \cup B
    OBVIOUS
  <2> HIDE DEF A, B, H
  <2>4. IsFiniteSet(A \cup B) /\ Cardinality(A \cup B) = Cardinality(A) + Cardinality(B)
    BY <2>1, DisjointCount
  <2> QED BY <2>2, <2>3, <2>4
<1>10. \A x, y \in H : x.record = y.record => x = y
  BY OneRecord
<1> HIDE DEF H
<1>11. Cardinality({g.record : g \in H}) = Cardinality(H)
  BY <1>9, <1>10, RecordCount
<1> QED BY <1>9, <1>11 DEF H

\* Every message of the pipe is a task, outside of a snapshot.
LEMMA UnreadOrders ==
  ASSUME NEW b, NEW wo, NEW rs, NEW rp, Flown(b, pipe, wo, rs, rp)
  PROVE  Cardinality(Unread) = Len(pipe) /\ Len(pipe) \in Nat
<1>1. pipe \in Seq(Orders)
  BY DEF Flown
<1>2. Len(pipe) \in Nat /\ DOMAIN pipe = 1 .. Len(pipe)
      /\ \A i \in 1 .. Len(pipe) : pipe[i].kind = "task"
  <2>1. Len(pipe) \in Nat /\ DOMAIN pipe = 1 .. Len(pipe)
        /\ \A i \in 1 .. Len(pipe) : pipe[i] \in Orders
    BY <1>1, ElementsOf
  <2>2. \A m \in Orders : m.kind = "task"
    BY DEF Orders
  <2> QED BY <2>1, <2>2
<1>3. Unread = 1 .. Len(pipe)
  BY <1>2 DEF Unread
<1> QED BY <1>2, <1>3, FS_Interval

\* Every credit is accounted for (CreditsBalance), and every reservation has at
\* most one task or group.
LEMMA Credits ==
  ASSUME LearnerInv
  PROVE  /\ CreditsBalance
         /\ Cardinality(working) + Cardinality(Unread) <= Cardinality(buf.reserved)
<1> DEFINE Credit == /\ Book(buf)
                     /\ buf.next = cursor + Cardinality(Unread)
                     /\ Cardinality(HeldRecords)
                          = Cardinality(working) + Len(results) + Len(buf.ready)
                     /\ Cardinality(working) + Cardinality(Unread) <= Cardinality(buf.reserved)
<1>1. ASSUME pc = "await" PROVE Credit
  <2>1. Asking
    BY <1>1 DEF LearnerInv, Exchanging
  <2>2. Sound(buf, <<>>, {}, <<>>, <<>>, cursor, trained, served) /\ working = {} /\ results = <<>>
        /\ buf.reserved = {}
    BY <2>1 DEF Asking
  <2>3. Unread = {}
    <3>1. pipe = <<Ask>> \/ pipe = <<>>
      BY <2>1 DEF Asking
    <3>2. \A i \in DOMAIN pipe : pipe[i].kind = "snapshot"
      BY <3>1 DEF Ask
    <3> QED BY <3>2 DEF Unread
  <2>4. Cardinality({}) = 0
    BY FS_EmptySet
  <2>5. Len(<<>>) = 0 /\ cursor \in Nat
    BY DEF LearnerInv, Counters
  <2>6. Book(buf) /\ buf.next = cursor + Cardinality(Unread)
    BY <2>2, <2>3, <2>4, <2>5 DEF Sound
  <2>7. Cardinality({g.record : g \in {} \cup ToSet(<<>>) \cup ToSet(buf.ready)})
           = Cardinality({}) + Len(<<>>) + Len(buf.ready)
    BY <2>2, HeldCount
  <2>8. HeldRecords = {g.record : g \in {} \cup ToSet(<<>>) \cup ToSet(buf.ready)}
    BY <2>2 DEF HeldRecords, Held
  <2> QED BY <2>2, <2>3, <2>4, <2>6, <2>7, <2>8
<1>2. ASSUME pc # "await" PROVE Credit
  <2>1. Sound(buf, pipe, working, results, replies, cursor, trained, served)
    BY <1>2 DEF LearnerInv, Exchanging, Flying
  <2>2. Book(buf) /\ Flown(buf, pipe, working, results, replies) /\ buf.next = cursor + Len(pipe)
    BY <2>1 DEF Sound
  <2>3. Cardinality(Unread) = Len(pipe)
    BY <2>2, UnreadOrders
  <2>4. Cardinality(working) + Len(pipe) <= Cardinality(buf.reserved)
    BY <2>2, InFlight
  <2>5. Cardinality(HeldRecords) = Cardinality(working) + Len(results) + Len(buf.ready)
    BY <2>1, HeldCount DEF HeldRecords, Held
  <2> QED BY <2>2, <2>3, <2>4, <2>5
<1>3. Credit
  BY <1>1, <1>2
<1> QED BY <1>3 DEF CreditsBalance, Book

\* Groups and reservations of a sound exchange have their types.
LEMMA SoundTypes ==
  ASSUME NEW b, NEW pi, NEW wo, NEW rs, NEW rp, NEW position \in Nat, NEW records,
         NEW policy \in Updates, Sound(b, pi, wo, rs, rp, position, records, policy)
  PROVE  LET ids == 0 .. b.next - 1
         IN  /\ wo \cup ToSet(rs) \cup ToSet(b.ready)
                  \subseteq [id : ids, src : Updates, record : 0 .. position - 1,
                             old : Updates \cup {NoSource}, new : Updates \cup {NoSource}]
             /\ b.reserved \subseteq [id : ids, src : Updates]
<1> DEFINE H == wo \cup ToSet(rs) \cup ToSet(b.ready)
           ids == 0 .. b.next - 1
<1>1. Book(b) /\ Flown(b, pi, wo, rs, rp) /\ Soundly(b, wo, rs, position, records, policy)
      /\ Dated(b.reserved, policy)
  BY DEF Sound
<1>2. /\ b.next \in Nat /\ b.reserved \subseteq Tickets
      /\ \A x \in b.reserved \cup ToSet(b.ready) : x.id \in Nat /\ x.id < b.next
      /\ ToSet(b.ready) \subseteq Finished
  BY <1>1, BookFacts
<1>3. \A n \in Nat : n <= policy => n \in Updates
  BY LearnerAssumption DEF Updates
<1>4. \A n \in Nat : n < b.next => n \in ids
  BY <1>2
<1>5. H \subseteq Sampled
  <2>1. rs \in Seq(Finished) /\ wo \subseteq Sampled
    BY <1>1 DEF Flown
  <2>2. ToSet(rs) \subseteq Finished
    BY <2>1, ElementsOf
  <2>3. Finished \subseteq Sampled
    BY DEF Finished, Sampled
  <2> QED BY <1>2, <2>1, <2>2, <2>3
<1>6. \A g \in H : g.id \in ids
  <2>1. \A g \in wo \cup ToSet(rs) : Task(g) \in b.reserved
    BY <1>1 DEF Flown
  <2>2. \A g \in wo \cup ToSet(rs) : Task(g).id = g.id
    BY DEF Task
  <2>3. \A g \in wo \cup ToSet(rs) : g.id \in Nat /\ g.id < b.next
    BY <1>2, <2>1, <2>2
  <2> QED BY <1>2, <1>4, <2>3
<1>7. \A g \in H : g.record < position /\ Aged(g, policy)
  BY <1>1 DEF Soundly, Recorded, AllAged
<1>8. \A t \in b.reserved : t.id \in ids /\ t.src \in Updates /\ t = [id |-> t.id, src |-> t.src]
  <2>1. \A t \in b.reserved : t.src \in Nat /\ t = [id |-> t.id, src |-> t.src] /\ t.src <= policy
    BY <1>1, <1>2 DEF Tickets, Dated
  <2> QED BY <1>2, <1>3, <1>4, <2>1
<1> HIDE DEF H, ids
<1>9. ASSUME NEW g \in H
      PROVE  g \in [id : ids, src : Updates, record : 0 .. position - 1,
                    old : Updates \cup {NoSource}, new : Updates \cup {NoSource}]
  <2>1. g.id \in ids
    BY <1>6
  <2>2. g \in Sampled
    BY <1>5
  <2>3. g = [id |-> g.id, src |-> g.src, record |-> g.record, old |-> g.old, new |-> g.new]
        /\ g.src \in Nat /\ g.record \in Nat /\ g.old \in Nat \cup {NoSource}
        /\ g.new \in Nat \cup {NoSource}
    BY <2>2 DEF Sampled
  <2>4. g.record < position /\ Aged(g, policy)
    BY <1>7
  <2>5. g.record \in 0 .. position - 1
    BY <2>3, <2>4
  <2>6. g.src \in Updates
    BY <1>3, <2>3, <2>4 DEF Aged
  <2>7. g.old \in Updates \cup {NoSource} /\ g.new \in Updates \cup {NoSource}
    <3>1. CASE g.old = NoSource /\ g.new = NoSource
      BY <3>1
    <3>2. CASE ~(g.old = NoSource /\ g.new = NoSource)
      <4>1. g.old # NoSource /\ g.new # NoSource /\ g.old <= g.new /\ g.new <= policy
        BY <2>4, <3>2 DEF Aged
      <4>2. g.old \in Nat /\ g.new \in Nat
        BY <2>3, <4>1
      <4>3. policy \in Nat
        BY LearnerAssumption DEF Updates
      <4>4. g.old <= policy
        BY <4>1, <4>2, <4>3
      <4> QED BY <1>3, <4>1, <4>2, <4>4
    <3> QED BY <3>1, <3>2
  <2> QED BY <2>1, <2>3, <2>5, <2>6, <2>7
<1>10. \A t \in b.reserved : t \in [id : ids, src : Updates]
  BY <1>8
<1> QED BY <1>9, <1>10 DEF H, ids

\* The types of what the loops share.
LEMMA LearnerTypes ==
  ASSUME LearnerInv
  PROVE  /\ {step, source, served} \subseteq Updates /\ trained \subseteq 0 .. cursor - 1
         /\ open \in BOOLEAN /\ crashes \in 0 .. MaxCrashes /\ discards \in 0 .. MaxDiscards
         /\ Held \subseteq Groups
         /\ buf.reserved \subseteq [id : Identities, src : Updates]
<1>1. Counters
  BY DEF LearnerInv
<1>2. cursor \in Nat /\ served \in Updates
  BY <1>1 DEF Counters
<1>3. \E pi, rp : Sound(buf, pi, working, results, rp, cursor, trained, served)
  BY DEF LearnerInv, Exchanging, Asking, Flying
<1>4. /\ Held \subseteq Groups
      /\ buf.reserved \subseteq [id : Identities, src : Updates]
  BY <1>2, <1>3, SoundTypes DEF Held, Groups, Identities
<1> QED BY <1>1, <1>4 DEF Counters

----------------------------------------------------------------------------
(***************************************************************************)
(* What the loops do with the buffer and with the policy.                  *)
(***************************************************************************)
\* What the invariant says outside of a snapshot.
LEMMA AtWork ==
  ASSUME LearnerInv, pc # "await"
  PROVE  /\ Sound(buf, pipe, working, results, replies, cursor, trained, served)
         /\ Counters /\ Stored
         /\ cursor \in Nat /\ step \in Nat /\ source \in Nat /\ served \in Nat
         /\ served = source /\ source <= step
BY DEF LearnerInv, Exchanging, Flying, Counters, Updates

\* The buffer after the pump every step begins with.
LEMMA PumpedAtWork ==
  ASSUME LearnerInv, pc # "await", buf.selected = {}
  PROVE  LET b == Pumped(buf)
         IN  /\ Sound(b, pipe, working, <<>>, <<>>, cursor, trained, served)
             /\ Delivery(buf, b, pipe, working, results)
             /\ b.selected = {} /\ ToSet(b.ready) = ToSet(buf.ready) \cup ToSet(results)
<1> DEFINE b == Pumped(buf)
<1>1. /\ Sound(b, pipe, working, <<>>, <<>>, cursor, trained, served)
      /\ Delivery(buf, b, pipe, working, results)
  BY AtWork, PumpSound
<1> HIDE DEF b
<1>2. b.selected = {} /\ ToSet(b.ready) = ToSet(buf.ready) \cup ToSet(results)
  BY <1>1 DEF Delivery
<1> QED BY <1>1, <1>2 DEF b

\* The buffer after the eviction that follows it.
LEMMA EvictedAtWork ==
  ASSUME LearnerInv, pc # "await", buf.selected = {}
  PROVE  LET c == Evicted(Pumped(buf), step)
         IN  /\ Sound(c, pipe, working, <<>>, <<>>, cursor, trained, served)
             /\ ToSet(c.ready) \subseteq ToSet(buf.ready) \cup ToSet(results)
             /\ c.selected = {} /\ c.fault = FALSE
             /\ \A i \in 1 .. Len(c.ready) : step - c.ready[i].old <= Lag
<1> DEFINE b == Pumped(buf)
           c == Evicted(b, step)
<1>1. /\ Sound(b, pipe, working, <<>>, <<>>, cursor, trained, served)
      /\ b.selected = {} /\ ToSet(b.ready) = ToSet(buf.ready) \cup ToSet(results)
  BY PumpedAtWork
<1>2. step \in Nat /\ served \in Nat /\ served <= step
  BY AtWork
<1> HIDE DEF b
<1>3. /\ Sound(c, pipe, working, <<>>, <<>>, cursor, trained, served)
      /\ ToSet(c.ready) \subseteq ToSet(b.ready) /\ c.selected = {}
      /\ \A g \in ToSet(c.ready) : step - g.old <= Lag
  BY <1>1, <1>2, EvictSound
<1> HIDE DEF c
<1>4. c.fault = FALSE /\ c.ready \in Seq(Finished)
  BY <1>3, BookFacts DEF Sound
<1>5. \A i \in 1 .. Len(c.ready) : step - c.ready[i].old <= Lag
  BY <1>3, <1>4, ElementsOf
<1> QED BY <1>1, <1>3, <1>4, <1>5 DEF b, c

\* The pipe after a grant.
LEMMA SendIs ==
  ASSUME NEW b, NEW src, Send(b, src)
  PROVE  pipe' = pipe \o OrdersFor(Granted(b, src))
BY DEF Send, OrdersFor

\* Buffer and pipe after a grant that follows the pump.
LEMMA FilledAtWork ==
  ASSUME LearnerInv, pc # "await", buf.selected = {}, NEW src \in Nat, src <= served
  PROVE  LET c  == Fill(Pumped(buf), src)
             np == pipe \o OrdersFor(Granted(Pumped(buf), src))
         IN  /\ Sound(c, np, working, <<>>, <<>>, cursor, trained, served)
             /\ c.selected = {} /\ ToSet(c.ready) = ToSet(buf.ready) \cup ToSet(results)
             /\ c.fault = FALSE /\ c.ready = Pumped(buf).ready
<1> DEFINE b == Pumped(buf)
           c == Fill(b, src)
           np == pipe \o OrdersFor(Granted(b, src))
<1>1. /\ Sound(b, pipe, working, <<>>, <<>>, cursor, trained, served)
      /\ b.selected = {} /\ ToSet(b.ready) = ToSet(buf.ready) \cup ToSet(results)
  BY PumpedAtWork
<1>2. cursor \in Nat /\ served \in Nat
  BY AtWork
<1> HIDE DEF b
<1>3. /\ Sound(c, np, working, <<>>, <<>>, cursor, trained, served)
      /\ c.ready = b.ready /\ c.selected = b.selected
  BY <1>1, <1>2, FillSound
<1> HIDE DEF c, np
<1>4. c.fault = FALSE
  BY <1>3, BookFacts DEF Sound
<1>5. c.selected = {} /\ ToSet(c.ready) = ToSet(buf.ready) \cup ToSet(results)
  BY <1>1, <1>3
<1> QED BY <1>3, <1>4, <1>5 DEF b, c, np

\* A step of the trainer that only talks to buffer and producer, and leaves the
\* groups in the buffer or drops some.
LEMMA TalkKeeps ==
  ASSUME LearnerInv, pc # "await", Received, Quietly, UNCHANGED learner,
         Sound(buf', pipe', working, <<>>, <<>>, cursor, trained, served),
         ToSet(buf'.ready) \subseteq ToSet(buf.ready) \cup ToSet(results),
         pc' \notin Freezing \cup Saving \cup {"down"}
  PROVE  LearnerInv' /\ LedgerStep /\ UNCHANGED <<step, disk>>
<1>1. /\ results' = <<>> /\ replies' = <<>>
      /\ UNCHANGED <<open, served, cursor, discards, working, disk, cadence, crashes,
                     step, source, trained, snap>>
  BY DEF Received, Quietly, experiment, learner
<1>2. Flying'
  BY <1>1 DEF Flying
<1>3. Counters' /\ Stored'
  BY <1>1, SameCounters, AtWork DEF Stored
<1>4. LearnerInv'
  BY <1>2, <1>3, Calm DEF Freezing
<1>5. HeldRecords' \subseteq HeldRecords
  <2>1. ToSet(<<>>) = {}
    BY DEF ToSet
  <2>2. Held' \subseteq Held
    BY <1>1, <2>1 DEF Held
  <2> QED BY <2>2 DEF HeldRecords
<1> QED BY <1>1, <1>4, <1>5, LedgerDrops

\* A step of a publication leaves exchange and disk alone: it closes or opens
\* the server, or makes the policy of this step the one it serves.
LEMMA PublishKeeps ==
  ASSUME LearnerInv, pc # "await", buf.selected = {},
         UNCHANGED <<buf, producer, step, trained, snap, experiment>>,
         served' = source', source' = source \/ source' = step, open' \in BOOLEAN,
         pc' \notin Saving \cup {"await", "down"},
         pc' = "snapshot" => buf.reserved = {} /\ source' = step /\ step # 0
  PROVE  LearnerInv' /\ LedgerStep /\ UNCHANGED <<step, disk>>
<1>1. UNCHANGED <<buf, pipe, working, results, replies, cursor, discards, step, trained, snap,
                  disk, cadence, crashes>>
  BY DEF producer, experiment
<1>2. /\ Sound(buf, pipe, working, results, replies, cursor, trained, served)
      /\ Counters /\ Stored
      /\ step \in Nat /\ source \in Nat /\ served = source /\ source <= step
  BY AtWork
<1>3. served \in Nat /\ served' \in Nat /\ served <= served' /\ source' <= step
  BY <1>2
<1>4. Sound(buf, pipe, working, results, replies, cursor, trained, served')
  BY <1>2, <1>3, NewerSound
<1>5. Flying'
  BY <1>1, <1>4 DEF Flying
<1>6. Counters'
  <2>1. {source', served'} \subseteq Updates
    BY <1>2 DEF Counters
  <2> QED BY <1>1, <1>2, <1>3, <2>1 DEF Counters, Updates
<1>7. Stored'
  BY <1>1, <1>2 DEF Stored
<1>8. pc' = "snapshot" => buf'.reserved = {} /\ buf'.selected = {} /\ source' = step' /\ step' # 0
  BY <1>1, <1>2
<1>9. LearnerInv'
  BY <1>5, <1>6, <1>7, <1>8, Calm
<1>10. HeldRecords' = HeldRecords
  BY <1>1 DEF HeldRecords, Held
<1> QED BY <1>1, <1>9, <1>10, LedgerStays

\* Learning a leased batch is one step of the ledger.
LEMMA LedgerLearns ==
  ASSUME Sound(buf, pipe, working, results, replies, cursor, trained, served), Leases(buf),
         trained' = trained \cup {g.record : g \in Batch(buf)},
         working' = working, cursor' = cursor, disk' = disk,
         ToSet(results') \cup ToSet(buf'.ready)
           = (ToSet(buf.ready) \ Batch(buf)) \cup ToSet(results)
  PROVE  LedgerStep
<1> DEFINE batch == {g.record : g \in Batch(buf)}
<1>1. Book(buf) /\ Soundly(buf, working, results, cursor, trained, served)
  BY DEF Sound
<1>2. Cardinality(Batch(buf)) = Required /\ IsFiniteSet(Batch(buf)) /\ Batch(buf) \subseteq ToSet(buf.ready)
  <2>1. Cardinality(Batch(buf)) = Required /\ Batch(buf) \subseteq ToSet(buf.ready)
    BY <1>1, LeasesAre DEF Batch
  <2>2. IsFiniteSet(ToSet(buf.ready))
    BY <1>1, BookFacts, SetOfSeq DEF Book
  <2> QED BY <2>1, <2>2, FS_Subset
<1>3. /\ \A x, y \in Held : x.record = y.record => x = y
      /\ (working \cup ToSet(results)) \cap ToSet(buf.ready) = {}
  BY OneRecord DEF Held
<1>4. Cardinality(batch) = Required
  <2>1. \A x, y \in Batch(buf) : x.record = y.record => x = y
    BY <1>2, <1>3 DEF Held
  <2> QED BY <1>2, <2>1, RecordCount
<1>5. batch \subseteq HeldRecords
  BY <1>2 DEF HeldRecords, Held
<1>6. batch \cap trained = {}
  BY <1>1, <1>2 DEF Soundly, Recorded
<1>7. Held' = (working \cup ToSet(results) \cup ToSet(buf.ready)) \ Batch(buf)
  <2>1. (working \cup ToSet(results)) \cap Batch(buf) = {}
    BY <1>2, <1>3
  <2>2. Held' = working' \cup ToSet(results') \cup ToSet(buf'.ready)
    BY DEF Held
  <2> QED BY <2>1, <2>2
<1>8. HeldRecords' \subseteq HeldRecords \ batch
  <2>1. Held' = Held \ Batch(buf)
    BY <1>7 DEF Held
  <2>2. \A x \in Held : x \notin Batch(buf) => x.record \notin batch
    BY <1>2, <1>3 DEF Held
  <2>3. HeldRecords' = {g.record : g \in Held'}
    BY DEF HeldRecords
  <2>4. HeldRecords = {g.record : g \in Held}
    BY DEF HeldRecords
  <2> QED BY <2>1, <2>2, <2>3, <2>4
<1> HIDE DEF batch
<1>9. trained' = trained \cup batch
  BY DEF batch
<1>10. Moments' = Moments
  BY MomentsSame
<1>11. \E some \in SUBSET HeldRecords :
         /\ Cardinality(some) = Required /\ some \cap trained = {}
         /\ trained' = trained \cup some /\ HeldRecords' \subseteq HeldRecords \ some
  BY <1>4, <1>5, <1>6, <1>8, <1>9
<1>12. Ledger!Learn
  <2>1. PICK some \in SUBSET HeldRecords :
          /\ Cardinality(some) = Required /\ some \cap trained = {}
          /\ trained' = trained \cup some /\ HeldRecords' \subseteq HeldRecords \ some
    BY <1>11
  <2>2. UNCHANGED <<cursor, Moments>>
    BY <1>10
  <2>3. \A S : Ledger!Cardinality(S) = Cardinality(S)
    BY Zenon DEF Ledger!Cardinality, Cardinality
  <2> QED BY <2>1, <2>2, <2>3 DEF Ledger!Learn, Moments
<1> QED BY <1>12 DEF LedgerStep, Ledger!Next

\* The records of a leased batch have been read, and the counters after an
\* update that learns them.
LEMMA UpdateCounts ==
  ASSUME LearnerInv, pc # "await", step < MaxUpdates, step' = step + 1,
         trained' = trained \cup {g.record : g \in Batch(buf)},
         UNCHANGED <<cursor, source, served, discards, crashes, open, cadence>>
  PROVE  Counters' /\ step' \in Nat /\ step' # 0
<1>1. /\ Sound(buf, pipe, working, results, replies, cursor, trained, served)
      /\ Counters
  BY AtWork
<1>2. cursor \in Nat /\ step \in 0 .. MaxUpdates /\ MaxUpdates \in Nat
  BY <1>1, LearnerAssumption DEF Counters, Updates
<1>3. trained' \subseteq 0 .. cursor - 1
  <2>1. ToSet(buf.ready) \subseteq Finished
    BY <1>1, BookFacts DEF Sound
  <2>2. \A g \in Batch(buf) : g \in ToSet(buf.ready)
    BY DEF Batch
  <2>3. \A g \in ToSet(buf.ready) : g.record < cursor
    BY <1>1 DEF Sound, Soundly, Recorded
  <2>4. \A g \in Batch(buf) : g.record \in Nat /\ g.record < cursor
    BY <2>1, <2>2, <2>3 DEF Finished
  <2>5. \A g \in Batch(buf) : g.record \in 0 .. cursor - 1
    BY <1>2, <2>4
  <2>6. trained \subseteq 0 .. cursor - 1
    BY <1>1 DEF Counters
  <2> QED BY <2>5, <2>6
<1>4. step' \in Nat /\ step' <= MaxUpdates /\ step' # 0
  BY <1>2
<1>5. step' \in Updates
  BY <1>2, <1>4 DEF Updates
<1>6. {source, served} \subseteq Updates /\ served = source /\ source <= step
  BY <1>1 DEF Counters
<1>7. source <= step'
  BY <1>2, <1>6 DEF Updates
<1>8. Counters'
  BY <1>1, <1>3, <1>5, <1>6, <1>7 DEF Counters, Updates
<1> QED BY <1>4, <1>8

\* A leased batch that is fresh is within the lag (WithinLag), and its actions
\* are not of the future.
LEMMA BatchFresh ==
  ASSUME LearnerInv, pc # "await", Leases(buf),
         \A i \in 1 .. Required : step - buf.ready[i].old <= Lag
  PROVE  WithinLag
<1>1. Sound(buf, pipe, working, results, replies, cursor, trained, served)
      /\ served \in Nat /\ step \in Nat /\ served <= step
  BY AtWork
<1>2. Cardinality(Batch(buf)) = Required /\ Batch(buf) = {buf.ready[i] : i \in 1 .. Required}
  BY <1>1, LeasesAre DEF Sound
<1>3. \A g \in Batch(buf) : step - g.old <= Lag
  BY <1>2
<1>4. \A g \in Batch(buf) : g \in Finished /\ Aged(g, served)
  <2>1. ToSet(buf.ready) \subseteq Finished
    BY <1>1, BookFacts DEF Sound
  <2>2. Batch(buf) \subseteq ToSet(buf.ready)
    BY DEF Batch
  <2>3. \A g \in ToSet(buf.ready) : Aged(g, served)
    BY <1>1 DEF Sound, Soundly, AllAged
  <2> QED BY <2>1, <2>2, <2>3
<1>5. \A g \in Batch(buf) : g.new <= step
  <2> SUFFICES ASSUME NEW g \in Batch(buf) PROVE g.new <= step
    OBVIOUS
  <2>1. g.old \in Nat /\ g.new \in Nat /\ Aged(g, served)
    BY <1>4 DEF Finished
  <2>2. g.new <= served
    BY <2>1 DEF Aged, NoSource
  <2> QED BY <1>1, <2>1, <2>2
<1> QED BY <1>2, <1>3, <1>5 DEF WithinLag

\* A step that changes nothing of the loop.
LEMMA LearnerStays ==
  ASSUME LearnerInv, UNCHANGED <<exchange, pc, learner, experiment>>
  PROVE  LearnerInv' /\ LedgerStep /\ UNCHANGED <<buf, pc, step, disk, cadence>>
<1>1. /\ UNCHANGED <<buf, pipe, working, results, replies, cursor, discards, open, served>>
      /\ UNCHANGED <<pc, step, source, trained, snap, disk, cadence, crashes>>
  BY DEF exchange, producer, learner, experiment
<1>2. LearnerInv'
  <2>1. Exchanging' /\ Frozen' /\ Snapped' /\ Stopped'
    BY <1>1 DEF LearnerInv, Exchanging, Asking, Flying, Frozen, Snapped, Stopped
  <2>2. Stored' /\ Staged'
    BY <1>1 DEF LearnerInv, Stored, Staged, Weights
  <2>3. Counters'
    BY <1>1 DEF LearnerInv, Counters, Updates
  <2> QED BY <2>1, <2>2, <2>3 DEF LearnerInv
<1>3. HeldRecords' = HeldRecords
  BY <1>1 DEF HeldRecords, Held
<1>4. LedgerStep
  BY <1>1, <1>3, LedgerStays
<1> QED BY <1>1, <1>2, <1>4

\* What the producer does of itself is seen by the trainer only through queue
\* and pipe.
LEMMA SamplingQuiet ==
  ASSUME LearnerInv, Sampling \/ GroupFails
  PROVE  LearnerInv' /\ LedgerStep /\ UNCHANGED <<buf, pc, learner, experiment>>
<1>1. LearnerInv' /\ LedgerStep
  BY Samples, Fails
<1>2. UNCHANGED buf /\ TrainerStays
  <2>1. CASE Sampling
    BY <2>1 DEF Sampling, Produce, TakeTask, TakeSnapshot, Segment, Finish
  <2>2. CASE GroupFails
    BY <2>2 DEF GroupFails, Fail
  <2> QED BY <2>1, <2>2
<1> QED BY <1>1, <1>2 DEF TrainerStays

=============================================================================
