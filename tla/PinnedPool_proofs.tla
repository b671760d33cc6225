------------------------- MODULE PinnedPool_proofs --------------------------
(***************************************************************************)
(* Theorems about PinnedPool for any number of threads, blocks, sizes and  *)
(* events: types, no block lent while a stream works on it, no block lost  *)
(* or lent twice, and every byte accounted for.                            *)
(*                                                                         *)
(* QuietWhenLent is not inductive: what keeps a busy block from being lent *)
(* is that it is pending, or waited for, and carries an event that is not  *)
(* done (Watched), and the scan and the wait let it go only after they saw *)
(* that event done.                                                        *)
(*                                                                         *)
(* Bytes are sums of sizes over sets of blocks, as FiniteSetsExt computes  *)
(* them: a fold in an order that CHOOSE picks.  The lemmas about sums show *)
(* that the order does not matter: one element can always be added last.   *)
(***************************************************************************)
EXTENDS PinnedPool, Integers, FiniteSetTheorems, WellFoundedInduction, TLAPS

----------------------------------------------------------------------------
(***************************************************************************)
(* Sums of weights over finite sets.                                       *)
(***************************************************************************)
\* A set that holds zero, and the successor of what it holds, holds every
\* natural number.
LEMMA Induction ==
  ASSUME NEW S, 0 \in S, \A n \in Nat : n \in S => n + 1 \in S
  PROVE  Nat \subseteq S
<1> SUFFICES ASSUME NEW m \in Nat, m \notin S PROVE FALSE
  OBVIOUS
<1> DEFINE T == Nat \ S
           R == {p \in Nat \X Nat : p[1] < p[2]}
<1>1. PICK x \in T : \A y \in T : ~(<<y, x>> \in R)
  <2>1. IsWellFoundedOn(R, Nat)
    BY NatLessThanWellFounded DEF OpToRel
  <2>2. T \subseteq Nat /\ T # {}
    OBVIOUS
  <2> HIDE DEF R, T
  <2> QED BY <2>1, <2>2, WFMin
<1>2. x # 0 /\ x - 1 \in Nat
  OBVIOUS
<1>3. x - 1 \in S
  <2>1. x - 1 < x /\ x \in Nat
    BY <1>2
  <2>2. <<x - 1, x>> \in R
    BY <1>2, <2>1
  <2> QED BY <1>1, <1>2, <2>2 DEF T
<1> QED BY <1>2, <1>3

\* The sum of the weights of the elements of S.
Sum(w, S) == MapThenSumSet(LAMBDA x : w[x], S)

\* The element the fold takes first.
First(S) == CHOOSE x \in S : TRUE

\* One step of the fold, and its recursion on the sets of Sets.
Added(g, w, T) == IF T = {} THEN 0 ELSE w[First(T)] + g[T \ {First(T)}]
Obeys(g, w, Sets) == g = [T \in Sets |-> Added(g, w, T)]

\* The recursion on all the subsets of R.
Totals(g, w, R) == Obeys(g, w, SUBSET R)

\* The sum is the value of a function that obeys the recursion, if one does.
LEMMA SumIsFold ==
  ASSUME NEW w, NEW S, \E g : Totals(g, w, S)
  PROVE  \E g : Totals(g, w, S) /\ Sum(w, S) = g[S]
<1> DEFINE Fold == CHOOSE g : Totals(g, w, S)
<1>1. Totals(Fold, w, S)
  OBVIOUS
<1>2. Sum(w, S) = Fold[S]
  BY Zenon DEF Fold, Totals, Sum, MapThenSumSet, MapThenFoldSet, Obeys, Added, First
<1> HIDE DEF Fold
<1> QED BY <1>1, <1>2

\* The value of such a function at one set.
LEMMA ObeysAt ==
  ASSUME NEW w, NEW Sets, NEW g, Obeys(g, w, Sets), NEW T \in Sets
  PROVE  g[T] = Added(g, w, T)
BY DEF Obeys

\* Subsets of S with at most n elements.
Small(S, n) == {T \in SUBSET S : Cardinality(T) <= n}

\* The first element of a nonempty set is one of its elements, and what is left
\* is smaller by one.
LEMMA FirstLeaves ==
  ASSUME NEW T, IsFiniteSet(T), NEW x \in T
  PROVE  /\ First(T) \in T
         /\ IsFiniteSet(T \ {x})
         /\ Cardinality(T) \in Nat /\ Cardinality(T \ {x}) \in Nat
         /\ Cardinality(T) = Cardinality(T \ {x}) + 1
<1>1. First(T) \in T
  BY DEF First
<1>2. IsFiniteSet(T \ {x}) /\ Cardinality(T \ {x}) = Cardinality(T) - 1
  BY FS_RemoveElement
<1>3. Cardinality(T) \in Nat /\ Cardinality(T \ {x}) \in Nat
  BY <1>2, FS_CardinalityType
<1> QED BY <1>1, <1>2, <1>3

\* A function that obeys the recursion exists on the subsets of a finite set.
LEMMA FoldExists ==
  ASSUME NEW D, NEW w \in [D -> Nat], NEW S \in SUBSET D, IsFiniteSet(S)
  PROVE  \E g \in [SUBSET S -> Nat] : Totals(g, w, S)
<1> DEFINE Reached == {n \in Nat : \E g \in [Small(S, n) -> Nat] : Obeys(g, w, Small(S, n))}
<1>0. \A T \in SUBSET S : IsFiniteSet(T) /\ Cardinality(T) \in Nat /\ Cardinality(T) <= Cardinality(S)
  BY FS_Subset, FS_CardinalityType
<1>1. 0 \in Reached
  <2> DEFINE g == [T \in Small(S, 0) |-> 0]
  <2>1. \A T \in Small(S, 0) : T = {}
    BY <1>0, FS_EmptySet DEF Small
  <2>2. g \in [Small(S, 0) -> Nat] /\ Obeys(g, w, Small(S, 0))
    BY <2>1 DEF Obeys, Added
  <2> HIDE DEF g
  <2> QED BY <2>2
<1>2. ASSUME NEW n \in Nat, n \in Reached PROVE n + 1 \in Reached
  <2>1. PICK g \in [Small(S, n) -> Nat] : Obeys(g, w, Small(S, n))
    BY <1>2
  <2>2. \A T \in Small(S, n) : T \in Small(S, n + 1)
    BY <1>0 DEF Small
  <2>7. \A T \in Small(S, n) : g[T] = Added(g, w, T)
    BY <2>1, ObeysAt
  <2> DEFINE h == [T \in Small(S, n + 1) |-> Added(g, w, T)]
  <2>3. \A T \in Small(S, n + 1) : T # {} => /\ First(T) \in D
                                           /\ T \ {First(T)} \in Small(S, n)
    <3> SUFFICES ASSUME NEW T \in Small(S, n + 1), NEW y \in T
                 PROVE  First(T) \in D /\ T \ {First(T)} \in Small(S, n)
      OBVIOUS
    <3>1. T \in SUBSET S /\ IsFiniteSet(T) /\ Cardinality(T) <= n + 1
      BY <1>0 DEF Small
    <3>2. First(T) \in T
      BY DEF First
    <3>3. Cardinality(T \ {First(T)}) <= n
      <4>1. /\ Cardinality(T) \in Nat /\ Cardinality(T \ {First(T)}) \in Nat
            /\ Cardinality(T) = Cardinality(T \ {First(T)}) + 1
        BY <3>1, <3>2, FirstLeaves
      <4>2. Cardinality(T) <= n + 1
        BY <3>1
      <4> QED BY <4>1, <4>2
    <3> QED BY <3>1, <3>2, <3>3 DEF Small
  <2>4. \A T \in Small(S, n) : h[T] = g[T]
    BY <2>2, <2>7
  <2>5. h \in [Small(S, n + 1) -> Nat]
    BY <2>1, <2>3 DEF Added
  <2>6. Obeys(h, w, Small(S, n + 1))
    <3>1. \A T \in Small(S, n + 1) : T # {} => h[T \ {First(T)}] = g[T \ {First(T)}]
      BY <2>3, <2>4
    <3>2. \A T \in Small(S, n + 1) : h[T] = Added(g, w, T)
      OBVIOUS
    <3>3. h = [T \in Small(S, n + 1) |-> h[T]]
      OBVIOUS
    <3> HIDE DEF h
    <3>4. \A T \in Small(S, n + 1) : h[T] = Added(h, w, T)
      BY <3>1, <3>2 DEF Added
    <3> QED BY <3>3, <3>4 DEF Obeys
  <2> HIDE DEF h
  <2> QED BY <2>5, <2>6
<1>3. Cardinality(S) \in Reached
  <2>1. \A n \in Nat : n \in Reached => n + 1 \in Reached
    BY <1>2
  <2> HIDE DEF Reached
  <2>2. Nat \subseteq Reached
    BY <1>1, <2>1, Induction
  <2> QED BY <2>2, FS_CardinalityType
<1>4. Small(S, Cardinality(S)) = SUBSET S
  BY <1>0 DEF Small
<1> QED BY <1>3, <1>4 DEF Totals

\* Any element of a set may be taken first.
AnyOrder(g, w, S) == \A T \in SUBSET S : \A x \in T : g[T] = w[x] + g[T \ {x}]

\* The fold may take any element first.
LEMMA AnyFirst ==
  ASSUME NEW w, NEW S, IsFiniteSet(S), \A x \in S : w[x] \in Nat,
         NEW g, \A T \in SUBSET S : g[T] \in Nat, Totals(g, w, S)
  PROVE  AnyOrder(g, w, S)
<1> DEFINE Free == {n \in Nat : \A T \in SUBSET S : Cardinality(T) = n =>
                                  \A x \in T : g[T] = w[x] + g[T \ {x}]}
<1>0. \A T \in SUBSET S : IsFiniteSet(T) /\ Cardinality(T) \in Nat
  BY FS_Subset, FS_CardinalityType
<1>1. 0 \in Free
  BY <1>0, FS_EmptySet
<1>2. ASSUME NEW n \in Nat, n \in Free PROVE n + 1 \in Free
  <2> SUFFICES ASSUME NEW T \in SUBSET S, Cardinality(T) = n + 1, NEW x \in T
               PROVE  g[T] = w[x] + g[T \ {x}]
    OBVIOUS
  <2> DEFINE c == First(T)
  <2>1. c \in T
    BY DEF First
  <2> HIDE DEF c
  <2>2. g[T] = w[c] + g[T \ {c}]
    BY DEF Totals, Obeys, Added, c
  <2>3. CASE c = x
    BY <2>2, <2>3
  <2>4. CASE c # x
    <3>1. Cardinality(T \ {c}) = n /\ Cardinality(T \ {x}) = n
      <4>1. IsFiniteSet(T)
        BY <1>0
      <4>2. Cardinality(T \ {c}) \in Nat /\ Cardinality(T) = Cardinality(T \ {c}) + 1
        BY <4>1, <2>1, FirstLeaves
      <4>3. Cardinality(T \ {x}) \in Nat /\ Cardinality(T) = Cardinality(T \ {x}) + 1
        BY <4>1, FirstLeaves
      <4> QED BY <4>2, <4>3
    <3>2. x \in T \ {c} /\ c \in T \ {x} /\ (T \ {c}) \ {x} = (T \ {x}) \ {c}
      BY <2>1, <2>4
    <3>3. g[T \ {c}] = w[x] + g[(T \ {x}) \ {c}]
      <4>1. g[T \ {c}] = w[x] + g[(T \ {c}) \ {x}]
        BY <1>2, <3>1, <3>2
      <4> QED BY <3>2, <4>1, Zenon
    <3>4. g[T \ {x}] = w[c] + g[(T \ {x}) \ {c}]
      BY <1>2, <3>1, <3>2
    <3>5. w[x] \in Nat /\ w[c] \in Nat /\ g[(T \ {x}) \ {c}] \in Nat
      BY <2>1
    <3> DEFINE rest == g[(T \ {x}) \ {c}]
    <3>6. g[T] = w[c] + (w[x] + rest)
      BY <2>2, <3>3, Zenon
    <3>7. g[T \ {x}] = w[c] + rest
      BY <3>4
    <3>8. w[x] \in Nat /\ w[c] \in Nat /\ rest \in Nat
      BY <3>5
    <3> HIDE DEF rest
    <3> QED BY <3>6, <3>7, <3>8
  <2> QED BY <2>3, <2>4
<1>3. Nat \subseteq Free
  <2>1. \A n \in Nat : n \in Free => n + 1 \in Free
    BY <1>2
  <2> HIDE DEF Free
  <2> QED BY <1>1, <2>1, Induction
<1> QED BY <1>0, <1>3 DEF AnyOrder

\* The recursion determines its function, from the weights of the elements.
LEMMA FoldUnique ==
  ASSUME NEW w, NEW v, NEW S, IsFiniteSet(S), \A x \in S : w[x] = v[x],
         NEW g, Totals(g, w, S),
         NEW R, S \in SUBSET R, NEW h, Totals(h, v, R)
  PROVE  \A T \in SUBSET S : g[T] = h[T]
<1> DEFINE Same == {n \in Nat : \A T \in SUBSET S : Cardinality(T) = n => g[T] = h[T]}
<1>0. \A T \in SUBSET S : IsFiniteSet(T) /\ Cardinality(T) \in Nat /\ T \in SUBSET R
  BY FS_Subset, FS_CardinalityType
<1>1. 0 \in Same
  <2>1. \A T \in SUBSET S : Cardinality(T) = 0 => T = {}
    BY <1>0, FS_EmptySet
  <2>2. g[{}] = 0 /\ h[{}] = 0
    BY DEF Totals, Obeys, Added
  <2> QED BY <2>1, <2>2
<1>2. ASSUME NEW n \in Nat, n \in Same PROVE n + 1 \in Same
  <2> SUFFICES ASSUME NEW T \in SUBSET S, Cardinality(T) = n + 1 PROVE g[T] = h[T]
    OBVIOUS
  <2>1. T # {}
    <3>1. Cardinality({}) = 0 /\ n + 1 # 0
      BY FS_EmptySet
    <3> QED BY <3>1
  <2>2. First(T) \in T
    BY <2>1 DEF First
  <2>3. Cardinality(T \ {First(T)}) = n
    BY <1>0, <2>2, FirstLeaves
  <2>4. g[T \ {First(T)}] = h[T \ {First(T)}]
    BY <1>2, <2>3
  <2>5. g[T] = w[First(T)] + g[T \ {First(T)}]
    BY <2>1 DEF Totals, Obeys, Added
  <2>6. h[T] = v[First(T)] + h[T \ {First(T)}]
    BY <2>1, <1>0 DEF Totals, Obeys, Added
  <2> QED BY <2>2, <2>4, <2>5, <2>6
<1>3. Nat \subseteq Same
  <2>1. \A n \in Nat : n \in Same => n + 1 \in Same
    BY <1>2
  <2> HIDE DEF Same
  <2> QED BY <1>1, <2>1, Induction
<1> QED BY <1>0, <1>3

----------------------------------------------------------------------------
\* The sum over a finite set is the value there of any function that obeys the
\* recursion on a larger one.
LEMMA SumValue ==
  ASSUME NEW w, NEW R, NEW g, Totals(g, w, R),
         NEW S \in SUBSET R, IsFiniteSet(S)
  PROVE  Sum(w, S) = g[S]
<1> DEFINE k == [T \in SUBSET S |-> g[T]]
<1>1. Totals(k, w, S)
  <2>1. \A T \in SUBSET S : g[T] = Added(g, w, T)
    BY DEF Totals, Obeys
  <2>2. \A T \in SUBSET S : k[T \ {First(T)}] = g[T \ {First(T)}]
    OBVIOUS
  <2> QED BY <2>1, <2>2 DEF Totals, Obeys, Added
<1> HIDE DEF k
<1>2. PICK f : Totals(f, w, S) /\ Sum(w, S) = f[S]
  BY <1>1, SumIsFold
<1>3. \A x \in S : w[x] = w[x]
  OBVIOUS
<1>4. \A T \in SUBSET S : f[T] = g[T]
  BY <1>2, <1>3, FoldUnique
<1> QED BY <1>2, <1>4

\* A sum of naturals is a natural number.
LEMMA SumType ==
  ASSUME NEW D, NEW w \in [D -> Nat], NEW S \in SUBSET D, IsFiniteSet(S)
  PROVE  Sum(w, S) \in Nat
<1>1. PICK g \in [SUBSET S -> Nat] : Totals(g, w, S)
  BY FoldExists
<1> QED BY <1>1, SumValue

\* The sum over no element is zero.
LEMMA SumEmpty == ASSUME NEW w PROVE Sum(w, {}) = 0
<1> DEFINE g == [T \in SUBSET {} |-> 0]
<1>1. Totals(g, w, {}) /\ g[{}] = 0
  BY DEF Totals, Obeys, Added
<1> HIDE DEF g
<1>2. IsFiniteSet({}) /\ {} \in SUBSET {}
  BY FS_EmptySet
<1>3. Sum(w, {}) = g[{}]
  BY <1>1, <1>2, SumValue
<1> QED BY <1>1, <1>3

\* A new element adds its weight.
LEMMA SumAdd ==
  ASSUME NEW D, NEW w \in [D -> Nat], NEW S \in SUBSET D, IsFiniteSet(S),
         NEW x \in D \ S
  PROVE  Sum(w, S \cup {x}) = w[x] + Sum(w, S)
<1> DEFINE R == S \cup {x}
<1>1. IsFiniteSet(R) /\ R \in SUBSET D /\ S \in SUBSET R /\ R \in SUBSET R /\ x \in R /\ R \ {x} = S
  BY FS_AddElement
<1> HIDE DEF R
<1>2. PICK g \in [SUBSET R -> Nat] : Totals(g, w, R)
  BY <1>1, FoldExists
<1>3. g[R] = w[x] + g[S]
  <2>1. AnyOrder(g, w, R)
    <3>1. IsFiniteSet(R) /\ Totals(g, w, R) /\ \A y \in R : w[y] \in Nat
      BY <1>1, <1>2
    <3>2. \A T \in SUBSET R : g[T] \in Nat
      BY <1>2
    <3> QED BY <3>1, <3>2, AnyFirst
  <2> QED BY <1>1, <2>1 DEF AnyOrder
<1>4. Sum(w, R) = g[R] /\ Sum(w, S) = g[S]
  BY <1>1, <1>2, SumValue
<1> QED BY <1>3, <1>4 DEF R

\* The sum depends on the weights of the elements only.
LEMMA SumSame ==
  ASSUME NEW D, NEW w \in [D -> Nat], NEW v \in [D -> Nat],
         NEW S \in SUBSET D, IsFiniteSet(S), \A x \in S : w[x] = v[x]
  PROVE  Sum(w, S) = Sum(v, S)
<1>1. PICK g \in [SUBSET S -> Nat] : Totals(g, w, S)
  BY FoldExists
<1>2. PICK h \in [SUBSET S -> Nat] : Totals(h, v, S)
  BY FoldExists
<1>3. g[S] = h[S]
  <2>1. S \in SUBSET S
    OBVIOUS
  <2>2. \A T \in SUBSET S : g[T] = h[T]
    BY <1>1, <1>2, <2>1, FoldUnique
  <2> QED BY <2>1, <2>2
<1>4. Sum(w, S) = g[S] /\ Sum(v, S) = h[S]
  BY <1>1, <1>2, SumValue
<1> QED BY <1>3, <1>4

----------------------------------------------------------------------------
(***************************************************************************)
(* The invariant.                                                          *)
(***************************************************************************)
\* A block that a stream works on is watched through an undone event.
Watched == \A b \in busy : b \in pending \cup Waited /\ event[b] \in Events \ done

IInv == TypeOK /\ NothingLost /\ Watched

----------------------------------------------------------------------------
\* The invariant holds initially.
LEMMA InitIInv == Init => IInv
BY NoneAssumption DEF Init, IInv, TypeOK, NothingLost, Watched, Waited

\* The block is lent after its event was asked, or was available before.
LEMMA TakeAvailableKeeps == ASSUME IInv, NEW t \in Threads, NEW size \in Sizes, TakeAvailable(t, size) PROVE IInv'
<1>1. TypeOK'
  BY NoneAssumption DEF IInv, TypeOK, NothingLost, Waited, TakeAvailable, Ready, Reclaimed, Smallest, Quiet, thread, stream
<1>2. NothingLost'
  BY NoneAssumption DEF IInv, TypeOK, NothingLost, Watched, Waited, TakeAvailable, Ready, Reclaimed, Smallest, Quiet, thread, stream
<1>3. Watched'
  BY NoneAssumption DEF IInv, TypeOK, NothingLost, Watched, Waited, TakeAvailable, Ready, Reclaimed, Smallest, Quiet, thread, stream
<1> QED BY <1>1, <1>2, <1>3 DEF IInv

\* A reservation reclaims and takes no block.
LEMMA ReserveKeeps == ASSUME IInv, NEW t \in Threads, NEW size \in Sizes, Reserve(t, size) PROVE IInv'
<1>1. TypeOK'
  BY NoneAssumption, SizesAssumption DEF IInv, TypeOK, NothingLost, Waited, Reserve, Nothing, Reclaimed, Quiet, stream
<1>2. NothingLost'
  BY NoneAssumption DEF IInv, TypeOK, NothingLost, Watched, Waited, Reserve, Nothing, Reclaimed, Quiet, stream
<1>3. Watched'
  BY NoneAssumption DEF IInv, TypeOK, NothingLost, Watched, Waited, Reserve, Nothing, Reclaimed, Quiet, stream
<1> QED BY <1>1, <1>2, <1>3 DEF IInv

\* The block moves from the pending ones into the hand of one thread.
LEMMA TakePendingKeeps == ASSUME IInv, NEW t \in Threads, NEW size \in Sizes, TakePending(t, size) PROVE IInv'
<1>1. TypeOK'
  BY NoneAssumption DEF IInv, TypeOK, NothingLost, Waited, TakePending, Nothing, Reclaimed, Smallest, Quiet, stream
<1>2. NothingLost'
  BY NoneAssumption DEF IInv, TypeOK, NothingLost, Watched, Waited, TakePending, Nothing, Reclaimed, Smallest, Quiet, stream
<1>3. Watched'
  BY NoneAssumption DEF IInv, TypeOK, NothingLost, Watched, Waited, TakePending, Nothing, Reclaimed, Smallest, Quiet, stream
<1> QED BY <1>1, <1>2, <1>3 DEF IInv

\* A refusal leaves nothing but the reclamation behind.
LEMMA RefuseKeeps == ASSUME IInv, NEW t \in Threads, NEW size \in Sizes, Refuse(t, size) PROVE IInv'
<1>1. TypeOK'
  BY NoneAssumption DEF IInv, TypeOK, NothingLost, Waited, Refuse, Nothing, Reclaimed, Quiet, thread, stream
<1>2. NothingLost'
  BY NoneAssumption DEF IInv, TypeOK, NothingLost, Watched, Waited, Refuse, Nothing, Reclaimed, Quiet, thread, stream
<1>3. Watched'
  BY NoneAssumption DEF IInv, TypeOK, NothingLost, Watched, Waited, Refuse, Nothing, Reclaimed, Quiet, thread, stream
<1> QED BY <1>1, <1>2, <1>3 DEF IInv

\* A new allocation is in no other place.
LEMMA AllocatedKeeps == ASSUME IInv, NEW t \in Threads, Allocated(t) PROVE IInv'
<1>1. TypeOK'
  BY NoneAssumption DEF IInv, TypeOK, NothingLost, Waited, Allocated, Return, stream
<1>2. NothingLost'
  BY NoneAssumption DEF IInv, TypeOK, NothingLost, Watched, Waited, Allocated, Return, stream
<1>3. Watched'
  BY NoneAssumption DEF IInv, TypeOK, NothingLost, Watched, Waited, Allocated, Return, stream
<1> QED BY <1>1, <1>2, <1>3 DEF IInv

\* A failed allocation owns no block.
LEMMA AllocationFailsKeeps == ASSUME IInv, NEW t \in Threads, AllocationFails(t) PROVE IInv'
<1>1. TypeOK'
  BY NoneAssumption DEF IInv, TypeOK, NothingLost, Waited, AllocationFails, Return, lists, stream
<1>2. NothingLost'
  BY NoneAssumption DEF IInv, TypeOK, NothingLost, Watched, Waited, AllocationFails, Return, lists, stream
<1>3. Watched'
  BY NoneAssumption DEF IInv, TypeOK, NothingLost, Watched, Waited, AllocationFails, Return, lists, stream
<1> QED BY <1>1, <1>2, <1>3 DEF IInv

\* The event the thread waited for is done.
LEMMA SynchronizedKeeps == ASSUME IInv, NEW t \in Threads, Synchronized(t) PROVE IInv'
<1>1. TypeOK'
  BY NoneAssumption DEF IInv, TypeOK, NothingLost, Waited, Synchronized, Return, Quiet, stream
<1>2. NothingLost'
  BY NoneAssumption DEF IInv, TypeOK, NothingLost, Watched, Waited, Synchronized, Return, Quiet, stream
<1>3. Watched'
  BY NoneAssumption DEF IInv, TypeOK, NothingLost, Watched, Waited, Synchronized, Return, Quiet, stream
<1> QED BY <1>1, <1>2, <1>3 DEF IInv

\* The block goes back with its event.
LEMMA SynchronizeFailsKeeps == ASSUME IInv, NEW t \in Threads, SynchronizeFails(t) PROVE IInv'
<1>1. TypeOK'
  BY NoneAssumption DEF IInv, TypeOK, NothingLost, Waited, SynchronizeFails, Return, stream
<1>2. NothingLost'
  BY NoneAssumption DEF IInv, TypeOK, NothingLost, Watched, Waited, SynchronizeFails, Return, stream
<1>3. Watched'
  BY NoneAssumption DEF IInv, TypeOK, NothingLost, Watched, Waited, SynchronizeFails, Return, stream
<1> QED BY <1>1, <1>2, <1>3 DEF IInv

\* A block that no copy touches becomes available.
LEMMA ReleaseNowKeeps == ASSUME IInv, NEW b \in Blocks, ReleaseNow(b) PROVE IInv'
<1>1. TypeOK'
  BY NoneAssumption DEF IInv, TypeOK, NothingLost, Waited, ReleaseNow, thread, stream
<1>2. NothingLost'
  BY NoneAssumption DEF IInv, TypeOK, NothingLost, Watched, Waited, ReleaseNow, thread, stream
<1>3. Watched'
  BY NoneAssumption DEF IInv, TypeOK, NothingLost, Watched, Waited, ReleaseNow, thread, stream
<1> QED BY <1>1, <1>2, <1>3 DEF IInv

\* A block that may still be copied becomes pending, with the event behind the copy.
LEMMA ReleaseAfterKeeps == ASSUME IInv, NEW b \in Blocks, NEW e \in Events, ReleaseAfter(b, e) PROVE IInv'
<1>1. TypeOK'
  BY NoneAssumption DEF IInv, TypeOK, NothingLost, Waited, ReleaseAfter, thread
<1>2. NothingLost'
  BY NoneAssumption DEF IInv, TypeOK, NothingLost, Watched, Waited, ReleaseAfter, thread
<1>3. Watched'
  BY NoneAssumption DEF IInv, TypeOK, NothingLost, Watched, Waited, ReleaseAfter, thread
<1> QED BY <1>1, <1>2, <1>3 DEF IInv

\* A new event watches no block yet.
LEMMA RecordKeeps == ASSUME IInv, NEW e \in Events, Record(e) PROVE IInv'
<1>1. TypeOK'
  BY NoneAssumption DEF IInv, TypeOK, NothingLost, Waited, Record, lists, thread
<1>2. NothingLost'
  BY NoneAssumption DEF IInv, TypeOK, NothingLost, Watched, Waited, Record, lists, thread
<1>3. Watched'
  BY NoneAssumption DEF IInv, TypeOK, NothingLost, Watched, Waited, Record, lists, thread
<1> QED BY <1>1, <1>2, <1>3 DEF IInv

\* The blocks of the event are quiet now.
LEMMA CompleteKeeps == ASSUME IInv, NEW e \in Events, Complete(e) PROVE IInv'
<1>1. TypeOK'
  BY NoneAssumption DEF IInv, TypeOK, NothingLost, Waited, Complete, lists, thread
<1>2. NothingLost'
  BY NoneAssumption DEF IInv, TypeOK, NothingLost, Watched, Waited, Complete, lists, thread
<1>3. Watched'
  BY NoneAssumption DEF IInv, TypeOK, NothingLost, Watched, Waited, Complete, lists, thread
<1> QED BY <1>1, <1>2, <1>3 DEF IInv

\* Every step keeps the invariant.
LEMMA StepKeeps == IInv /\ [Next]_vars => IInv'
<1> SUFFICES ASSUME IInv, [Next]_vars PROVE IInv' OBVIOUS
<1>1. ASSUME NEW t \in Threads, Resume(t) PROVE IInv'
  BY <1>1, AllocatedKeeps, AllocationFailsKeeps, SynchronizedKeeps,
     SynchronizeFailsKeeps DEF Resume
<1>2. ASSUME NEW t \in Threads, NEW size \in Sizes, Acquire(t, size) PROVE IInv'
  BY <1>2, TakeAvailableKeeps, ReserveKeeps, TakePendingKeeps, RefuseKeeps DEF Acquire
<1>3. ASSUME NEW b \in Blocks, ReleaseNow(b) PROVE IInv'
  BY <1>3, ReleaseNowKeeps
<1>4. ASSUME NEW b \in Blocks, NEW e \in Events, ReleaseAfter(b, e) PROVE IInv'
  BY <1>4, ReleaseAfterKeeps
<1>5. ASSUME NEW e \in Events, Complete(e) PROVE IInv'
  BY <1>5, CompleteKeeps
<1>6. ASSUME NEW e \in Events, Record(e) PROVE IInv'
  BY <1>6, RecordKeeps
<1>7. ASSUME UNCHANGED vars PROVE IInv'
  BY <1>7 DEF IInv, TypeOK, NothingLost, Watched, Waited, vars, lists, thread, stream
<1> QED BY <1>1, <1>2, <1>3, <1>4, <1>5, <1>6, <1>7 DEF Next

\* The invariant holds in every reachable state.
LEMMA Invariance == Spec => []IInv
<1>1. Init => IInv BY InitIInv
<1>2. IInv /\ [Next]_vars => IInv' BY StepKeeps
<1> QED BY <1>1, <1>2, PTL DEF Spec

----------------------------------------------------------------------------
\* Every reachable state of the pool is well typed.
THEOREM TypeCorrect == Spec => []TypeOK
<1>1. IInv => TypeOK BY DEF IInv
<1> QED BY <1>1, Invariance, PTL

\* acquire lends no block that a copy may still read or write, whatever fails.
THEOREM LentBlocksAreQuiet == Spec => []QuietWhenLent
<1>1. IInv => QuietWhenLent BY DEF IInv, NothingLost, Watched, QuietWhenLent
<1> QED BY <1>1, Invariance, PTL

\* The pool loses no block and lends none twice, whatever fails.
THEOREM NoBlockIsLost == Spec => []NothingLost
<1>1. IInv => NothingLost BY DEF IInv
<1> QED BY <1>1, Invariance, PTL

----------------------------------------------------------------------------
\* The bytes.

\* The threads whose allocation is under way.
Reserving == {t \in Threads : pc[t] = "reserved"}

\* What is owned and what is under way is finite, and total is their sum.
Ledger ==
  /\ IsFiniteSet(blocks) /\ IsFiniteSet(Reserving)
  /\ total = Sum(capacity, blocks) + Sum(want, Reserving)
  /\ total <= MaxHostBytes

\* Accounted speaks of the same sums.
LEMMA AccountedIsLedger == Ledger => Accounted
BY DEF Ledger, Accounted, Reserving, Sum

\* Nothing is owned at first.
LEMMA InitLedger == Init => Ledger
<1> SUFFICES ASSUME Init PROVE Ledger OBVIOUS
<1>1. blocks = {} /\ Reserving = {} /\ total = 0
  BY DEF Init, Reserving
<1> QED BY <1>1, SumEmpty, FS_EmptySet, BoundAssumption DEF Ledger

\* The books stay when neither side of them changes.
LEMMA LedgerStays ==
  ASSUME Ledger, UNCHANGED <<blocks, capacity, total, want>>, Reserving' = Reserving
  PROVE  Ledger'
BY DEF Ledger

\* The set of reservations stays when the thread neither enters nor leaves it.
LEMMA ReservingStays ==
  ASSUME TypeOK, NEW t \in Threads, pc[t] # "reserved", NEW s \in {"idle", "waiting"},
         pc' = [pc EXCEPT ![t] = s]
  PROVE  Reserving' = Reserving
BY DEF Reserving, TypeOK

\* The sums are natural numbers.
LEMMA LedgerNumbers ==
  ASSUME TypeOK, Ledger
  PROVE  /\ Sum(capacity, blocks) \in Nat /\ Sum(want, Reserving) \in Nat /\ total \in Nat
         /\ capacity \in [Blocks -> Nat] /\ want \in [Threads -> Nat]
         /\ blocks \in SUBSET Blocks /\ Reserving \in SUBSET Threads
<1>1. /\ capacity \in [Blocks -> Nat] /\ want \in [Threads -> Nat]
      /\ blocks \in SUBSET Blocks /\ Reserving \in SUBSET Threads
      /\ IsFiniteSet(blocks) /\ IsFiniteSet(Reserving)
  BY DEF TypeOK, Ledger, Reserving
<1>2. Sum(capacity, blocks) \in Nat
  BY <1>1, SumType
<1>3. Sum(want, Reserving) \in Nat
  BY <1>1, SumType
<1> QED BY <1>1, <1>2, <1>3 DEF Ledger

\* A thread that leaves its reservation takes its bytes from the sum.
LEMMA ReservationLeaves ==
  ASSUME TypeOK, Ledger, NEW t \in Threads, pc[t] = "reserved", Return(t), want' = want
  PROVE  /\ IsFiniteSet(Reserving')
         /\ Sum(want, Reserving) = want[t] + Sum(want, Reserving')
         /\ Sum(want, Reserving') \in Nat
<1> DEFINE Rest == Reserving \ {t}
<1>1. Reserving' = Rest
  BY DEF Reserving, Return, TypeOK
<1>2. IsFiniteSet(Rest) /\ Rest \in SUBSET Threads /\ t \in Threads \ Rest /\ Rest \cup {t} = Reserving
  BY FS_RemoveElement DEF Ledger, Reserving
<1> HIDE DEF Rest
<1>3. want \in [Threads -> Nat]
  BY DEF TypeOK
<1>4. Sum(want, Rest \cup {t}) = want[t] + Sum(want, Rest)
  BY <1>2, <1>3, SumAdd
<1>5. Sum(want, Rest) \in Nat
  BY <1>2, <1>3, SumType
<1> QED BY <1>1, <1>2, <1>4, <1>5

\* A reservation adds its bytes to both sides, within the bound.
LEMMA ReserveAccounts ==
  ASSUME TypeOK, Ledger, NEW t \in Threads, NEW size \in Sizes, Reserve(t, size)
  PROVE  Ledger'
<1> DEFINE aligned == Aligned(size)
<1>1. /\ aligned \in Nat /\ pc[t] = "idle"
      /\ total + aligned <= MaxHostBytes /\ total' = total + aligned
      /\ pc' = [pc EXCEPT ![t] = "reserved"] /\ want' = [want EXCEPT ![t] = aligned]
      /\ blocks' = blocks /\ capacity' = capacity
  BY SizesAssumption DEF Reserve, Nothing
<1> HIDE DEF aligned
<1>2. Reserving' = Reserving \cup {t} /\ t \in Threads \ Reserving
  BY <1>1 DEF Reserving, TypeOK
<1>3. want \in [Threads -> Nat] /\ want' \in [Threads -> Nat] /\ want'[t] = aligned
  BY <1>1 DEF TypeOK
<1>4. Reserving \in SUBSET Threads /\ IsFiniteSet(Reserving)
  BY DEF Ledger, Reserving
<1>5. \A u \in Reserving : want[u] = want'[u]
  BY <1>1, <1>2 DEF TypeOK
<1>6. Sum(want', Reserving) = Sum(want, Reserving)
  BY <1>3, <1>4, <1>5, SumSame
<1>7. Sum(want', Reserving \cup {t}) = aligned + Sum(want', Reserving)
  BY <1>2, <1>3, <1>4, SumAdd
<1>8. IsFiniteSet(Reserving')
  BY <1>2, <1>4, FS_AddElement
<1>9. Sum(capacity, blocks) \in Nat /\ Sum(want, Reserving) \in Nat
  BY LedgerNumbers
<1>10. total' = Sum(capacity', blocks') + Sum(want', Reserving')
  BY <1>1, <1>2, <1>6, <1>7, <1>9 DEF Ledger
<1> QED BY <1>1, <1>8, <1>10 DEF Ledger

\* The bytes move from the reservation to the new block.
LEMMA AllocatedAccounts ==
  ASSUME TypeOK, Ledger, NEW t \in Threads, Allocated(t)
  PROVE  Ledger'
<1>1. PICK b \in Blocks \ blocks : /\ blocks' = blocks \cup {b}
                                  /\ capacity' = [capacity EXCEPT ![b] = want[t]]
  BY DEF Allocated
<1>2. pc[t] = "reserved" /\ Return(t) /\ want' = want /\ total' = total
  BY DEF Allocated
<1>3. /\ IsFiniteSet(Reserving')
      /\ Sum(want, Reserving) = want[t] + Sum(want, Reserving')
      /\ Sum(want, Reserving') \in Nat
  BY <1>2, ReservationLeaves
<1>4. /\ capacity \in [Blocks -> Nat] /\ capacity' \in [Blocks -> Nat]
      /\ capacity'[b] = want[t] /\ want[t] \in Nat
      /\ \A c \in blocks : capacity[c] = capacity'[c]
  BY <1>1 DEF TypeOK
<1>5. blocks \in SUBSET Blocks /\ IsFiniteSet(blocks)
  BY DEF TypeOK, Ledger
<1>6. Sum(capacity', blocks) = Sum(capacity, blocks)
  BY <1>4, <1>5, SumSame
<1>7. Sum(capacity', blocks \cup {b}) = want[t] + Sum(capacity', blocks)
  BY <1>4, <1>5, SumAdd
<1>8. IsFiniteSet(blocks')
  BY <1>1, <1>5, FS_AddElement
<1>9. Sum(capacity, blocks) \in Nat
  BY LedgerNumbers
<1>10. total' = Sum(capacity', blocks') + Sum(want', Reserving')
  BY <1>1, <1>2, <1>3, <1>4, <1>6, <1>7, <1>9 DEF Ledger
<1> QED BY <1>2, <1>3, <1>8, <1>10 DEF Ledger

\* The bytes of a failed allocation are given back.
LEMMA AllocationFailsAccounts ==
  ASSUME TypeOK, Ledger, NEW t \in Threads, AllocationFails(t)
  PROVE  Ledger'
<1>1. /\ pc[t] = "reserved" /\ Return(t) /\ want' = want
      /\ total' = total - want[t] /\ blocks' = blocks /\ capacity' = capacity
  BY DEF AllocationFails, lists
<1>2. /\ IsFiniteSet(Reserving')
      /\ Sum(want, Reserving) = want[t] + Sum(want, Reserving')
      /\ Sum(want, Reserving') \in Nat
  BY <1>1, ReservationLeaves
<1>3. want[t] \in Nat /\ Sum(capacity, blocks) \in Nat /\ total \in Nat
  BY LedgerNumbers DEF TypeOK
<1>4. total' = Sum(capacity', blocks') + Sum(want', Reserving')
  BY <1>1, <1>2, <1>3 DEF Ledger
<1>5. total' <= MaxHostBytes
  BY <1>1, <1>3, BoundAssumption DEF Ledger
<1> QED BY <1>1, <1>2, <1>4, <1>5 DEF Ledger

\* Every step keeps the books.
LEMMA StepAccounts == TypeOK /\ Ledger /\ [Next]_vars => Ledger'
<1> SUFFICES ASSUME TypeOK, Ledger, [Next]_vars PROVE Ledger' OBVIOUS
<1>1. ASSUME NEW t \in Threads, Resume(t) PROVE Ledger'
  <2>1. CASE Synchronized(t)
    BY <2>1, LedgerStays, ReservingStays DEF Synchronized, Return
  <2>2. CASE SynchronizeFails(t)
    BY <2>2, LedgerStays, ReservingStays DEF SynchronizeFails, Return
  <2> QED BY <1>1, <2>1, <2>2, AllocatedAccounts, AllocationFailsAccounts DEF Resume
<1>2. ASSUME NEW t \in Threads, NEW size \in Sizes, Acquire(t, size) PROVE Ledger'
  <2>1. CASE TakeAvailable(t, size)
    BY <2>1, LedgerStays DEF TakeAvailable, thread, Reserving
  <2>2. CASE TakePending(t, size)
    BY <2>2, LedgerStays, ReservingStays DEF TakePending, Nothing
  <2>3. CASE Refuse(t, size)
    BY <2>3, LedgerStays DEF Refuse, thread, Reserving
  <2> QED BY <1>2, <2>1, <2>2, <2>3, ReserveAccounts DEF Acquire
<1>3. ASSUME NEW b \in Blocks, ReleaseNow(b) PROVE Ledger'
  BY <1>3, LedgerStays DEF ReleaseNow, thread, Reserving
<1>4. ASSUME NEW b \in Blocks, NEW e \in Events, ReleaseAfter(b, e) PROVE Ledger'
  BY <1>4, LedgerStays DEF ReleaseAfter, thread, Reserving
<1>5. ASSUME NEW e \in Events, Complete(e) PROVE Ledger'
  BY <1>5, LedgerStays DEF Complete, thread, Reserving
<1>6. ASSUME NEW e \in Events, Record(e) PROVE Ledger'
  BY <1>6, LedgerStays DEF Record, thread, Reserving
<1>7. ASSUME UNCHANGED vars PROVE Ledger'
  BY <1>7, LedgerStays DEF vars, thread, Reserving
<1> QED BY <1>1, <1>2, <1>3, <1>4, <1>5, <1>6, <1>7 DEF Next

\* The pool owns the bytes it counts and no more than it may, also while
\* several threads allocate and after some of the allocations fail.
THEOREM BytesAreAccounted == Spec => []Accounted
<1>1. Init => Ledger BY InitLedger
<1>2. TypeOK /\ Ledger /\ [Next]_vars => Ledger' BY StepAccounts
<1>3. Ledger => Accounted BY AccountedIsLedger
<1> QED BY <1>1, <1>2, <1>3, TypeCorrect, PTL DEF Spec
=============================================================================
