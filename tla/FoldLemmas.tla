----------------------------- MODULE FoldLemmas -----------------------------
(***************************************************************************)
(* What the proofs about AgentTurn, Conversation and PlannedTurn need to   *)
(* know of sums over sets and of folds over sequences.                     *)
(*                                                                         *)
(* A fold is a recursive function on the subsets of its domain.  Induction *)
(* over such data is by a smallest counterexample: the strict subsets of   *)
(* finite sets are well-founded, so a set of counterexamples that is not   *)
(* empty has a minimal member.                                             *)
(***************************************************************************)
EXTENDS Integers, FiniteSetsExt, SequenceTheorems, FiniteSetTheorems, TLAPS

LEMMA SmallestSet ==
  ASSUME NEW S, NEW T \in SUBSET FiniteSubsetsOf(S), T # {}
  PROVE  \E x \in T : \A y \in T : y \subseteq x => y = x
<1>1. \E x \in T : \A y \in T : <<y, x>> \notin StrictSubsetOrdering(S)
  BY FS_StrictSubsetOrderingWellFounded, WFMin
<1>2. \A x \in T : x \in SUBSET S
  BY DEF FiniteSubsetsOf
<1> QED
  BY <1>1, <1>2 DEF StrictSubsetOrdering

LEMMA SmallestNumber ==
  ASSUME NEW T \in SUBSET Nat, T # {}
  PROVE  \E n \in T : \A m \in T : n <= m
<1> DEFINE U == {1..n : n \in T}
<1>1. U \in SUBSET FiniteSubsetsOf(Nat) /\ U # {}
  <2>1. \A n \in T : 1..n \in SUBSET Nat /\ IsFiniteSet(1..n)
    BY FS_Interval
  <2> QED
    BY <2>1 DEF FiniteSubsetsOf
<1>2. PICK x \in U : \A y \in U : y \subseteq x => y = x
  <2> HIDE DEF U
  <2> QED
    BY <1>1, SmallestSet
<1>3. PICK n \in T : x = 1..n
  OBVIOUS
<1>4. ASSUME NEW m \in T PROVE n <= m
  <2> SUFFICES ASSUME m < n PROVE FALSE
    OBVIOUS
  <2>1. 1..m \in U /\ 1..m \subseteq x
    BY <1>3
  <2>2. 1..m = 1..n
    BY <1>2, <1>3, <2>1
  <2>3. n \in 1..n /\ n \notin 1..m
    OBVIOUS
  <2> QED
    BY <2>2, <2>3
<1> QED
  BY <1>4

LEMMA MaxIsLargest ==
  ASSUME NEW n \in Nat, NEW T \in SUBSET (1..n), T # {}
  PROVE  Max(T) \in T /\ \A y \in T : Max(T) >= y
<1> DEFINE D == {n - y : y \in T}
<1>1. D \in SUBSET Nat /\ D # {}
  <2>1. \A y \in T : n - y \in Nat
    OBVIOUS
  <2> QED
    BY <2>1
<1>2. PICK d \in D : \A e \in D : d <= e
  <2> HIDE DEF D
  <2> QED
    BY <1>1, SmallestNumber
<1>3. PICK x \in T : d = n - x
  OBVIOUS
<1>4. ASSUME NEW y \in T PROVE x >= y
  <2>1. n - y \in D
    OBVIOUS
  <2>2. n - x <= n - y
    <3> HIDE DEF D
    <3> QED
      BY <1>2, <1>3, <2>1
  <2>3. x \in Nat /\ y \in Nat
    OBVIOUS
  <2> HIDE DEF D
  <2> QED
    BY <2>2, <2>3
<1> QED
  BY <1>4 DEF Max

LEMMA MinIsSmallest ==
  ASSUME NEW n \in Nat, NEW T \in SUBSET (1..n), T # {}
  PROVE  Min(T) \in T /\ \A y \in T : Min(T) <= y
<1>1. PICK x \in T : \A y \in T : x <= y
  BY SmallestNumber
<1> QED
  BY <1>1 DEF Min

---------------------------------------------------------------------------
(* Folds over a sequence, from the left: step[i] takes in the i-th element. *)

(* The recursive equation of such a fold has a solution, ... *)
FoldsTo(I, n, b, step) ==
  \A t \in SUBSET (1..n) :
    I[t] = IF t = {} THEN b ELSE step[Max(t)][I[t \ {Max(t)}]]

LEMMA FoldExists ==
  ASSUME NEW n \in Nat, NEW S, NEW b \in S, NEW step \in [1..n -> [S -> S]]
  PROVE  \E I \in [SUBSET (1..n) -> S] : FoldsTo(I, n, b, step)
<1> DEFINE Some(k) == \E I \in [SUBSET (1..k) -> S] : FoldsTo(I, k, b, step)
           bad == {k \in 0..n : ~Some(k)}
<1> SUFFICES bad = {}
  <2>1. n \in 0..n
    OBVIOUS
  <2>2. n \notin bad => Some(n)
    <3> HIDE DEF Some
    <3> QED
      BY <2>1
  <2> QED
    BY <2>2
<1> SUFFICES ASSUME bad # {} PROVE FALSE
  OBVIOUS
<1>0. bad \in SUBSET Nat
  OBVIOUS
<1>1. PICK k \in bad : \A m \in bad : k <= m
  <2> HIDE DEF bad
  <2> QED
    BY <1>0, SmallestNumber
<1>4. k \in 0..n /\ ~Some(k)
  <2> HIDE DEF Some
  <2> QED
    OBVIOUS
<1>2. CASE k = 0
  <2> DEFINE I == [t \in SUBSET (1..k) |-> b]
  <2>1. I \in [SUBSET (1..k) -> S] /\ \A t \in SUBSET (1..k) : t = {}
    BY <1>2
  <2>2. FoldsTo(I, k, b, step)
    BY <2>1 DEF FoldsTo
  <2> QED
    BY <1>4, <2>1, <2>2
<1>3. CASE k # 0
  <2>1. k \in 1..n /\ k - 1 \in 0..n /\ ~(k <= k - 1)
    BY <1>3, <1>4
  <2>2. Some(k - 1)
    <3> HIDE DEF Some
    <3> QED
      BY <1>1, <2>1
  <2>3. PICK I \in [SUBSET (1..(k - 1)) -> S] : FoldsTo(I, k - 1, b, step)
    BY <2>2
  <2> DEFINE J == [t \in SUBSET (1..k) |->
                     IF k \in t THEN step[k][I[t \ {k}]] ELSE I[t]]
  <2>4. ASSUME NEW t \in SUBSET (1..k)
        PROVE  t \ {k} \in SUBSET (1..(k - 1)) /\ (k \notin t => t \in SUBSET (1..(k - 1)))
    <3>1. \A i \in 1..k : i # k => i \in 1..(k - 1)
      BY <2>1
    <3> QED
      BY <3>1
  <2>5. J \in [SUBSET (1..k) -> S]
    BY <2>1, <2>4
  <2>6. ASSUME NEW t \in SUBSET (1..k)
        PROVE  J[t] = IF t = {} THEN b ELSE step[Max(t)][J[t \ {Max(t)}]]
    <3>1. CASE k \in t
      <4>1. Max(t) = k
        <5> HIDE DEF J, bad
        <5>1. k \in Nat /\ t # {}
          BY <2>1, <3>1
        <5>2. Max(t) \in t /\ \A y \in t : Max(t) >= y
          BY <5>1, MaxIsLargest
        <5>3. Max(t) \in 1..k /\ Max(t) >= k
          BY <3>1, <5>2
        <5> QED
          BY <2>1, <5>3
      <4>2. J[t] = step[k][I[t \ {k}]] /\ J[t \ {k}] = I[t \ {k}]
        BY <2>4, <3>1
      <4> QED
        BY <3>1, <4>1, <4>2
    <3>2. CASE k \notin t
      <4>1. t \in SUBSET (1..(k - 1)) /\ J[t] = I[t]
        BY <2>4, <3>2
      <4>2. I[t] = IF t = {} THEN b ELSE step[Max(t)][I[t \ {Max(t)}]]
        BY <2>3, <4>1 DEF FoldsTo
      <4>3. J[t \ {Max(t)}] = I[t \ {Max(t)}]
        BY <2>4, <3>2
      <4> QED
        BY <4>1, <4>2, <4>3
    <3> QED
      BY <3>1, <3>2
  <2>7. FoldsTo(J, k, b, step)
    BY <2>6 DEF FoldsTo
  <2> QED
    BY <1>4, <2>5, <2>7
<1> QED
  BY <1>2, <1>3

(* ... and whatever solves it runs through the prefixes of the sequence. *)
Runs(F, n, b, step) ==
  F[0] = b /\ \A k \in 1..n : F[k] = step[k][F[k - 1]]

FoldsWithin(J, n, S, b, step) ==
  /\ J[{}] = b
  /\ \A t \in SUBSET (1..n) :
       t # {} /\ J[t \ {Max(t)}] \in S => J[t] = step[Max(t)][J[t \ {Max(t)}]]

LEMMA FoldRuns ==
  ASSUME NEW n \in Nat, NEW S, NEW b \in S, NEW step \in [1..n -> [S -> S]], NEW J,
         FoldsWithin(J, n, S, b, step)
  PROVE  \E F \in [0..n -> S] : Runs(F, n, b, step) /\ F[n] = J[1..n]
<1> DEFINE bad == {k \in 0..n : J[1..k] \notin S}
           F == [k \in 0..n |-> J[1..k]]
<1>1. 1..0 = {}
  OBVIOUS
<1>2. ASSUME NEW k \in 1..n, J[1..(k - 1)] \in S
      PROVE  J[1..k] = step[k][J[1..(k - 1)]]
  <2>1. 1..k \in SUBSET (1..n) /\ k \in 1..k
    OBVIOUS
  <2>2. Max(1..k) = k
    <3>1. Max(1..k) \in 1..k /\ Max(1..k) >= k
      BY <2>1, MaxIsLargest
    <3> QED
      BY <3>1
  <2>3. (1..k) \ {k} = 1..(k - 1)
    OBVIOUS
  <2> QED
    BY <1>2, <2>1, <2>2, <2>3 DEF FoldsWithin
<1>3. bad = {}
  <2> SUFFICES ASSUME bad # {} PROVE FALSE
    OBVIOUS
  <2>1. PICK k \in bad : \A m \in bad : k <= m
    <3>1. bad \in SUBSET Nat
      OBVIOUS
    <3> QED
      BY <3>1, SmallestNumber
  <2>2. k # 0
    BY <1>1 DEF FoldsWithin
  <2>3. k \in 1..n /\ k - 1 \in 0..n /\ ~(k <= k - 1)
    BY <2>2
  <2>4. J[1..(k - 1)] \in S
    BY <2>1, <2>3
  <2>5. J[1..k] = step[k][J[1..(k - 1)]]
    BY <1>2, <2>3, <2>4
  <2>6. J[1..k] \in S
    BY <2>3, <2>4, <2>5
  <2> QED
    BY <2>6
<1>4. \A k \in 0..n : J[1..k] \in S
  BY <1>3
<1>5. F \in [0..n -> S]
  BY <1>4
<1>6. Runs(F, n, b, step)
  <2>1. F[0] = b
    BY <1>1 DEF FoldsWithin
  <2>2. ASSUME NEW k \in 1..n PROVE F[k] = step[k][F[k - 1]]
    <3>1. k \in 0..n /\ k - 1 \in 0..n
      OBVIOUS
    <3> QED
      BY <1>2, <1>4, <3>1
  <2> QED
    BY <2>1, <2>2 DEF Runs
<1>7. F[n] = J[1..n]
  OBVIOUS
<1> QED
  BY <1>5, <1>6, <1>7

(* Two runs of the same steps come to the same. *)
LEMMA RunsUnique ==
  ASSUME NEW n \in Nat, NEW b, NEW step, NEW F, NEW G,
         Runs(F, n, b, step), Runs(G, n, b, step)
  PROVE  F[n] = G[n]
<1> DEFINE bad == {k \in 0..n : F[k] # G[k]}
<1>1. bad = {}
  <2> SUFFICES ASSUME bad # {} PROVE FALSE
    OBVIOUS
  <2>1. PICK k \in bad : \A m \in bad : k <= m
    <3>1. bad \in SUBSET Nat
      OBVIOUS
    <3> QED
      BY <3>1, SmallestNumber
  <2>2. k # 0
    BY DEF Runs
  <2>3. k \in 1..n /\ k - 1 \in 0..n /\ ~(k <= k - 1)
    BY <2>2
  <2>4. F[k - 1] = G[k - 1]
    BY <2>1, <2>3
  <2> QED
    BY <2>3, <2>4 DEF Runs
<1> QED
  BY <1>1

---------------------------------------------------------------------------
(* Sums over a finite set, taken in any order. *)
SumsTo(I, S, v) ==
  I[{}] = 0 /\ \A t \in SUBSET S : \A x \in t : I[t] = v[x] + I[t \ {x}]

LEMMA SumExists ==
  ASSUME NEW S, IsFiniteSet(S), NEW v \in [S -> Nat]
  PROVE  \E I \in [SUBSET S -> Nat] : SumsTo(I, S, v)
<1> DEFINE Some(t) == \E I \in [SUBSET t -> Nat] : SumsTo(I, t, v)
           bad == {t \in SUBSET S : ~Some(t)}
<1> SUFFICES bad = {}
  <2>1. S \notin bad => Some(S)
    <3> HIDE DEF Some
    <3> QED
      OBVIOUS
  <2> QED
    BY <2>1
<1> SUFFICES ASSUME bad # {} PROVE FALSE
  OBVIOUS
<1>0. bad \in SUBSET FiniteSubsetsOf(S)
  <2> HIDE DEF Some
  <2>1. SUBSET S = FiniteSubsetsOf(S)
    BY FS_FiniteSubsetsOfFinite
  <2> QED
    BY <2>1
<1>1. PICK t \in bad : \A u \in bad : u \subseteq t => u = t
  <2> HIDE DEF bad
  <2> QED
    BY <1>0, SmallestSet
<1>4. t \in SUBSET S /\ ~Some(t)
  <2> HIDE DEF Some
  <2> QED
    OBVIOUS
<1>2. CASE t = {}
  <2> DEFINE I == [u \in SUBSET t |-> 0]
  <2>1. I \in [SUBSET t -> Nat] /\ I[{}] = 0 /\ \A u \in SUBSET t : u = {}
    BY <1>2
  <2>2. SumsTo(I, t, v)
    BY <2>1 DEF SumsTo
  <2> QED
    BY <1>4, <2>1, <2>2
<1>3. CASE t # {}
  <2>1. PICK a \in t : TRUE
    BY <1>3
  <2> DEFINE r == t \ {a}
  <2>2. r \in SUBSET S /\ r \subseteq t /\ r # t
    BY <1>4, <2>1
  <2>3. Some(r)
    <3> HIDE DEF Some, r
    <3> QED
      BY <1>1, <2>2
  <2>4. PICK I \in [SUBSET r -> Nat] : SumsTo(I, r, v)
    BY <2>3
  <2> DEFINE J == [u \in SUBSET t |-> IF a \in u THEN v[a] + I[u \ {a}] ELSE I[u]]
  <2>5. \A u \in SUBSET t : u \ {a} \in SUBSET r /\ (a \notin u => u \in SUBSET r)
    OBVIOUS
  <2>6. v[a] \in Nat /\ \A x \in t : v[x] \in Nat
    BY <1>4, <2>1
  <2>7. J \in [SUBSET t -> Nat]
    <3>1. ASSUME NEW u \in SUBSET t
          PROVE  (IF a \in u THEN v[a] + I[u \ {a}] ELSE I[u]) \in Nat
      <4>1. I[u \ {a}] \in Nat /\ (a \notin u => I[u] \in Nat)
        BY <2>5
      <4> QED
        BY <2>6, <4>1
    <3> QED
      BY <3>1
  <2>8. J[{}] = 0
    <3>1. {} \in SUBSET t /\ a \notin {}
      OBVIOUS
    <3> QED
      BY <2>4, <3>1 DEF SumsTo
  <2>9. ASSUME NEW u \in SUBSET t, NEW x \in u
        PROVE  J[u] = v[x] + J[u \ {x}]
    <3>0. u \ {x} \in SUBSET t
      OBVIOUS
    <3>1. CASE x = a
      <4>1. J[u] = v[a] + I[u \ {a}] /\ J[u \ {a}] = I[u \ {a}]
        BY <3>0, <3>1
      <4> QED
        BY <3>1, <4>1
    <3>2. CASE x # a /\ a \in u
      <4>1. J[u] = v[a] + I[u \ {a}] /\ J[u \ {x}] = v[a] + I[(u \ {x}) \ {a}]
        BY <3>0, <3>2
      <4>2. u \ {a} \in SUBSET r /\ x \in u \ {a}
        BY <2>5, <3>2
      <4>3. I[u \ {a}] = v[x] + I[(u \ {a}) \ {x}]
        BY <2>4, <4>2 DEF SumsTo
      <4>4. (u \ {a}) \ {x} = (u \ {x}) \ {a} /\ (u \ {a}) \ {x} \in SUBSET r
        BY <4>2
      <4>5. I[(u \ {a}) \ {x}] \in Nat /\ v[x] \in Nat
        BY <2>6, <4>4
      <4>6. I[(u \ {x}) \ {a}] = I[(u \ {a}) \ {x}]
        BY <4>4
      <4>7. ASSUME NEW i \in Nat, NEW p \in Nat, NEW q \in Nat
            PROVE  p + (q + i) = q + (p + i)
        OBVIOUS
      <4> HIDE DEF J, r
      <4>8. J[u] = v[a] + (v[x] + I[(u \ {a}) \ {x}])
        BY <4>1, <4>3
      <4>9. J[u \ {x}] = v[a] + I[(u \ {a}) \ {x}]
        BY <4>1, <4>6
      <4>10. v[a] + (v[x] + I[(u \ {a}) \ {x}]) = v[x] + (v[a] + I[(u \ {a}) \ {x}])
        BY <2>6, <4>5, <4>7
      <4> QED
        BY <4>8, <4>9, <4>10, Zenon
    <3>3. CASE a \notin u
      <4>1. J[u] = I[u] /\ J[u \ {x}] = I[u \ {x}] /\ u \in SUBSET r
        BY <2>5, <3>0, <3>3
      <4> QED
        BY <2>4, <4>1 DEF SumsTo
    <3> QED
      BY <3>1, <3>2, <3>3
  <2>10. SumsTo(J, t, v)
    BY <2>8, <2>9 DEF SumsTo
  <2> QED
    BY <1>4, <2>7, <2>10
<1> QED
  BY <1>2, <1>3

(* Whatever takes the elements one by one comes to the same sum. *)
AddsUp(J, S, v) ==
  J[{}] = 0 /\ \A t \in SUBSET S : t # {} => \E x \in t : J[t] = v[x] + J[t \ {x}]

LEMMA SumUnique ==
  ASSUME NEW S, NEW v, NEW I, NEW J,
         IsFiniteSet(S), SumsTo(I, S, v), AddsUp(J, S, v)
  PROVE  J[S] = I[S]
<1> DEFINE bad == {t \in SUBSET S : J[t] # I[t]}
<1>1. bad = {}
  <2> SUFFICES ASSUME bad # {} PROVE FALSE
    OBVIOUS
  <2>0. bad \in SUBSET FiniteSubsetsOf(S)
    <3>1. SUBSET S = FiniteSubsetsOf(S)
      BY FS_FiniteSubsetsOfFinite
    <3> QED
      BY <3>1
  <2>1. PICK t \in bad : \A u \in bad : u \subseteq t => u = t
    <3> HIDE DEF bad
    <3> QED
      BY <2>0, SmallestSet
  <2>2. t # {}
    BY DEF SumsTo, AddsUp
  <2>3. PICK x \in t : J[t] = v[x] + J[t \ {x}]
    BY <2>2 DEF AddsUp
  <2>4. t \ {x} \in SUBSET S /\ t \ {x} # t
    OBVIOUS
  <2>5. J[t \ {x}] = I[t \ {x}]
    BY <2>1, <2>4
  <2>6. I[t] = v[x] + I[t \ {x}]
    BY DEF SumsTo
  <2> QED
    BY <2>3, <2>5, <2>6
<1> QED
  BY <1>1

(* Sums of values that correspond are the same. *)
LEMMA SumRenamed ==
  ASSUME NEW S, IsFiniteSet(S), NEW v, NEW I, SumsTo(I, S, v),
         NEW T, NEW w, NEW J, SumsTo(J, T, w),
         NEW h \in [S -> T], \A x, y \in S : h[x] = h[y] => x = y,
         \A x \in S : v[x] = w[h[x]]
  PROVE  I[S] = J[{h[x] : x \in S}]
<1> DEFINE K == [t \in SUBSET S |-> J[{h[x] : x \in t}]]
<1>1. K[{}] = 0
  <2>1. K[{}] = J[{}]
    OBVIOUS
  <2> QED
    BY <2>1 DEF SumsTo
<1>2. ASSUME NEW t \in SUBSET S, NEW x \in t
      PROVE  K[t] = v[x] + K[t \ {x}]
  <2>1. {h[y] : y \in t} \in SUBSET T /\ h[x] \in {h[y] : y \in t}
    OBVIOUS
  <2>2. {h[y] : y \in t} \ {h[x]} = {h[y] : y \in t \ {x}}
    OBVIOUS
  <2>3. J[{h[y] : y \in t}] = w[h[x]] + J[{h[y] : y \in t} \ {h[x]}]
    BY <2>1 DEF SumsTo
  <2>4. K[t] = J[{h[y] : y \in t}] /\ K[t \ {x}] = J[{h[y] : y \in t \ {x}}]
    OBVIOUS
  <2> QED
    BY <2>2, <2>3, <2>4
<1>3. \A t \in SUBSET S : t # {} => \E x \in t : K[t] = v[x] + K[t \ {x}]
  BY <1>2
<1>4. K[S] = J[{h[x] : x \in S}]
  OBVIOUS
<1> HIDE DEF K
<1>5. AddsUp(K, S, v)
  BY <1>1, <1>3 DEF AddsUp
<1>6. K[S] = I[S]
  BY <1>5, SumUnique
<1> QED
  BY <1>4, <1>6
=============================================================================
