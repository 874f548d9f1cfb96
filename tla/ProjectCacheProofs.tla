------------------------- MODULE ProjectCacheProofs -------------------------
(***************************************************************************)
(* Machine-checked proofs about ProjectCache: for any number of callers    *)
(* and worker threads, whatever the disk holds at the start.               *)
(***************************************************************************)
EXTENDS ProjectCache, SequenceTheorems, TLAPS

---------------------------------------------------------------------------
(* The queue at the lock: a caller that is not idle has one place in it, and
   only its holder loads, for a project that is not in memory. *)
Queued(c, q) == \E i \in DOMAIN q : q[i] = c
QueueInv ==
  /\ \A c \in Caller : caller[c] # "idle" <=> Queued(c, lock)
  /\ LoadingMeansMissing

(* A thread that is awaited is at work, alone, for a caller that is loading. *)
ThreadsInv ==
  /\ \A w \in Worker :
       worker[w].for # Nobody =>
         caller[worker[w].for] = "loading" /\ worker[w].pc # "free"
  /\ \A v, w \in Worker :
       worker[v].for # Nobody /\ worker[v].for = worker[w].for => v = w

Base == TypeOK /\ QueueInv /\ ThreadsInv

(* What the disk holds when a thread is at pc: if only verified files were ever
   there, whoever else is at work; ... *)
CleanDisk(pc, d) ==
  /\ pc \notin {"remove", "removing", "cache_failed"}
  /\ pc \in {"defer", "open", "loaded"} => d = "verified"

(* ... or if no load is abandoned, so that the thread is alone. *)
AloneDisk(pc, d) ==
  /\ pc \notin {"defer", "cache_failed"}
  /\ pc = "remove" => d \in {"unverified", "partial"}
  /\ pc = "removing" => d = "partial"
  /\ pc = "exists" => d \in {"none", "verified"}
  /\ pc \in {"download", "publish"} => d = "none"
  /\ pc \in {"open", "loaded"} => d = "verified"

Clean == world.found \in {"none", "verified"}
Alone == ~world.abandons /\ ~world.failing

DiskInv ==
  /\ Clean => /\ disk \in {"none", "verified"}
              /\ \A w \in Worker : CleanDisk(worker[w].pc, disk)
  /\ Alone => /\ \A w \in Worker : worker[w].pc # "free" => worker[w].for # Nobody
              /\ \A w \in Worker : AloneDisk(worker[w].pc, disk)
  /\ ServedIsVerified

Inv == Base /\ DiskInv

---------------------------------------------------------------------------
(* Leaving a queue without duplicates, from any place in it. *)
LEMMA Leaving ==
  ASSUME NEW S, NEW q \in Seq(S), IsInjective(q), NEW k \in DOMAIN q
  PROVE  /\ RemoveAt(q, k) \in Seq(S) /\ IsInjective(RemoveAt(q, k))
         /\ \A c \in S : Queued(c, RemoveAt(q, k)) <=> Queued(c, q) /\ c # q[k]
         /\ k # 1 => RemoveAt(q, k) # << >> /\ Head(RemoveAt(q, k)) = Head(q)
<1> DEFINE r == RemoveAt(q, k)
           Was(i) == IF i < k THEN i ELSE i + 1
<1>1. /\ Len(q) \in Nat /\ DOMAIN q = 1..Len(q) /\ k \in 1..Len(q)
      /\ \A i \in 1..Len(q) : q[i] \in S
  OBVIOUS
<1>2. /\ r \in Seq(S) /\ Len(r) = Len(q) - 1
      /\ \A i \in 1..Len(q) - 1 : r[i] = q[Was(i)]
  <2> DEFINE a == SubSeq(q, 1, k - 1)
             b == SubSeq(q, k + 1, Len(q))
  <2>1. a \in Seq(S) /\ Len(a) = k - 1 /\ \A i \in 1..k - 1 : a[i] = q[i]
    BY <1>1, SubSeqProperties
  <2>2. /\ b \in Seq(S) /\ Len(b) = Len(q) - k
        /\ \A i \in 1..Len(q) - k : b[i] = q[k + i]
    BY <1>1, SubSeqProperties
  <2>3. r = a \o b
    BY DEF RemoveAt
  <2> HIDE DEF a, b, r
  <2>4. /\ r \in Seq(S) /\ Len(r) = Len(q) - 1
        /\ \A i \in 1..Len(q) - 1 : r[i] = IF i <= k - 1 THEN a[i] ELSE b[i - (k - 1)]
    <3>1. Len(a) + Len(b) = Len(q) - 1 /\ Len(a) = k - 1
      BY <1>1, <2>1, <2>2
    <3>2. /\ a \o b \in Seq(S) /\ Len(a \o b) = Len(a) + Len(b)
          /\ \A i \in 1..Len(a) + Len(b) :
               (a \o b)[i] = IF i <= Len(a) THEN a[i] ELSE b[i - Len(a)]
      BY <2>1, <2>2, ConcatProperties
    <3> QED
      BY <2>3, <3>1, <3>2
  <2>5. ASSUME NEW i \in 1..Len(q) - 1
        PROVE  r[i] = q[Was(i)]
    <3>1. CASE i < k
      BY <1>1, <2>1, <2>4, <3>1
    <3>2. CASE i >= k
      <4>1. i - (k - 1) \in 1..Len(q) - k /\ k + (i - (k - 1)) = i + 1
        BY <1>1, <3>2
      <4>2. b[i - (k - 1)] = q[i + 1]
        BY <2>2, <4>1
      <4> QED
        BY <1>1, <2>4, <3>2, <4>2
    <3> QED
      BY <1>1, <3>1, <3>2
  <2> QED
    BY <2>4, <2>5
<1>3. DOMAIN r = 1..Len(q) - 1
  BY <1>1, <1>2
<1> HIDE DEF r
<1>4. IsInjective(r)
  BY <1>1, <1>2, <1>3 DEF IsInjective
<1>5. ASSUME NEW c \in S
      PROVE  Queued(c, r) <=> Queued(c, q) /\ c # q[k]
  <2>1. ASSUME NEW i \in DOMAIN r, r[i] = c
        PROVE  Queued(c, q) /\ c # q[k]
    BY <1>1, <1>2, <1>3, <2>1 DEF Queued, IsInjective
  <2>2. ASSUME NEW i \in DOMAIN q, q[i] = c, c # q[k]
        PROVE  Queued(c, r)
    <3> DEFINE j == IF i < k THEN i ELSE i - 1
    <3>1. j \in 1..Len(q) - 1 /\ Was(j) = i
      BY <1>1, <2>2
    <3> QED
      BY <1>2, <1>3, <2>2, <3>1 DEF Queued
  <2> QED
    BY <2>1, <2>2 DEF Queued
<1>6. k # 1 => r # << >> /\ Head(r) = Head(q)
  BY <1>1, <1>2, <1>3
<1> QED
  BY <1>2, <1>4, <1>5, <1>6 DEF r

(* The holder of the lock leaves by Tail, which is the same. *)
LEMMA HolderLeaves ==
  ASSUME NEW S, NEW q \in Seq(S), IsInjective(q), q # << >>
  PROVE  /\ Tail(q) \in Seq(S) /\ IsInjective(Tail(q))
         /\ \A c \in S : Queued(c, Tail(q)) <=> Queued(c, q) /\ c # Head(q)
<1>1. Len(q) \in Nat \ {0} /\ DOMAIN q = 1..Len(q) /\ 1 \in DOMAIN q /\ Head(q) = q[1]
  BY EmptySeq
<1>2. /\ Tail(q) \in Seq(S) /\ Len(Tail(q)) = Len(q) - 1
      /\ \A i \in 1..Len(q) - 1 : Tail(q)[i] = q[i + 1]
  BY <1>1
<1>3. DOMAIN Tail(q) = 1..Len(q) - 1
  BY <1>2
<1>4. IsInjective(Tail(q))
  BY <1>1, <1>2, <1>3 DEF IsInjective
<1>5. ASSUME NEW c \in S
      PROVE  Queued(c, Tail(q)) <=> Queued(c, q) /\ c # Head(q)
  <2>1. ASSUME NEW i \in DOMAIN Tail(q), Tail(q)[i] = c
        PROVE  Queued(c, q) /\ c # Head(q)
    BY <1>1, <1>2, <1>3, <2>1 DEF Queued, IsInjective
  <2>2. ASSUME NEW i \in DOMAIN q, q[i] = c, c # Head(q)
        PROVE  Queued(c, Tail(q))
    <3>1. i - 1 \in 1..Len(q) - 1 /\ Tail(q)[i - 1] = c
      BY <1>1, <1>2, <2>2
    <3> QED
      BY <1>3, <3>1 DEF Queued
  <2> QED
    BY <2>1, <2>2 DEF Queued
<1> QED
  BY <1>2, <1>4, <1>5

LEMMA Joining ==
  ASSUME NEW S, NEW q \in Seq(S), IsInjective(q), NEW c \in S, ~Queued(c, q)
  PROVE  /\ Append(q, c) \in Seq(S) /\ IsInjective(Append(q, c))
         /\ \A d \in S : Queued(d, Append(q, c)) <=> Queued(d, q) \/ d = c
         /\ q # << >> => Append(q, c) # << >> /\ Head(Append(q, c)) = Head(q)
<1> DEFINE r == Append(q, c)
<1>1. Len(q) \in Nat /\ DOMAIN q = 1..Len(q)
  OBVIOUS
<1>2. /\ r \in Seq(S) /\ Len(r) = Len(q) + 1 /\ r[Len(q) + 1] = c
      /\ \A i \in 1..Len(q) : r[i] = q[i]
  BY <1>1
<1>3. DOMAIN r = 1..Len(q) + 1
  BY <1>1, <1>2
<1>4. q # << >> => Len(q) >= 1 /\ r # << >> /\ Head(r) = Head(q)
  BY <1>1, <1>2, EmptySeq
<1> HIDE DEF r
<1>5. IsInjective(r)
  BY <1>1, <1>2, <1>3 DEF IsInjective, Queued
<1>6. \A d \in S : Queued(d, r) <=> Queued(d, q) \/ d = c
  BY <1>1, <1>2, <1>3 DEF Queued
<1> QED
  BY <1>2, <1>4, <1>5, <1>6 DEF r

---------------------------------------------------------------------------
(* A step of a thread: it moves one thread, and nobody waits for another. *)
Moves(w, pc) ==
  /\ worker[w].pc # "free" /\ pc # "free"
  /\ WorkerGoes(w, pc)
  /\ UNCHANGED <<world, memory, lock, caller>>

Pc == {"free", "check", "remove", "removing", "exists", "download", "publish",
       "defer", "open", "loaded", "download_failed", "cache_failed"}

LEMMA MovesEffect ==
  ASSUME Base, NEW w \in Worker, NEW pc \in Pc \ {"free"}, WorkerGoes(w, pc)
  PROVE  /\ worker' \in [Worker -> Thread]
         /\ \A v \in Worker : /\ worker'[v].for = worker[v].for
                              /\ worker'[v].pc = IF v = w THEN pc ELSE worker[v].pc
BY DEF WorkerGoes, Base, TypeOK, Thread, Pc

LEMMA BaseMoves ==
  ASSUME Base, NEW w \in Worker, NEW pc \in Pc, Moves(w, pc), disk' \in Disk
  PROVE  Base'
<1>1. /\ worker' \in [Worker -> Thread]
      /\ \A v \in Worker : /\ worker'[v].for = worker[v].for
                           /\ worker'[v].pc = IF v = w THEN pc ELSE worker[v].pc
  BY MovesEffect DEF Moves
<1>2. TypeOK'
  BY <1>1 DEF Base, TypeOK, Moves
<1>3. QueueInv'
  BY DEF Base, QueueInv, LoadingMeansMissing, Holds, Moves
<1>4. ThreadsInv'
  BY <1>1 DEF Base, ThreadsInv, Moves
<1> QED
  BY <1>2, <1>3, <1>4 DEF Base

(* What each step of a thread is to the disk. *)
LEMMA ThreadShape ==
  ASSUME Base, NEW w \in Worker, WorkerStep(w)
  PROVE  \/ Drops(w)
         \/ \E pc \in Pc : Moves(w, pc) /\ disk' \in Disk
<1>1. \A from, to \in Pc \ {"free"} : ThreadStep(w, from, to) => Moves(w, to)
  BY DEF ThreadStep, Moves, At
<1>2. CASE Checks(w)
  BY <1>1, <1>2 DEF Checks, Pc, Base, TypeOK
<1>3. CASE RemoveBegins(w)
  BY <1>1, <1>3 DEF RemoveBegins, Pc, Base, TypeOK, Disk
<1>4. CASE RemoveEnds(w)
  BY <1>1, <1>4 DEF RemoveEnds, Pc, Base, TypeOK, Disk
<1>5. CASE RemoveFails(w) \/ Opens(w) \/ Downloads(w)
  BY <1>1, <1>5 DEF RemoveFails, Opens, Downloads, Pc, Base, TypeOK
<1>6. CASE Exists(w) \/ Defers(w)
  BY <1>1, <1>6 DEF Exists, Defers, Pc, Base, TypeOK
<1>7. CASE Publishes(w)
  BY <1>1, <1>7 DEF Publishes, Pc, Base, TypeOK, Disk
<1> QED
  BY <1>2, <1>3, <1>4, <1>5, <1>6, <1>7 DEF WorkerStep

LEMMA FreeTyped == Free \in Thread
BY DEF Free, Thread

LEMMA BaseThread ==
  ASSUME Base, NEW w \in Worker, WorkerStep(w)
  PROVE  Base'
<1>1. CASE Drops(w)
  <2>1. /\ worker[w].for = Nobody /\ worker' = [worker EXCEPT ![w] = Free]
        /\ UNCHANGED <<disk, world, memory, lock, caller>>
    BY <1>1 DEF Drops
  <2>2. TypeOK'
    BY <2>1, FreeTyped DEF Base, TypeOK
  <2>3. QueueInv'
    BY <2>1 DEF Base, QueueInv, LoadingMeansMissing, Holds
  <2>4. ThreadsInv'
    BY <2>1 DEF Base, ThreadsInv, TypeOK, Free
  <2> QED
    BY <2>2, <2>3, <2>4 DEF Base
<1> QED
  BY <1>1, ThreadShape, BaseMoves

LEMMA AsksStep ==
  ASSUME Base, NEW c \in Caller, Asks(c)
  PROVE  Base'
<1>1. /\ caller[c] = "idle" /\ caller' = [caller EXCEPT ![c] = "waiting"]
      /\ lock' = Append(lock, c)
      /\ UNCHANGED <<disk, world, memory, worker>>
  BY DEF Asks
<1>2. /\ lock' \in Seq(Caller) /\ IsInjective(lock')
      /\ \A d \in Caller : Queued(d, lock') <=> Queued(d, lock) \/ d = c
      /\ lock # << >> => lock' # << >> /\ Head(lock') = Head(lock)
  BY <1>1, Joining DEF Base, TypeOK, QueueInv
<1>3. TypeOK'
  BY <1>1, <1>2 DEF Base, TypeOK
<1>4. QueueInv'
  BY <1>1, <1>2 DEF Base, TypeOK, QueueInv, LoadingMeansMissing, Holds
<1>5. ThreadsInv'
  BY <1>1 DEF Base, TypeOK, ThreadsInv, Thread
<1> QED
  BY <1>3, <1>4, <1>5 DEF Base

(* The holder goes, when what it waited for is there or has failed. *)
LEMMA HolderGoes ==
  ASSUME Base, NEW c \in Caller, Holds(c), caller' = [caller EXCEPT ![c] = "idle"],
         lock' = Tail(lock)
  PROVE  /\ lock' \in Seq(Caller) /\ IsInjective(lock')
         /\ caller' \in [Caller -> {"idle", "waiting", "loading"}]
         /\ \A d \in Caller : caller'[d] # "idle" <=> Queued(d, lock')
         /\ \A d \in Caller : caller'[d] # "loading"
<1>1. /\ lock' \in Seq(Caller) /\ IsInjective(lock')
      /\ \A d \in Caller : Queued(d, lock') <=> Queued(d, lock) /\ d # c
  BY HolderLeaves DEF Base, TypeOK, Holds
<1>2. \A d \in Caller : d # c => caller[d] # "loading"
  BY DEF Base, QueueInv, LoadingMeansMissing, Holds
<1> QED
  BY <1>1, <1>2 DEF Base, TypeOK, QueueInv

LEMMA LocksStep ==
  ASSUME Base, NEW c \in Caller, Locks(c)
  PROVE  Base'
<1>1. caller[c] = "waiting" /\ Holds(c) /\ UNCHANGED <<disk, world, memory>>
  BY DEF Locks
<1>2. CASE memory
  <2>1. /\ caller' = [caller EXCEPT ![c] = "idle"] /\ lock' = Tail(lock)
        /\ UNCHANGED worker
    BY <1>2 DEF Locks
  <2>2. /\ lock' \in Seq(Caller) /\ IsInjective(lock')
        /\ caller' \in [Caller -> {"idle", "waiting", "loading"}]
        /\ \A d \in Caller : caller'[d] # "idle" <=> Queued(d, lock')
        /\ \A d \in Caller : caller'[d] # "loading"
    BY <1>1, <2>1, HolderGoes
  <2>3. \A w \in Worker : worker[w].for = Nobody
    BY <1>2 DEF Base, TypeOK, Thread, QueueInv, LoadingMeansMissing, ThreadsInv
  <2> QED
    BY <1>1, <2>1, <2>2, <2>3
    DEF Base, TypeOK, QueueInv, LoadingMeansMissing, ThreadsInv
<1>3. CASE ~memory
  <2>1. PICK w \in Worker :
          /\ worker[w] = Free
          /\ worker' = [worker EXCEPT ![w] = [pc |-> "check", for |-> c]]
          /\ caller' = [caller EXCEPT ![c] = "loading"]
          /\ UNCHANGED lock
    BY <1>3 DEF Locks
  <2>2. [pc |-> "check", for |-> c] \in Thread
    BY DEF Thread
  <2>3. TypeOK'
    BY <1>1, <2>1, <2>2 DEF Base, TypeOK
  <2>4. QueueInv'
    BY <1>1, <1>3, <2>1 DEF Base, TypeOK, QueueInv, LoadingMeansMissing, Holds
  <2>5. \A v \in Worker : worker[v].for # c
    BY <1>1, CacheConstants DEF Base, ThreadsInv
  <2>6. ThreadsInv'
    BY <1>1, <2>1, <2>5 DEF Base, TypeOK, ThreadsInv, Thread
  <2> QED
    BY <2>3, <2>4, <2>6 DEF Base
<1> QED
  BY <1>2, <1>3

LEMMA ResumesStep ==
  ASSUME Base, NEW c \in Caller, Resumes(c)
  PROVE  Base'
<1>1. PICK w \in Worker :
        /\ worker[w].for = c
        /\ memory' = (memory \/ At(w, "loaded"))
        /\ caller' = [caller EXCEPT ![c] = "idle"]
        /\ lock' = Tail(lock)
        /\ worker' = [worker EXCEPT ![w] = Free]
        /\ UNCHANGED <<disk, world>>
  BY DEF Resumes
<1>2. caller[c] = "loading" /\ Holds(c)
  BY <1>1, CacheConstants DEF Base, ThreadsInv, QueueInv, LoadingMeansMissing
<1>3. /\ lock' \in Seq(Caller) /\ IsInjective(lock')
      /\ caller' \in [Caller -> {"idle", "waiting", "loading"}]
      /\ \A d \in Caller : caller'[d] # "idle" <=> Queued(d, lock')
      /\ \A d \in Caller : caller'[d] # "loading"
  BY <1>1, <1>2, HolderGoes
<1>4. memory' \in BOOLEAN
  BY <1>1 DEF Base, TypeOK
<1>5. TypeOK'
  BY <1>1, <1>3, <1>4, FreeTyped DEF Base, TypeOK
<1>6. QueueInv'
  BY <1>3 DEF QueueInv, LoadingMeansMissing
<1>7. \A v \in Worker : worker'[v].for = Nobody
  <2>1. ASSUME NEW v \in Worker, v # w, worker[v].for # Nobody
        PROVE  FALSE
    <3>1. worker[v].for \in Caller /\ caller[worker[v].for] = "loading"
      BY <2>1 DEF Base, TypeOK, Thread, ThreadsInv
    <3>2. worker[v].for = c
      BY <1>2, <3>1 DEF Base, QueueInv, LoadingMeansMissing, Holds
    <3> QED
      BY <1>1, <2>1, <3>2 DEF Base, ThreadsInv
  <2> QED
    BY <1>1, <2>1 DEF Base, TypeOK, Free
<1>8. ThreadsInv'
  BY <1>7 DEF ThreadsInv
<1> QED
  BY <1>5, <1>6, <1>8 DEF Base

LEMMA AbandonsStep ==
  ASSUME Base, NEW c \in Caller, Abandons(c)
  PROVE  Base'
<1>1. /\ caller' = [caller EXCEPT ![c] = "idle"]
      /\ worker' = [w \in Worker |->
           IF worker[w].for = c THEN [worker[w] EXCEPT !.for = Nobody] ELSE worker[w]]
      /\ UNCHANGED <<disk, world, memory>>
  BY DEF Abandons
<1>2. PICK k \in DOMAIN lock : lock[k] = c /\ lock' = RemoveAt(lock, k)
  BY DEF Abandons
<1>3. /\ lock' \in Seq(Caller) /\ IsInjective(lock')
      /\ \A d \in Caller : Queued(d, lock') <=> Queued(d, lock) /\ d # c
      /\ k # 1 => lock' # << >> /\ Head(lock') = Head(lock)
  BY <1>2, Leaving DEF Base, TypeOK
<1>4. /\ worker' \in [Worker -> Thread]
      /\ \A w \in Worker :
           /\ worker'[w].pc = worker[w].pc
           /\ worker'[w].for = IF worker[w].for = c THEN Nobody ELSE worker[w].for
  BY <1>1 DEF Base, TypeOK, Thread
<1>5. TypeOK'
  BY <1>1, <1>3, <1>4 DEF Base, TypeOK
<1>6. QueueInv'
  <2>1. \A d \in Caller : caller'[d] # "idle" <=> Queued(d, lock')
    BY <1>1, <1>3 DEF Base, TypeOK, QueueInv
  <2>2. ASSUME NEW d \in Caller, caller'[d] = "loading"
        PROVE  ~memory' /\ Holds(d)'
    <3>1. d # c /\ caller[d] = "loading"
      BY <1>1, <2>2 DEF Base, TypeOK
    <3>2. ~memory /\ lock # << >> /\ Head(lock) = d
      BY <3>1 DEF Base, QueueInv, LoadingMeansMissing, Holds
    <3>3. Head(lock) = lock[1]
      OBVIOUS
    <3>4. k # 1
      BY <1>2, <3>1, <3>2, <3>3
    <3> QED
      BY <1>1, <1>3, <3>2, <3>4 DEF Holds
  <2> QED
    BY <2>1, <2>2 DEF QueueInv, LoadingMeansMissing
<1>7. ThreadsInv'
  BY <1>1, <1>4 DEF Base, TypeOK, Thread, ThreadsInv
<1> QED
  BY <1>5, <1>6, <1>7 DEF Base

LEMMA BaseStep == Base /\ [Next]_vars => Base'
<1> SUFFICES ASSUME Base, [Next]_vars PROVE Base'
  OBVIOUS
<1>1. CASE UNCHANGED vars
  BY <1>1 DEF vars, Base, TypeOK, QueueInv, LoadingMeansMissing, Holds, ThreadsInv
<1>2. ASSUME NEW c \in Caller, Asks(c) \/ Locks(c) \/ Resumes(c) \/ Abandons(c)
      PROVE  Base'
  BY <1>2, AsksStep, LocksStep, ResumesStep, AbandonsStep
<1>3. ASSUME NEW w \in Worker, WorkerStep(w)
      PROVE  Base'
  BY <1>3, BaseThread
<1> QED
  BY <1>1, <1>2, <1>3 DEF Next

---------------------------------------------------------------------------
(* As long as no load is abandoned, a thread at work is the only one, and the
   project is not in memory yet. *)
LEMMA AloneAtWork ==
  ASSUME Inv, Alone, NEW w \in Worker, worker[w].pc # "free"
  PROVE  ~memory /\ \A v \in Worker : v # w => worker[v].pc = "free"
<1>1. \A v \in Worker : worker[v].pc # "free" =>
        /\ worker[v].for # Nobody /\ worker[v].for \in Caller
        /\ caller[worker[v].for] = "loading"
  BY DEF Inv, DiskInv, Base, TypeOK, Thread, ThreadsInv
<1>2. \A c \in Caller : caller[c] = "loading" => ~memory /\ Head(lock) = c
  BY DEF Inv, Base, QueueInv, LoadingMeansMissing, Holds
<1>3. ~memory
  BY <1>1, <1>2
<1>4. ASSUME NEW v \in Worker, worker[v].pc # "free"
      PROVE  v = w
  <2>1. worker[v].for = worker[w].for
    BY <1>1, <1>2, <1>4
  <2> QED
    BY <1>1, <1>4, <2>1 DEF Inv, Base, ThreadsInv
<1> QED
  BY <1>3, <1>4

(* What a step of a thread does to the disk and where it leaves the thread. *)
Keeps(pc, d) ==
  /\ Clean => /\ d \in {"none", "verified"} /\ CleanDisk(pc, d)
              /\ disk = "verified" => d = "verified"
  /\ Alone => AloneDisk(pc, d)

LEMMA DiskShape ==
  ASSUME Inv, NEW w \in Worker, WorkerStep(w)
  PROVE  \/ Drops(w)
         \/ \E pc \in Pc : Moves(w, pc) /\ Keeps(pc, disk')
<1>1. ASSUME NEW from \in Pc \ {"free"}, NEW to \in Pc \ {"free"},
             ThreadStep(w, from, to)
      PROVE  Moves(w, to) /\ worker[w].pc = from
  BY <1>1 DEF ThreadStep, Moves, At
<1>2. /\ Clean => disk \in {"none", "verified"} /\ CleanDisk(worker[w].pc, disk)
      /\ Alone => AloneDisk(worker[w].pc, disk)
  BY DEF Inv, DiskInv
<1>3. CASE Checks(w)
  <2>1. UNCHANGED disk
    BY <1>3 DEF Checks
  <2>2. CASE disk \in {"none", "verified"} /\ ThreadStep(w, "check", "exists")
    BY <1>1, <1>2, <2>1, <2>2 DEF Pc, Keeps, CleanDisk, AloneDisk
  <2>3. CASE disk \in {"unverified", "partial"} /\ ThreadStep(w, "check", "remove")
    BY <1>1, <1>2, <2>1, <2>3 DEF Pc, Keeps, CleanDisk, AloneDisk
  <2>4. CASE /\ disk = "partial"
             /\ \E v \in Worker : At(v, "removing")
             /\ ThreadStep(w, "check", "cache_failed")
    <3>1. ~Clean /\ worker[w].pc = "check" /\ Moves(w, "cache_failed")
      BY <1>1, <1>2, <2>4 DEF Pc
    <3>2. ~Alone
      BY <2>4, <3>1, AloneAtWork DEF At
    <3> QED
      BY <3>1, <3>2 DEF Pc, Keeps
  <2> QED
    BY <1>3, <2>2, <2>3, <2>4 DEF Checks
<1>4. CASE RemoveBegins(w) \/ RemoveEnds(w) \/ RemoveFails(w)
  BY <1>1, <1>2, <1>4
  DEF RemoveBegins, RemoveEnds, RemoveFails, Pc, Keeps, CleanDisk, AloneDisk, Alone
<1>5. CASE Exists(w)
  BY <1>1, <1>2, <1>5 DEF Exists, Pc, Keeps, CleanDisk, AloneDisk
<1>6. CASE Downloads(w)
  BY <1>1, <1>2, <1>6 DEF Downloads, Pc, Keeps, CleanDisk, AloneDisk
<1>7. CASE Publishes(w)
  BY <1>1, <1>2, <1>7 DEF Publishes, Pc, Keeps, CleanDisk, AloneDisk
<1>8. CASE Defers(w)
  BY <1>1, <1>2, <1>8 DEF Defers, Pc, Keeps, CleanDisk, AloneDisk
<1>9. CASE Opens(w)
  BY <1>1, <1>2, <1>9 DEF Opens, Pc, Keeps, CleanDisk, AloneDisk
<1> QED
  BY <1>3, <1>4, <1>5, <1>6, <1>7, <1>8, <1>9 DEF WorkerStep

LEMMA DiskThread ==
  ASSUME Inv, NEW w \in Worker, WorkerStep(w)
  PROVE  DiskInv'
<1>1. CASE Drops(w)
  <2>1. /\ worker' = [worker EXCEPT ![w] = Free]
        /\ UNCHANGED <<disk, world, memory>>
    BY <1>1 DEF Drops
  <2>2. \A v \in Worker : worker'[v] = worker[v] \/ worker'[v].pc = "free"
    BY <2>1 DEF Inv, Base, TypeOK, Free
  <2> QED
    BY <2>1, <2>2
    DEF Inv, DiskInv, Clean, Alone, ServedIsVerified, Sound, CleanDisk, AloneDisk
<1>2. ASSUME NEW pc \in Pc, Moves(w, pc), Keeps(pc, disk')
      PROVE  DiskInv'
  <2>1. worker[w].pc # "free" /\ UNCHANGED <<world, memory>>
    BY <1>2 DEF Moves
  <2>2. \A v \in Worker : /\ worker'[v].for = worker[v].for
                          /\ worker'[v].pc = IF v = w THEN pc ELSE worker[v].pc
    BY <1>2, MovesEffect DEF Moves, Inv
  <2>3. ASSUME Clean
        PROVE  /\ disk' \in {"none", "verified"} /\ (memory => disk' = "verified")
               /\ \A v \in Worker : CleanDisk(worker'[v].pc, disk')
    <3>1. \A v \in Worker : CleanDisk(worker[v].pc, disk)
      BY <2>3 DEF Inv, DiskInv
    <3>2. memory => disk = "verified"
      BY <2>3 DEF Inv, DiskInv, ServedIsVerified, Sound, Clean
    <3> QED
      BY <1>2, <2>2, <2>3, <3>1, <3>2 DEF Keeps, CleanDisk
  <2>4. ASSUME Alone
        PROVE  /\ ~memory
               /\ \A v \in Worker : worker'[v].pc # "free" => worker'[v].for # Nobody
               /\ \A v \in Worker : AloneDisk(worker'[v].pc, disk')
    <3>1. ~memory /\ \A v \in Worker : v # w => worker[v].pc = "free"
      BY <2>1, <2>4, AloneAtWork
    <3>2. worker[w].for # Nobody
      BY <2>1, <2>4 DEF Inv, DiskInv
    <3> QED
      BY <1>2, <2>2, <2>4, <3>1, <3>2 DEF Keeps, AloneDisk
  <2> QED
    BY <2>1, <2>3, <2>4 DEF DiskInv, Clean, Alone, ServedIsVerified, Sound
<1> QED
  BY <1>1, <1>2, DiskShape

LEMMA DiskCaller ==
  ASSUME Inv, NEW c \in Caller, Asks(c) \/ Locks(c) \/ Resumes(c) \/ Abandons(c)
  PROVE  DiskInv'
<1> USE DEF DiskInv, Clean, Alone, ServedIsVerified, Sound
<1>1. CASE Asks(c)
  BY <1>1 DEF Asks, Inv
<1>2. CASE Locks(c)
  <2>1. UNCHANGED <<disk, world, memory>>
    BY <1>2 DEF Locks
  <2>2. \A v \in Worker : \/ worker'[v] = worker[v]
                          \/ worker'[v] = [pc |-> "check", for |-> c]
    BY <1>2 DEF Locks, Inv, Base, TypeOK
  <2> QED
    BY <2>1, <2>2, CacheConstants DEF Inv, CleanDisk, AloneDisk
<1>3. CASE Resumes(c)
  <2>1. PICK w \in Worker :
          /\ memory' = (memory \/ At(w, "loaded"))
          /\ worker' = [worker EXCEPT ![w] = Free]
          /\ UNCHANGED <<disk, world>>
    BY <1>3 DEF Resumes
  <2>2. \A v \in Worker : worker'[v] = worker[v] \/ worker'[v].pc = "free"
    BY <2>1 DEF Inv, Base, TypeOK, Free
  <2>3. Sound /\ At(w, "loaded") => disk = "verified"
    BY DEF Inv, CleanDisk, AloneDisk, At
  <2> QED
    BY <2>1, <2>2, <2>3 DEF Inv, CleanDisk, AloneDisk
<1>4. CASE Abandons(c)
  <2>1. world.abandons /\ UNCHANGED <<disk, world, memory>>
    BY <1>4 DEF Abandons
  <2>2. \A v \in Worker : worker'[v].pc = worker[v].pc
    BY <1>4 DEF Abandons, Inv, Base, TypeOK, Thread
  <2> QED
    BY <2>1, <2>2 DEF Inv
<1> QED
  BY <1>1, <1>2, <1>3, <1>4

LEMMA InvStep == Inv /\ [Next]_vars => Inv'
<1> SUFFICES ASSUME Inv, [Next]_vars PROVE Inv'
  OBVIOUS
<1>1. Base'
  BY BaseStep DEF Inv
<1>2. CASE UNCHANGED vars
  BY <1>1, <1>2
  DEF vars, Inv, DiskInv, Clean, Alone, ServedIsVerified, Sound
<1>3. ASSUME NEW c \in Caller, Asks(c) \/ Locks(c) \/ Resumes(c) \/ Abandons(c)
      PROVE  Inv'
  BY <1>1, <1>3, DiskCaller DEF Inv
<1>4. ASSUME NEW w \in Worker, WorkerStep(w)
      PROVE  Inv'
  BY <1>1, <1>4, DiskThread DEF Inv
<1> QED
  BY <1>2, <1>3, <1>4 DEF Next

LEMMA InitInv == Init => Inv
<1> SUFFICES ASSUME Init PROVE Inv
  OBVIOUS
<1>1. TypeOK
  <2>1. world \in World /\ disk \in Disk
    BY CacheConstants DEF Init, World
  <2>2. lock \in Seq(Caller) /\ IsInjective(lock)
    <3>1. lock = << >> /\ DOMAIN lock = {}
      BY EmptySeq DEF Init
    <3> QED
      BY <3>1, EmptySeq DEF IsInjective
  <2> QED
    BY <2>1, <2>2, FreeTyped DEF Init, TypeOK
<1>2. QueueInv
  BY EmptySeq DEF Init, QueueInv, Queued, LoadingMeansMissing
<1>3. ThreadsInv
  BY DEF Init, ThreadsInv, Free
<1>4. DiskInv
  BY CacheConstants
  DEF Init, DiskInv, Clean, Alone, ServedIsVerified, Sound, CleanDisk, AloneDisk,
      World, Disk, Free
<1> QED
  BY <1>1, <1>2, <1>3, <1>4 DEF Inv, Base

LEMMA InvAlways == Spec => []Inv
BY InitInv, InvStep, PTL DEF Spec

---------------------------------------------------------------------------
(* The types, and that a caller has one place at the lock, however many callers
   time out there. *)
THEOREM TypeCorrect == Spec => []TypeOK
<1>1. Inv => TypeOK
  BY DEF Inv, Base
<1> QED
  BY <1>1, InvAlways, PTL

(* Callers and orphaned threads share one directory and one lock safely: what is
   served is what was verified, no load goes on for a project in memory, and no
   thread fails another one. *)
THEOREM SharingIsSafe == Spec => []SharedSafely
<1>1. Inv => SharedSafely
  <2> SUFFICES ASSUME Inv PROVE SharedSafely
    OBVIOUS
  <2>1. ServedIsVerified /\ LoadingMeansMissing
    BY DEF Inv, DiskInv, Base, QueueInv
  <2>2. RaceIsNoFailure
    BY DEF Inv, DiskInv, RaceIsNoFailure, Sound, Clean, Alone, CleanDisk, AloneDisk, At
  <2> QED
    BY <2>1, <2>2 DEF SharedSafely
<1> QED
  BY <1>1, InvAlways, PTL
=============================================================================
