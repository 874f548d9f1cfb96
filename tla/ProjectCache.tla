---------------------------- MODULE ProjectCache ----------------------------
(***************************************************************************)
(* ServiceContainer.get_project for one project kept in the Data Lake      *)
(* (apps/api/app/services.py): the resources cached in memory, the files   *)
(* cached on disk, the asyncio.Lock between callers, and the worker thread *)
(* that checks, removes, downloads and publishes the files.                *)
(*                                                                         *)
(* A caller that times out or is cancelled releases the lock, but its      *)
(* worker goes on: from then on two workers may share the cache directory. *)
(* Resources hold paths, not contents: what they serve is what is on disk  *)
(* when they are used.                                                     *)
(***************************************************************************)
EXTENDS Naturals, Sequences, SequencesExt

CONSTANTS Caller,          \* coroutines awaiting get_project
          Worker,          \* threads of the executor
          Nobody,          \* no caller
          Environment      \* how the process finds the disk, and what may fail

(* `disk` is cache_dir: absent, its files as published, other files, or what a
   removal has left of them. *)
Disk == {"none", "verified", "unverified", "partial"}

(* The disk a process finds, whether callers may abandon a load, and whether
   a removal may fail. *)
World == [found : Disk, abandons : BOOLEAN, failing : BOOLEAN]

ASSUME CacheConstants == Nobody \notin Caller /\ Environment \subseteq World

VARIABLES disk,
          world,           \* the member of Environment this process runs in
          memory,          \* the resources are in _project_resources
          lock,            \* the callers at the asyncio.Lock, its holder first
          caller,          \* what each coroutine is doing
          worker           \* what each thread is doing, and for whom

vars == <<disk, world, memory, lock, caller, worker>>

Thread == [pc : {"free", "check", "remove", "removing", "exists", "download",
                 "publish", "defer", "open", "loaded", "download_failed",
                 "cache_failed"},
           for : Caller \cup {Nobody}]
Free == [pc |-> "free", for |-> Nobody]

Init ==
  /\ world \in Environment
  /\ disk = world.found
  /\ memory = FALSE
  /\ lock = << >>
  /\ caller = [c \in Caller |-> "idle"]
  /\ worker = [w \in Worker |-> Free]

Holds(c) == lock # << >> /\ Head(lock) = c
At(w, pc) == worker[w].pc = pc
WorkerGoes(w, pc) == worker' = [worker EXCEPT ![w].pc = pc]
ThreadStep(w, from, to) ==
  At(w, from) /\ WorkerGoes(w, to) /\ UNCHANGED <<world, memory, lock, caller>>

---------------------------------------------------------------------------
(* get_project: the resources in memory, or a place at the lock. *)
Asks(c) ==
  /\ caller[c] = "idle"
  /\ ~memory
  /\ caller' = [caller EXCEPT ![c] = "waiting"]
  /\ lock' = Append(lock, c)
  /\ UNCHANGED <<disk, world, memory, worker>>

(* With the lock: what another caller loaded meanwhile, or a load of its own
   on a worker thread. *)
Locks(c) ==
  /\ caller[c] = "waiting" /\ Holds(c)
  /\ \/ /\ memory
        /\ caller' = [caller EXCEPT ![c] = "idle"]
        /\ lock' = Tail(lock)
        /\ UNCHANGED worker
     \/ /\ ~memory
        /\ \E w \in Worker :
             /\ worker[w] = Free
             /\ worker' = [worker EXCEPT ![w] = [pc |-> "check", for |-> c]]
             /\ caller' = [caller EXCEPT ![c] = "loading"]
        /\ UNCHANGED lock
  /\ UNCHANGED <<disk, world, memory>>

KeepsLock(c) ==                   \* mutant: the lock is not released on failure
  \E w \in Worker :
    /\ worker[w].for = c
    /\ worker[w].pc \in {"loaded", "download_failed", "cache_failed"}
    /\ memory' = (memory \/ At(w, "loaded"))
    /\ caller' = [caller EXCEPT ![c] = "idle"]
    /\ lock' = IF At(w, "loaded") THEN Tail(lock) ELSE lock
    /\ worker' = [worker EXCEPT ![w] = Free]
    /\ UNCHANGED <<disk, world>>

(* The awaited worker is done: only now do its resources reach memory. *)
Resumes(c) ==
  \E w \in Worker :
    /\ worker[w].for = c
    /\ worker[w].pc \in {"loaded", "download_failed", "cache_failed"}
    /\ memory' = (memory \/ At(w, "loaded"))
    /\ caller' = [caller EXCEPT ![c] = "idle"]
    /\ lock' = Tail(lock)
    /\ worker' = [worker EXCEPT ![w] = Free]
    /\ UNCHANGED <<disk, world>>

KeepsPlace(c) ==                  \* mutant: the cancelled caller keeps its place
  /\ world.abandons
  /\ caller[c] # "idle"
  /\ caller' = [caller EXCEPT ![c] = "idle"]
  /\ worker' = [w \in Worker |->
       IF worker[w].for = c THEN [worker[w] EXCEPT !.for = Nobody] ELSE worker[w]]
  /\ UNCHANGED <<disk, world, memory, lock>>

(* A timeout or a cancel: the lock is released, the worker is not stopped. *)
Abandons(c) ==
  /\ world.abandons
  /\ caller[c] # "idle"
  /\ caller' = [caller EXCEPT ![c] = "idle"]
  /\ \E k \in DOMAIN lock : lock[k] = c /\ lock' = RemoveAt(lock, k)
  /\ worker' = [w \in Worker |->
       IF worker[w].for = c THEN [worker[w] EXCEPT !.for = Nobody] ELSE worker[w]]
  /\ UNCHANGED <<disk, world, memory>>

---------------------------------------------------------------------------
(* _load_project_sync.  The cache is checked once, before anything else; a file
   that a concurrent removal takes away under the hash fails the load. *)
TrustsExisting(w) ==              \* mutant: an existing directory is trusted
  /\ ThreadStep(w, "check", "exists")
  /\ UNCHANGED disk
Checks(w) ==
  /\ \/ disk \in {"none", "verified"}      /\ ThreadStep(w, "check", "exists")
     \/ disk \in {"unverified", "partial"} /\ ThreadStep(w, "check", "remove")
     \/ /\ disk = "partial"
        /\ \E v \in Worker : At(v, "removing")
        /\ ThreadStep(w, "check", "cache_failed")
  /\ UNCHANGED disk

(* shutil.rmtree(..., ignore_errors=True) takes files away one by one, then the
   directory; what it cannot remove stays, without an error. *)
RemoveBegins(w) ==
  /\ ThreadStep(w, "remove", "removing")
  /\ disk' = IF disk = "none" THEN disk ELSE "partial"
RemoveEnds(w) ==
  /\ ThreadStep(w, "removing", "exists")
  /\ disk' = IF disk = "partial" THEN "none" ELSE disk
RemoveFails(w) ==
  /\ world.failing
  /\ ThreadStep(w, "remove", "exists")
  /\ UNCHANGED disk

Exists(w) ==
  /\ \/ disk = "none" /\ ThreadStep(w, "exists", "download")
     \/ disk # "none" /\ ThreadStep(w, "exists", "open")
  /\ UNCHANGED disk

(* _download_and_publish: every file verified in a directory of its own ... *)
Downloads(w) ==
  /\ ThreadStep(w, "download", "publish") \/ ThreadStep(w, "download", "download_failed")
  /\ UNCHANGED disk

(* ... and renamed, which replaces no directory but an empty one ... *)
Publishes(w) ==
  \/ /\ ThreadStep(w, "publish", "open")
     /\ disk \in {"none", "partial"}
     /\ disk' = "verified"
  \/ /\ ThreadStep(w, "publish", "defer")
     /\ disk # "none"
     /\ UNCHANGED disk

(* ... or dropped if the directory exists by now (OSError). *)
Defers(w) ==
  /\ \/ disk # "none" /\ ThreadStep(w, "defer", "open")
     \/ disk = "none" /\ ThreadStep(w, "defer", "cache_failed")
  /\ UNCHANGED disk

(* The resources are built without reading a file. *)
Opens(w) == ThreadStep(w, "open", "loaded") /\ UNCHANGED disk

(* Nobody awaits the result: it is dropped. *)
Drops(w) ==
  /\ worker[w].for = Nobody
  /\ worker[w].pc \in {"loaded", "download_failed", "cache_failed"}
  /\ worker' = [worker EXCEPT ![w] = Free]
  /\ UNCHANGED <<disk, world, memory, lock, caller>>

WorkerStep(w) ==
  \/ Checks(w) \/ RemoveBegins(w) \/ RemoveEnds(w) \/ RemoveFails(w) \/ Exists(w)
  \/ Downloads(w) \/ Publishes(w) \/ Defers(w) \/ Opens(w) \/ Drops(w)

Next ==
  \/ \E c \in Caller : Asks(c) \/ Locks(c) \/ Resumes(c) \/ Abandons(c)
  \/ \E w \in Worker : WorkerStep(w)

(* Threads run, the lock is first come, first served, and a download ends. *)
Fairness ==
  /\ \A c \in Caller : WF_vars(Locks(c) \/ Resumes(c))
  /\ \A w \in Worker : WF_vars(WorkerStep(w))

Spec == Init /\ [][Next]_vars /\ Fairness

---------------------------------------------------------------------------
(* Type invariant; a caller has one place at the lock. *)
TypeOK ==
  /\ disk \in Disk /\ world \in World /\ memory \in BOOLEAN
  /\ lock \in Seq(Caller) /\ IsInjective(lock)
  /\ caller \in [Caller -> {"idle", "waiting", "loading"}]
  /\ worker \in [Worker -> Thread]

(* What the server itself leaves on the disk; or anything, while no load is
   abandoned and every removal succeeds. *)
Sound == world.found \in {"none", "verified"} \/ ~(world.abandons \/ world.failing)

(* Resources are in memory, and so served, only while the files they point to
   are the ones that were verified (the re-check in _load_project_sync and the
   rename in _download_and_publish), however many orphaned workers share them. *)
ServedIsVerified == Sound /\ memory => disk = "verified"

(* No load begins or goes on for a project that is in memory: the second look
   after the lock, however many first requests queued up for it. *)
LoadingMeansMissing ==
  \A c \in Caller : caller[c] = "loading" => ~memory /\ Holds(c)

(* Threads that share the cache directory never fail one another: a load fails
   only because a download does (the OSError branch of the rename). *)
RaceIsNoFailure == Sound => \A w \in Worker : ~At(w, "cache_failed")

(* Requests and orphaned workers share one cache directory and one lock safely. *)
SharedSafely == ServedIsVerified /\ LoadingMeansMissing /\ RaceIsNoFailure

(* Every caller of get_project gets an answer: neither a failed nor an
   abandoned load leaves the lock held. *)
CallerReturns == \A c \in Caller : caller[c] # "idle" ~> caller[c] = "idle"
=============================================================================
