------------------------- MODULE ChatRequestProofs -------------------------
(***************************************************************************)
(* Machine-checked proofs about ChatRequests: for any number of            *)
(* coroutines, request ids, threads and projects.                          *)
(***************************************************************************)
EXTENDS ChatRequests, SequenceTheorems, TLAPS

(* Where a request is being worked on, where its context is not yet to be
   written, and where its outcome is recorded and only to be reported. *)
PreStore == {"bind", "project", "read", "agent"}
Working  == PreStore \cup {"store"}
Ending   == {"audit", "send"}

(* A coroutine serves a request exactly from its registration on, and then the
   record is its own. *)
AssignedTo(h) ==
  /\ handler[h].id = None <=> handler[h].pc \in {"idle", "resume"}
  /\ handler[h].id # None =>
       /\ requests[handler[h].id].task = h
       /\ requests[handler[h].id].engine = handler[h].engine
Assigned == \A h \in Handler : AssignedTo(h)

(* The record of a request says where its coroutine is; a cancelled V1 request
   is never reported as running; nothing is queued but in "store", and nothing
   was written before it. *)
ProgressOf(h) ==
  /\ handler[h].pc \in Working =>
       requests[handler[h].id].status \in {"running", "cancel_requested"}
  /\ handler[h].pc \in Ending =>
       requests[handler[h].id].status \in Outcome \cup {"cancel_requested"}
  /\ handler[h].id # None /\ handler[h].cancelled /\ handler[h].engine = "v1" =>
       requests[handler[h].id].status # "running"
  /\ handler[h].job = "queued" => handler[h].pc = "store"
  /\ handler[h].pc \in PreStore =>
       /\ handler[h].id \notin wrote
       /\ \A w \in late : w.id # handler[h].id
Progress == \A h \in Handler : ProgressOf(h)

(* An id that is not in the table has left nothing behind; one that is there
   has been a coroutine's. *)
Recorded ==
  \A id \in RequestId :
    IF requests[id].status = "absent"
      THEN id \notin wrote /\ \A w \in late : w.id # id
      ELSE requests[id].task \in Handler

Base == TypeOK /\ Assigned /\ Progress /\ Recorded

---------------------------------------------------------------------------
(* The contexts a turn writes are contexts. *)
LEMMA ContextTyped ==
  /\ NoContext \in Context /\ AfterV1Question \in Context
  /\ \A c \in Context, p \in Project :
       AfterV1(c, p) \in Context /\ AfterV2(c, p) \in Context
<1>1. NoContext \in Context /\ AfterV1Question \in Context
  BY DEF NoContext, AfterV1Question, Context
<1>2. ASSUME NEW c \in Context, NEW p \in Project
      PROVE  AfterV1(c, p) \in Context /\ AfterV2(c, p) \in Context
  <2> DEFINE turns == Append(c.recent, p)
  <2>1. c.recent \in Seq(Project) /\ c.plan \in Project \cup {None} /\ c.exists \in BOOLEAN
    BY DEF Context
  <2>2. turns \in Seq(Project) /\ turns # << >>
    BY <2>1
  <2>3. Tail(turns) \in Seq(Project)
    BY <2>2
  <2>4. AfterV1(c, p) \in Context
    BY <2>1 DEF AfterV1, Context
  <2>5. AfterV2(c, p) \in Context
    BY <2>1, <2>2, <2>3 DEF AfterV2, Context
  <2> QED
    BY <2>4, <2>5
<1> QED
  BY <1>1, <1>2

LEMMA IdleTyped ==
  /\ Idle \in Coroutine /\ Idle.pc = "idle" /\ Idle.id = None
  /\ Idle.job = "none" /\ Idle.cancelled = FALSE
  BY ContextTyped, ConversationConstants, RequestConstants DEF Idle, Coroutine

(* No record is a coroutine's when it starts. *)
LEMMA InitBase == Init => Base
<1> SUFFICES ASSUME Init PROVE Base
  OBVIOUS
<1> USE DEF Init, StoresInit, Unbound, Forgotten
<1>1. TypeOK
  BY IdleTyped, ContextTyped DEF TypeOK, Record, Absent, Outcome
<1>2. Assigned /\ Progress
  BY IdleTyped
  DEF Assigned, AssignedTo, Progress, ProgressOf, Working, PreStore, Ending
<1>3. Recorded
  BY DEF Recorded, Absent
<1> QED
  BY <1>1, <1>2, <1>3 DEF Base

---------------------------------------------------------------------------
(* What a step of one coroutine may do, whichever action it is. *)
Others(h) ==
  /\ handler' \in [Handler -> Coroutine]
  /\ \A k \in Handler : k # h => handler'[k] = handler[k]

SameRequest(h) ==
  /\ handler'[h].id = handler[h].id
  /\ handler'[h].engine = handler[h].engine

(* It goes on with its request ... *)
GoesOn(h) ==
  /\ Others(h) /\ SameRequest(h)
  /\ handler[h].id # None
  /\ requests' = requests
  /\ \/ handler[h].pc \in Working /\ handler'[h].pc \in Working
     \/ handler'[h].pc = handler[h].pc
  /\ handler'[h].pc \in PreStore => handler[h].pc \in PreStore
  /\ handler'[h].job = "queued" => handler'[h].pc = "store"
  /\ handler'[h].cancelled => handler[h].cancelled \/ handler[h].engine = "v2"

(* ... records its outcome; a V1 request is "cancelled" at the agent only ... *)
Settles(h) ==
  /\ Others(h)
  /\ handler[h].pc \in Working
  /\ \E s \in Outcome :
       /\ requests' = [requests EXCEPT ![handler[h].id].status = s]
       /\ s = "cancelled" /\ handler[h].engine = "v1" => handler[h].pc = "agent"
  /\ \/ handler'[h] = Idle
     \/ /\ SameRequest(h)
        /\ handler'[h].pc \in Ending
        /\ handler'[h].job # "queued"

(* ... leaves without recording anything, a V1 request only once its record is
   not "running" ... *)
Leaves(h) ==
  /\ Others(h)
  /\ requests' = requests
  /\ handler'[h] = Idle
  /\ handler[h].id # None /\ handler[h].engine = "v1" =>
       requests[handler[h].id].status # "running"

(* ... or starts: a resume that has no id yet, or a request with a new one. *)
Resumes(h) ==
  /\ Others(h)
  /\ requests' = requests
  /\ handler[h].id = None /\ handler'[h].id = None
  /\ handler'[h].pc = "resume"
  /\ handler'[h].job = "none" /\ handler'[h].cancelled = FALSE

Arrives(h) ==
  /\ Others(h)
  /\ handler[h].id = None
  /\ \E id \in RequestId :
       /\ requests[id].status = "absent"
       /\ handler'[h].id = id
       /\ requests' = [requests EXCEPT ![id] =
            [status |-> "running", task |-> h, engine |-> handler'[h].engine]]
  /\ handler'[h].pc = "bind"
  /\ handler'[h].job = "none" /\ handler'[h].cancelled = FALSE

Moves(h) == GoesOn(h) \/ Settles(h) \/ Leaves(h) \/ Resumes(h) \/ Arrives(h)

(* Context writes, done or left to a worker, come from "store" only. *)
LeavesBehind(h) ==
  /\ \A id \in wrote' :
       id \in wrote \/ (handler[h].pc = "store" /\ id = handler[h].id)
  /\ \A w \in late' :
       w \in late \/ (handler[h].pc = "store" /\ w.id = handler[h].id)

TypedMemory ==
  /\ late' \subseteq [id : RequestId, thread : Thread, write : Context]
  /\ wrote' \subseteq RequestId
  /\ binding' \in [Thread -> Project \cup {None}]
  /\ context' \in [Thread -> Context]

Shape(h) == Moves(h) /\ LeavesBehind(h) /\ TypedMemory

(* One coroutine replaced by another one. *)
LEMMA Replaced ==
  ASSUME handler \in [Handler -> Coroutine], NEW h \in Handler,
         NEW c \in Coroutine, handler' = [handler EXCEPT ![h] = c]
  PROVE  Others(h) /\ handler'[h] = c
  BY DEF Others

(* Going to another await changes nothing else of the coroutine. *)
LEMMA GotoEffect ==
  ASSUME handler \in [Handler -> Coroutine], NEW h \in Handler,
         NEW pc \in {"project", "read", "store", "audit", "send"}, Goto(h, pc)
  PROVE  /\ Others(h)
         /\ SameRequest(h)
         /\ handler'[h].pc = pc
         /\ handler'[h].job = handler[h].job
         /\ handler'[h].cancelled = handler[h].cancelled
<1>1. handler[h] \in Coroutine
  OBVIOUS
<1>2. handler'[h] = [handler[h] EXCEPT !.pc = pc]
  BY DEF Goto
<1>3. handler'[h] \in Coroutine
  BY <1>1, <1>2 DEF Coroutine
<1>4. Others(h)
  BY <1>3 DEF Others, Goto
<1> QED
  BY <1>1, <1>2, <1>4 DEF SameRequest, Coroutine

LEMMA ReturnEffect ==
  ASSUME handler \in [Handler -> Coroutine], NEW h \in Handler, Return(h)
  PROVE  Others(h) /\ handler'[h] = Idle
  BY IdleTyped, Replaced DEF Return

(* What a new request looks like. *)
LEMMA RegisterEffect ==
  ASSUME Base, NEW h \in Handler, handler[h].id = None,
         NEW id \in RequestId, NEW th \in Thread, NEW p \in Project,
         NEW e \in {"v1", "v2"}, Register(h, id, th, p, e)
  PROVE  Arrives(h)
<1> DEFINE c == [Idle EXCEPT !.pc = "bind", !.id = id, !.thread = th,
                             !.project = p, !.engine = e]
<1>1. /\ c \in Coroutine /\ c.pc = "bind" /\ c.id = id /\ c.engine = e
      /\ c.job = "none" /\ c.cancelled = FALSE
  BY IdleTyped DEF Coroutine
<1>2. Others(h) /\ handler'[h] = c
  BY <1>1, Replaced DEF Register, Base, TypeOK
<1> QED
  BY <1>1, <1>2 DEF Arrives, Register

---------------------------------------------------------------------------
(* The actions, one by one. *)
LEMMA UnchangedMemory ==
  ASSUME TypeOK, UNCHANGED <<late, wrote, stores>>
  PROVE  TypedMemory /\ \A h \in Handler : LeavesBehind(h)
  BY DEF TypeOK, TypedMemory, LeavesBehind, stores

LEMMA BindTyped ==
  ASSUME TypeOK, NEW th \in Thread, NEW p \in Project, BindProject(th, p)
  PROVE  binding' \in [Thread -> Project \cup {None}] /\ Bound(th, p) \in Project \cup {None}
  BY DEF TypeOK, BindProject, Bound

LEMMA ChatArrivesShape ==
  ASSUME Base, NEW h \in Handler, ChatArrives(h)
  PROVE  Shape(h)
<1>1. handler[h].id = None
  BY DEF ChatArrives, Base, Assigned, AssignedTo
<1>2. Arrives(h)
  BY <1>1, RegisterEffect DEF ChatArrives
<1> QED
  BY <1>2, UnchangedMemory DEF Shape, Moves, ChatArrives, Base

LEMMA ResumeArrivesShape ==
  ASSUME Base, NEW h \in Handler, ResumeArrives(h)
  PROVE  Shape(h)
<1>1. PICK th \in Thread : handler' = [handler EXCEPT ![h] =
        [Idle EXCEPT !.pc = "resume", !.thread = th]]
  BY DEF ResumeArrives
<1> DEFINE c == [Idle EXCEPT !.pc = "resume", !.thread = th]
<1>2. /\ c \in Coroutine /\ c.pc = "resume" /\ c.id = None
      /\ c.job = "none" /\ c.cancelled = FALSE
  BY IdleTyped DEF Coroutine
<1>3. Others(h) /\ handler'[h] = c
  BY <1>1, <1>2, Replaced DEF Base, TypeOK
<1>4. handler[h].id = None
  BY DEF ResumeArrives, Base, Assigned, AssignedTo
<1>5. Resumes(h)
  BY <1>2, <1>3, <1>4 DEF Resumes, ResumeArrives
<1> QED
  BY <1>5, UnchangedMemory DEF Shape, Moves, ResumeArrives, Base

LEMMA ResumeBindsShape ==
  ASSUME Base, NEW h \in Handler, ResumeBinds(h)
  PROVE  Shape(h)
<1>1. handler[h].id = None /\ handler[h].thread \in Thread
  BY DEF ResumeBinds, Base, Assigned, AssignedTo, TypeOK, Coroutine
<1>2. binding' \in [Thread -> Project \cup {None}]
  BY <1>1, BindTyped, RequestConstants DEF ResumeBinds, Base
<1>3. TypedMemory /\ LeavesBehind(h)
  BY <1>2 DEF ResumeBinds, TypedMemory, LeavesBehind, Base, TypeOK
<1>4. Bound(handler[h].thread, Demo) \in Project
  BY <1>1, RequestConstants DEF Bound, Base, TypeOK
<1>5. CASE \E id \in RequestId :
             Register(h, id, handler[h].thread, Bound(handler[h].thread, Demo), "v1")
  BY <1>1, <1>3, <1>4, <1>5, RegisterEffect DEF Shape, Moves
<1>6. CASE Return(h) /\ UNCHANGED requests
  BY <1>1, <1>3, <1>6, ReturnEffect DEF Shape, Moves, Leaves, Base, TypeOK
<1> QED
  BY <1>5, <1>6 DEF ResumeBinds

(* Setting the status of the record of a request under way, and going home or
   to the report of it. *)
LEMMA SettlesHome ==
  ASSUME Base, NEW h \in Handler, handler[h].pc \in Working,
         NEW s \in Outcome, SetStatus(h, s), Return(h),
         s = "cancelled" /\ handler[h].engine = "v1" => handler[h].pc = "agent"
  PROVE  Settles(h)
  BY ReturnEffect DEF Settles, SetStatus, Base, TypeOK

LEMMA SettlesAway ==
  ASSUME Base, NEW h \in Handler, handler[h].pc \in Working,
         NEW s \in Outcome, SetStatus(h, s), NEW pc \in Ending, Goto(h, pc),
         handler[h].job # "queued",
         s = "cancelled" /\ handler[h].engine = "v1" => handler[h].pc = "agent"
  PROVE  Settles(h)
<1>1. /\ Others(h) /\ SameRequest(h)
      /\ handler'[h].pc = pc /\ handler'[h].job = handler[h].job
  BY GotoEffect DEF Ending, Base, TypeOK
<1> QED
  BY <1>1 DEF Settles, SetStatus

(* A request that is somewhere has an id; before "store" nothing is queued. *)
LEMMA WorkingFacts ==
  ASSUME Base, NEW h \in Handler
  PROVE  /\ handler[h] \in Coroutine
         /\ handler[h].pc \in Working \cup Ending =>
              handler[h].id # None /\ handler[h].id \in RequestId
         /\ handler[h].pc # "store" => handler[h].job # "queued"
  BY
  DEF Base, Assigned, AssignedTo, Progress, ProgressOf, TypeOK, Coroutine, Working, PreStore, Ending

LEMMA BindsShape ==
  ASSUME Base, NEW h \in Handler, Binds(h)
  PROVE  Shape(h)
<1> DEFINE c == handler[h]
<1>1. c \in Coroutine /\ c.pc = "bind" /\ c.id # None
  BY WorkingFacts DEF Binds, Awaits, Working, PreStore
<1>2. binding' \in [Thread -> Project \cup {None}]
  BY <1>1, BindTyped DEF Binds, Base, Coroutine
<1>3. TypedMemory /\ LeavesBehind(h)
  BY <1>2 DEF Binds, TypedMemory, LeavesBehind, Base, TypeOK
<1>4. CASE Goto(h, "project") /\ UNCHANGED requests
  BY <1>1, <1>3, <1>4, GotoEffect, WorkingFacts
  DEF Shape, Moves, GoesOn, Working, PreStore, Base, TypeOK
<1>5. CASE Return(h) /\ SetStatus(h, "error")
  BY <1>1, <1>3, <1>5, SettlesHome DEF Shape, Moves, Working, PreStore, Outcome
<1> QED
  BY <1>4, <1>5 DEF Binds

LEMMA ProjectLoadsShape ==
  ASSUME Base, NEW h \in Handler, ProjectLoads(h)
  PROVE  Shape(h)
<1>1. handler[h].pc = "project" /\ handler[h].id # None
  BY WorkingFacts DEF ProjectLoads, Awaits, Working, PreStore
<1>2. GoesOn(h)
  BY <1>1, GotoEffect, WorkingFacts
  DEF ProjectLoads, GoesOn, Working, PreStore, Base, TypeOK
<1> QED
  BY <1>2, UnchangedMemory DEF Shape, Moves, ProjectLoads, Base

LEMMA ReadsContextShape ==
  ASSUME Base, NEW h \in Handler, ReadsContext(h)
  PROVE  Shape(h)
<1>1. handler[h] \in Coroutine /\ handler[h].pc = "read" /\ handler[h].id # None
  BY WorkingFacts DEF ReadsContext, Awaits, Working, PreStore
<1>2. context[handler[h].thread] \in Context
  BY <1>1 DEF Base, TypeOK, Coroutine
<1> DEFINE c == [handler[h] EXCEPT !.pc = "agent", !.write = context[handler[h].thread]]
<1>3. /\ c \in Coroutine /\ c.pc = "agent" /\ c.id = handler[h].id
      /\ c.engine = handler[h].engine /\ c.job = handler[h].job
      /\ c.cancelled = handler[h].cancelled
  BY <1>1, <1>2 DEF Coroutine
<1>4. handler' = [handler EXCEPT ![h] = c]
  BY DEF ReadsContext, Base, TypeOK
<1>5. Others(h) /\ handler'[h] = c
  BY <1>3, <1>4, Replaced DEF Base, TypeOK
<1>6. GoesOn(h)
  BY <1>1, <1>3, <1>5, WorkingFacts
  DEF ReadsContext, GoesOn, SameRequest, Working, PreStore
<1> QED
  BY <1>6, UnchangedMemory DEF Shape, Moves, ReadsContext, Base

LEMMA RefusedShape ==
  ASSUME Base, NEW h \in Handler, Refused(h)
  PROVE  Shape(h)
<1>1. handler[h].pc \in Working
  BY DEF Refused, Awaits, Working, PreStore
<1>2. Settles(h)
  BY <1>1, SettlesHome DEF Refused, Outcome
<1> QED
  BY <1>2, UnchangedMemory DEF Shape, Moves, Refused, Base

LEMMA ProjectTimesOutShape ==
  ASSUME Base, NEW h \in Handler, ProjectTimesOut(h)
  PROVE  Shape(h)
<1>1. handler[h].pc = "project" /\ handler[h].pc \in Working /\ handler[h].job # "queued"
  BY WorkingFacts DEF ProjectTimesOut, Awaits, Working, PreStore
<1>2. SetStatus(h, "timeout") /\ "timeout" \in Outcome
  BY DEF ProjectTimesOut, Outcome
<1>3. Goto(h, "audit") => Settles(h)
  BY <1>1, <1>2, SettlesAway DEF Ending
<1>4. Return(h) => Settles(h)
  BY <1>1, <1>2, SettlesHome
<1> QED
  BY <1>3, <1>4, UnchangedMemory DEF Shape, Moves, ProjectTimesOut, Base

LEMMA RaisesShape ==
  ASSUME Base, NEW h \in Handler, Raises(h)
  PROVE  Shape(h)
<1>1. handler[h].pc \in Working /\ handler[h] \in Coroutine
  BY WorkingFacts DEF Raises, Awaits, Working, PreStore
<1>2. Moves(h)
  <2>1. CASE handler[h].engine = "v1"
    <3>1. SetStatus(h, "error") /\ "error" \in Outcome
      BY <2>1 DEF Raises, Outcome
    <3> QED
      BY <1>1, <3>1, SettlesHome DEF Raises, Moves
  <2>2. CASE handler[h].engine # "v1"
    BY <2>2, ReturnEffect DEF Raises, Moves, Leaves, Base, TypeOK
  <2> QED
    BY <2>1, <2>2
<1> QED
  BY <1>2, UnchangedMemory DEF Shape, Raises, Base

LEMMA AnswersShape ==
  ASSUME Base, NEW h \in Handler, Answers(h)
  PROVE  Shape(h)
<1>1. handler[h] \in Coroutine /\ handler[h].pc = "agent" /\ handler[h].id # None
  BY WorkingFacts DEF Answers, Awaits, Working, PreStore
<1>2. PICK new \in Context :
        handler' = [handler EXCEPT ![h].pc = "store", ![h].write = new, ![h].job = "queued"]
  <2> DEFINE w == handler[h].write
             p == handler[h].project
  <2>1. w \in Context /\ p \in Project
    BY <1>1 DEF Coroutine
  <2>2. AfterV2(w, p) \in Context /\ AfterV1(w, p) \in Context /\ AfterV1Question \in Context
    BY <2>1, ContextTyped
  <2>3. \E new \in {AfterV2(w, p), AfterV1(w, p), AfterV1Question} :
          handler' = [handler EXCEPT ![h].pc = "store", ![h].write = new, ![h].job = "queued"]
    BY DEF Answers
  <2> QED
    BY <2>2, <2>3
<1> DEFINE c == [handler[h] EXCEPT !.pc = "store", !.write = new, !.job = "queued"]
<1>3. /\ c \in Coroutine /\ c.pc = "store" /\ c.id = handler[h].id
      /\ c.engine = handler[h].engine /\ c.cancelled = handler[h].cancelled
  BY <1>1 DEF Coroutine
<1>4. handler' = [handler EXCEPT ![h] = c]
  BY <1>2 DEF Base, TypeOK
<1>5. Others(h) /\ handler'[h] = c
  BY <1>3, <1>4, Replaced DEF Base, TypeOK
<1>6. GoesOn(h)
  BY <1>1, <1>3, <1>5 DEF Answers, GoesOn, SameRequest, Working, PreStore
<1> QED
  BY <1>6, UnchangedMemory DEF Shape, Moves, Answers, Base

LEMMA DeclinesShape ==
  ASSUME Base, NEW h \in Handler, Declines(h)
  PROVE  Shape(h)
<1>1. handler[h].pc = "agent" /\ handler[h].id # None /\ handler[h].job # "queued"
  BY WorkingFacts DEF Declines, Awaits, Working, PreStore
<1>2. SetStatus(h, "completed") /\ Return(h) => Settles(h)
  BY <1>1, SettlesHome DEF Outcome, Working, PreStore
<1>3. Goto(h, "store") /\ UNCHANGED requests => GoesOn(h)
  BY <1>1, GotoEffect DEF GoesOn, Working, PreStore, Base, TypeOK
<1>4. Moves(h)
  BY <1>2, <1>3 DEF Declines, Moves
<1> QED
  BY <1>4, UnchangedMemory DEF Shape, Declines, Base

LEMMA AgentFailsShape ==
  ASSUME Base, NEW h \in Handler, AgentFails(h)
  PROVE  Shape(h)
<1>1. handler[h].pc = "agent" /\ handler[h].job # "queued"
  BY WorkingFacts DEF AgentFails, Awaits
<1>2. PICK s \in {"error", "timeout", "cancelled"} :
        /\ SetStatus(h, s)
        /\ CASE handler[h].engine = "v2" -> Goto(h, "send")
             [] handler[h].engine # "v2" /\ s = "timeout" -> Goto(h, "audit")
             [] OTHER -> Return(h)
  BY DEF AgentFails
<1>3. handler[h].pc \in Working /\ s \in Outcome
  BY <1>1, <1>2 DEF Working, PreStore, Outcome
<1>4. \/ Goto(h, "send") \/ Goto(h, "audit") \/ Return(h)
  BY <1>2
<1>5. Settles(h)
  BY <1>1, <1>2, <1>3, <1>4, SettlesHome, SettlesAway DEF Ending
<1> QED
  BY <1>5, UnchangedMemory DEF Shape, Moves, AgentFails, Base

LEMMA StoreWritesShape ==
  ASSUME Base, NEW h \in Handler, StoreWrites(h)
  PROVE  Shape(h)
<1>1. handler[h] \in Coroutine /\ handler[h].pc = "store"
  BY WorkingFacts DEF StoreWrites
<1>2. handler[h].id # None /\ handler[h].id \in RequestId
  BY <1>1, WorkingFacts DEF Working
<1> DEFINE c == [handler[h] EXCEPT !.job = "done"]
<1>3. /\ c \in Coroutine /\ c.pc = "store" /\ c.id = handler[h].id
      /\ c.engine = handler[h].engine /\ c.cancelled = handler[h].cancelled
  BY <1>1 DEF Coroutine
<1>4. handler' = [handler EXCEPT ![h] = c]
  BY DEF StoreWrites, Base, TypeOK
<1>5. Others(h) /\ handler'[h] = c
  BY <1>3, <1>4, Replaced DEF Base, TypeOK
<1>6. GoesOn(h)
  BY <1>1, <1>2, <1>3, <1>5 DEF StoreWrites, GoesOn, SameRequest, Working, PreStore
<1>7. context' \in [Thread -> Context]
  BY <1>1 DEF StoreWrites, SetContext, Base, TypeOK, Coroutine
<1>8. LeavesBehind(h)
  BY <1>1 DEF StoreWrites, LeavesBehind
<1>9. TypedMemory
  BY <1>2, <1>7 DEF StoreWrites, TypedMemory, Base, TypeOK
<1> QED
  BY <1>6, <1>8, <1>9 DEF Shape, Moves

LEMMA StoreFailsShape ==
  ASSUME Base, NEW h \in Handler, StoreFails(h)
  PROVE  Shape(h)
<1>1. handler[h] \in Coroutine /\ handler[h].pc = "store"
  BY WorkingFacts DEF StoreFails
<1>2. handler[h].id # None
  BY <1>1, WorkingFacts DEF Working
<1> DEFINE c == [handler[h] EXCEPT !.job = "none"]
<1>3. /\ c \in Coroutine /\ c.pc = "store" /\ c.id = handler[h].id
      /\ c.engine = handler[h].engine /\ c.cancelled = handler[h].cancelled
  BY <1>1 DEF Coroutine
<1>4. handler' = [handler EXCEPT ![h] = c]
  BY DEF StoreFails, Base, TypeOK
<1>5. Others(h) /\ handler'[h] = c
  BY <1>3, <1>4, Replaced DEF Base, TypeOK
<1>6. GoesOn(h)
  BY <1>1, <1>2, <1>3, <1>5 DEF StoreFails, GoesOn, SameRequest, Working, PreStore
<1> QED
  BY <1>6, UnchangedMemory DEF Shape, Moves, StoreFails, Base

LEMMA CompletesShape ==
  ASSUME Base, NEW h \in Handler, Completes(h)
  PROVE  Shape(h)
<1>1. handler[h].pc \in Working /\ handler[h].job # "queued"
  BY DEF Completes, Awaits, Working
<1>2. SetStatus(h, "completed") /\ "completed" \in Outcome
  BY DEF Completes, Outcome
<1>3. Goto(h, "send") => Settles(h)
  BY <1>1, <1>2, SettlesAway DEF Ending
<1>4. Return(h) => Settles(h)
  BY <1>1, <1>2, SettlesHome
<1>5. Settles(h)
  BY <1>3, <1>4 DEF Completes
<1> QED
  BY <1>5, UnchangedMemory DEF Shape, Moves, Completes, Base

LEMMA EndsShape ==
  ASSUME Base, NEW h \in Handler, Ends(h)
  PROVE  Shape(h)
<1>1. handler[h].pc \in Ending
  BY DEF Ends, Awaits, Ending
<1>2. requests[handler[h].id].status # "running"
  BY <1>1 DEF Base, Progress, ProgressOf, Outcome
<1>3. Leaves(h)
  BY <1>2, ReturnEffect DEF Ends, Leaves, Base, TypeOK
<1> QED
  BY <1>3, UnchangedMemory DEF Shape, Moves, Ends, Base

LEMMA DisconnectsShape ==
  ASSUME Base, NEW h \in Handler, Disconnects(h)
  PROVE  Shape(h)
<1>1. /\ handler[h] \in Coroutine /\ handler[h].engine = "v2"
      /\ handler[h].pc \in Working \cup Ending
  BY WorkingFacts DEF Disconnects, Streams, Working, PreStore, Ending
<1>2. handler[h].id # None
  BY <1>1, WorkingFacts
<1> DEFINE c == [handler[h] EXCEPT !.cancelled = TRUE]
<1>3. /\ c \in Coroutine /\ c.pc = handler[h].pc /\ c.id = handler[h].id
      /\ c.engine = handler[h].engine /\ c.job = handler[h].job
  BY <1>1 DEF Coroutine
<1>4. handler' = [handler EXCEPT ![h] = c]
  BY DEF Disconnects, Base, TypeOK
<1>5. Others(h) /\ handler'[h] = c
  BY <1>3, <1>4, Replaced DEF Base, TypeOK
<1>6. GoesOn(h)
  BY <1>1, <1>2, <1>3, <1>5, WorkingFacts DEF Disconnects, GoesOn, SameRequest
<1> QED
  BY <1>6, UnchangedMemory DEF Shape, Moves, Disconnects, Base

(* An abandoned write is the coroutine's own, and was queued in "store". *)
LEMMA AbandonsEffect ==
  ASSUME Base, NEW h \in Handler, Abandons(h)
  PROVE  /\ late' \subseteq [id : RequestId, thread : Thread, write : Context]
         /\ \A w \in late' :
              w \in late \/ (handler[h].pc = "store" /\ w.id = handler[h].id)
<1> DEFINE c == handler[h]
           w == [id |-> c.id, thread |-> c.thread, write |-> c.write]
<1>1. CASE c.job = "queued"
  <2>1. c \in Coroutine /\ c.pc = "store"
    BY <1>1, WorkingFacts
  <2>2. c.id \in RequestId
    BY <2>1, WorkingFacts DEF Working
  <2>3. w \in [id : RequestId, thread : Thread, write : Context]
    BY <2>1, <2>2 DEF Coroutine
  <2>4. late' = late \/ late' = late \cup {w}
    BY <1>1 DEF Abandons
  <2> QED
    BY <2>1, <2>3, <2>4 DEF Base, TypeOK
<1>2. CASE c.job # "queued"
  BY <1>2 DEF Abandons, Base, TypeOK
<1> QED
  BY <1>1, <1>2

LEMMA CancelCaughtShape ==
  ASSUME Base, NEW h \in Handler, CancelCaught(h)
  PROVE  Shape(h)
<1>1. handler[h] \in Coroutine /\ handler[h].pc \in Working
  BY WorkingFacts DEF CancelCaught, Working, PreStore
<1>2. /\ SetStatus(h, "cancelled") /\ "cancelled" \in Outcome
      /\ handler[h].engine = "v1" => handler[h].pc = "agent" /\ handler[h].job # "queued"
  BY <1>1, WorkingFacts DEF CancelCaught, Outcome
<1>3. Settles(h)
  <2>1. CASE handler[h].engine = "v1"
    <3> DEFINE c == [handler[h] EXCEPT !.pc = "audit", !.cancelled = FALSE]
    <3>1. /\ c \in Coroutine /\ c.pc = "audit" /\ c.id = handler[h].id
          /\ c.engine = handler[h].engine /\ c.job = handler[h].job
      BY <1>1 DEF Coroutine
    <3>2. handler' = [handler EXCEPT ![h] = c]
      BY <2>1 DEF CancelCaught, Base, TypeOK
    <3>3. Others(h) /\ handler'[h] = c
      BY <3>1, <3>2, Replaced DEF Base, TypeOK
    <3> QED
      BY <1>1, <1>2, <2>1, <3>1, <3>3 DEF Settles, SameRequest, SetStatus, Ending
  <2>2. CASE handler[h].engine # "v1"
    BY <1>1, <1>2, <2>2, SettlesHome DEF CancelCaught
  <2> QED
    BY <2>1, <2>2
<1>4. LeavesBehind(h) /\ TypedMemory
  BY AbandonsEffect DEF CancelCaught, LeavesBehind, TypedMemory, Base, TypeOK, stores
<1> QED
  BY <1>3, <1>4 DEF Shape, Moves

LEMMA CancelEscapesShape ==
  ASSUME Base, NEW h \in Handler, CancelEscapes(h)
  PROVE  Shape(h)
<1>1. /\ handler[h] \in Coroutine /\ handler[h].cancelled
      /\ handler[h].thread \in Thread /\ handler[h].project \in Project
  BY WorkingFacts DEF CancelEscapes, Coroutine
<1>2. Leaves(h)
  BY <1>1, ReturnEffect DEF CancelEscapes, Leaves, Base, Progress, ProgressOf, TypeOK
<1>3. binding' \in [Thread -> Project \cup {None}]
  BY <1>1, BindTyped DEF CancelEscapes, Base, TypeOK
<1>4. LeavesBehind(h) /\ TypedMemory
  BY <1>3, AbandonsEffect DEF CancelEscapes, LeavesBehind, TypedMemory, Base, TypeOK
<1> QED
  BY <1>2, <1>4 DEF Shape, Moves

(* Every step of a coroutine has the shape described above. *)
LEMMA StepShape ==
  ASSUME Base, NEW h \in Handler,
         Step(h) \/ ChatArrives(h) \/ ResumeArrives(h) \/ Disconnects(h)
  PROVE  Shape(h)
  BY ChatArrivesShape, ResumeArrivesShape, ResumeBindsShape, BindsShape,
     ProjectLoadsShape, ReadsContextShape, RefusedShape, ProjectTimesOutShape,
     RaisesShape, AnswersShape, DeclinesShape, AgentFailsShape, StoreWritesShape,
     StoreFailsShape, CompletesShape, EndsShape, DisconnectsShape,
     CancelCaughtShape, CancelEscapesShape
  DEF Step

---------------------------------------------------------------------------
(* Two coroutines never serve the same id, and an id that is served is in the
   table. *)
LEMMA IdsApart ==
  ASSUME Base
  PROVE  /\ \A h, k \in Handler :
              h # k /\ handler[h].id # None => handler[h].id # handler[k].id
         /\ \A h \in Handler :
              /\ handler[h].pc \in Working \cup Ending <=> handler[h].id # None
              /\ handler[h].id # None =>
                   /\ handler[h].id \in RequestId
                   /\ requests[handler[h].id].status # "absent"
<1>1. \A h \in Handler : handler[h] \in Coroutine
  BY DEF Base, TypeOK
<1>2. \A h \in Handler :
        handler[h].pc \in Working \cup Ending <=> handler[h].id # None
  BY <1>1 DEF Base, Assigned, AssignedTo, Coroutine, Working, PreStore, Ending
<1>3. \A h \in Handler :
        handler[h].id # None =>
          handler[h].id \in RequestId /\ requests[handler[h].id].status # "absent"
  BY <1>1, <1>2 DEF Base, Progress, ProgressOf, Outcome, Coroutine
<1>4. \A h, k \in Handler :
        h # k /\ handler[h].id # None => handler[h].id # handler[k].id
  BY DEF Base, Assigned, AssignedTo
<1> QED
  BY <1>2, <1>3, <1>4

(* The coroutines that did not move keep what is said of them, as long as their
   records and their ids' writes are untouched. *)
LEMMA GoesOnBase ==
  ASSUME Base, NEW h \in Handler, GoesOn(h), LeavesBehind(h), TypedMemory
  PROVE  Base'
<1>1. TypeOK'
  BY DEF GoesOn, Others, TypedMemory, Base, TypeOK
<1>2. handler'[h].pc \in Working \cup Ending /\ handler[h].pc \in Working \cup Ending
  BY IdsApart DEF GoesOn
<1>3. Assigned'
  BY <1>2
  DEF GoesOn, Others, SameRequest, Base, Assigned, AssignedTo, Working, PreStore, Ending
<1>4. Progress'
  <2> SUFFICES ASSUME NEW k \in Handler PROVE ProgressOf(k)'
    BY DEF Progress
  <2>1. CASE k = h
    BY <1>2, <2>1
    DEF GoesOn, SameRequest, LeavesBehind, Base, Progress, ProgressOf, Working, PreStore, Ending
  <2>2. CASE k # h
    BY <2>2, IdsApart
    DEF GoesOn, Others, LeavesBehind, Base, Progress, ProgressOf, Working, PreStore
  <2> QED
    BY <2>1, <2>2
<1>5. Recorded'
  BY IdsApart DEF GoesOn, LeavesBehind, Base, Recorded, Working
<1> QED
  BY <1>1, <1>3, <1>4, <1>5 DEF Base

LEMMA SettlesBase ==
  ASSUME Base, NEW h \in Handler, Settles(h), LeavesBehind(h), TypedMemory
  PROVE  Base'
<1> DEFINE id == handler[h].id
<1>1. PICK s \in Outcome : requests' = [requests EXCEPT ![id].status = s]
  BY DEF Settles
<1>2. id \in RequestId /\ id # None
  BY IdsApart DEF Settles
<1>3. /\ requests'[id] = [requests[id] EXCEPT !.status = s]
      /\ \A i \in RequestId : i # id => requests'[i] = requests[i]
  BY <1>1, <1>2 DEF Base, TypeOK
<1>4. requests[id] \in Record
  BY <1>2 DEF Base, TypeOK
<1>5. /\ requests'[id] \in Record /\ requests'[id].status = s
      /\ requests'[id].task = requests[id].task
      /\ requests'[id].engine = requests[id].engine
  BY <1>3, <1>4 DEF Record
<1>6. TypeOK'
  BY <1>1, <1>3, <1>5 DEF Settles, Others, TypedMemory, Base, TypeOK
<1>7. Assigned'
  <2> SUFFICES ASSUME NEW k \in Handler PROVE AssignedTo(k)'
    BY DEF Assigned
  <2>1. CASE k = h
    BY <1>2, <1>5, <2>1, IdleTyped
    DEF Settles, SameRequest, Base, Assigned, AssignedTo, Ending
  <2>2. CASE k # h
    BY <1>3, <2>2, IdsApart DEF Settles, Others, Base, Assigned, AssignedTo
  <2> QED
    BY <2>1, <2>2
<1>8. Progress'
  <2> SUFFICES ASSUME NEW k \in Handler PROVE ProgressOf(k)'
    BY DEF Progress
  <2>1. CASE k = h
    BY <1>5, <2>1, IdleTyped
    DEF ProgressOf, Settles, SameRequest, Working, PreStore, Ending, Outcome
  <2>2. CASE k # h
    BY <1>3, <2>2, IdsApart
    DEF Settles, Others, LeavesBehind, Base, Progress, ProgressOf, Working, PreStore
  <2> QED
    BY <2>1, <2>2
<1>9. Recorded'
  <2>1. requests[id].status # "absent" /\ requests[id].task \in Handler
    BY <1>2, IdsApart DEF Base, Recorded
  <2>2. s # "absent"
    BY DEF Outcome
  <2>3. \A i \in RequestId \ {id} :
          (i \in wrote' => i \in wrote) /\ \A w \in late' : w.id = i => w \in late
    BY DEF LeavesBehind
  <2> QED
    BY <1>3, <1>5, <2>1, <2>2, <2>3 DEF Base, Recorded
<1> QED
  BY <1>6, <1>7, <1>8, <1>9 DEF Base

LEMMA LeavesBase ==
  ASSUME Base, NEW h \in Handler, Leaves(h) \/ Resumes(h), LeavesBehind(h), TypedMemory
  PROVE  Base'
<1>1. /\ Others(h) /\ requests' = requests
      /\ handler'[h].pc \in {"idle", "resume"} /\ handler'[h].id = None
      /\ handler'[h].job = "none"
  BY IdleTyped DEF Leaves, Resumes
<1>2. TypeOK'
  BY <1>1 DEF Others, TypedMemory, Base, TypeOK
<1>3. Assigned'
  BY <1>1 DEF Others, Base, Assigned, AssignedTo
<1>4. Progress'
  <2> SUFFICES ASSUME NEW k \in Handler PROVE ProgressOf(k)'
    BY DEF Progress
  <2>1. CASE k = h
    BY <1>1, <2>1 DEF ProgressOf, Working, PreStore, Ending
  <2>2. CASE k # h
    BY <1>1, <2>2, IdsApart
    DEF Others, LeavesBehind, Base, Progress, ProgressOf, Working, PreStore
  <2> QED
    BY <2>1, <2>2
<1>5. Recorded'
  BY <1>1, IdsApart DEF LeavesBehind, Base, Recorded, Working
<1> QED
  BY <1>2, <1>3, <1>4, <1>5 DEF Base

LEMMA ArrivesBase ==
  ASSUME Base, NEW h \in Handler, Arrives(h), LeavesBehind(h), TypedMemory
  PROVE  Base'
<1>1. PICK id \in RequestId :
        /\ requests[id].status = "absent"
        /\ handler'[h].id = id
        /\ requests' = [requests EXCEPT ![id] =
             [status |-> "running", task |-> h, engine |-> handler'[h].engine]]
  BY DEF Arrives
<1>2. /\ handler'[h] \in Coroutine /\ handler'[h].pc = "bind"
      /\ handler'[h].job = "none" /\ handler'[h].cancelled = FALSE
  BY DEF Arrives, Others
<1>3. id # None
  BY RequestConstants
<1>4. /\ requests'[id] = [status |-> "running", task |-> h, engine |-> handler'[h].engine]
      /\ \A i \in RequestId : i # id => requests'[i] = requests[i]
  BY <1>1 DEF Base, TypeOK
<1>5. requests'[id] \in Record
  BY <1>2, <1>4 DEF Record, Coroutine
<1>6. handler[h].pc # "store"
  BY IdsApart DEF Arrives, Working
<1>7. \A i \in wrote' : i \in wrote
  BY <1>6 DEF LeavesBehind
<1>8. \A w \in late' : w \in late
  BY <1>6 DEF LeavesBehind
<1>9. \A k \in Handler : k # h => handler'[k] = handler[k] /\ handler[k].id # id
  BY <1>1, <1>3, IdsApart DEF Arrives, Others
<1>10. TypeOK'
  BY <1>1, <1>4, <1>5 DEF Arrives, Others, TypedMemory, Base, TypeOK
<1>11. Assigned'
  BY <1>1, <1>2, <1>3, <1>4, <1>9, IdsApart DEF Base, Assigned, AssignedTo
<1>12. Progress'
  <2> SUFFICES ASSUME NEW k \in Handler PROVE ProgressOf(k)'
    BY DEF Progress
  <2>1. CASE k = h
    BY <1>1, <1>2, <1>4, <1>7, <1>8, <2>1 DEF ProgressOf, Base, Recorded, Ending
  <2>2. CASE k # h
    BY <1>4, <1>7, <1>8, <1>9, <2>2, IdsApart DEF Base, Progress, ProgressOf, Working
  <2> QED
    BY <2>1, <2>2
<1>13. Recorded'
  BY <1>4, <1>7, <1>8 DEF Base, Recorded
<1> QED
  BY <1>10, <1>11, <1>12, <1>13 DEF Base

(* A cancel marks the record, and the coroutine that serves it. *)
LEMMA CancelEffect ==
  ASSUME Base, NEW id \in RequestId, Cancel(id)
  PROVE  /\ requests' \in [RequestId -> Record]
         /\ requests'[id].status = "cancel_requested"
         /\ requests'[id].task = requests[id].task
         /\ requests'[id].engine = requests[id].engine
         /\ \A i \in RequestId : i # id => requests'[i] = requests[i]
         /\ handler' \in [Handler -> Coroutine]
         /\ \A k \in Handler :
              /\ handler'[k].id = handler[k].id /\ handler'[k].pc = handler[k].pc
              /\ handler'[k].engine = handler[k].engine /\ handler'[k].job = handler[k].job
              /\ handler'[k].write = handler[k].write
              /\ handler'[k].thread = handler[k].thread
              /\ handler'[k].project = handler[k].project
              /\ handler[k].id # id => handler'[k] = handler[k]
<1> DEFINE t == requests[id].task
<1>1. requests[id] \in Record /\ t \in Handler /\ requests[id].status # "absent"
  BY DEF Cancel, Base, TypeOK, Recorded
<1>2. requests'[id] = [requests[id] EXCEPT !.status = "cancel_requested"]
  BY DEF Cancel, Base, TypeOK
<1>3. /\ requests'[id] \in Record /\ requests'[id].status = "cancel_requested"
      /\ requests'[id].task = t /\ requests'[id].engine = requests[id].engine
  BY <1>1, <1>2 DEF Record
<1>4. /\ requests' \in [RequestId -> Record]
      /\ \A i \in RequestId : i # id => requests'[i] = requests[i]
  BY <1>3 DEF Cancel, Base, TypeOK
<1>5. CASE handler[t].id = id
  <2> DEFINE c == [handler[t] EXCEPT !.cancelled = TRUE]
  <2>1. handler[t] \in Coroutine
    BY <1>1 DEF Base, TypeOK
  <2>2. /\ c \in Coroutine /\ c.id = handler[t].id /\ c.pc = handler[t].pc
        /\ c.engine = handler[t].engine /\ c.job = handler[t].job
        /\ c.write = handler[t].write /\ c.thread = handler[t].thread
        /\ c.project = handler[t].project
    BY <2>1 DEF Coroutine
  <2>3. handler' = [handler EXCEPT ![t] = c]
    BY <1>5 DEF Cancel, Base, TypeOK
  <2>4. Others(t) /\ handler'[t] = c
    BY <1>1, <2>2, <2>3, Replaced DEF Base, TypeOK
  <2> QED
    BY <1>3, <1>4, <1>5, <2>2, <2>4 DEF Others
<1>6. CASE handler[t].id # id
  BY <1>3, <1>4, <1>6 DEF Cancel, Base, TypeOK
<1> QED
  BY <1>5, <1>6

LEMMA CancelBase ==
  ASSUME Base, NEW id \in RequestId, Cancel(id)
  PROVE  Base'
<1>1. TypeOK'
  BY CancelEffect DEF Cancel, Base, TypeOK, stores
<1>2. Assigned'
  BY CancelEffect, IdsApart DEF Base, Assigned, AssignedTo
<1>3. Progress'
  <2> SUFFICES ASSUME NEW k \in Handler PROVE ProgressOf(k)'
    BY DEF Progress
  <2>0. /\ late' = late /\ wrote' = wrote
        /\ handler'[k].id = handler[k].id /\ handler'[k].pc = handler[k].pc
        /\ handler'[k].engine = handler[k].engine /\ handler'[k].job = handler[k].job
    BY CancelEffect DEF Cancel
  <2>1. CASE handler[k].id = id
    <3>1. requests'[handler'[k].id].status = "cancel_requested"
      BY <2>0, <2>1, CancelEffect
    <3> QED
      BY <2>0, <3>1 DEF Base, Progress, ProgressOf
  <2>2. CASE handler[k].id # id
    <3>1. handler'[k] = handler[k]
      BY <2>2, CancelEffect
    <3>2. handler[k].pc \in Working \cup Ending \/ handler[k].id # None =>
            requests'[handler[k].id] = requests[handler[k].id]
      BY <2>2, CancelEffect, IdsApart
    <3> QED
      BY <2>0, <3>1, <3>2 DEF Base, Progress, ProgressOf
  <2> QED
    BY <2>1, <2>2
<1>4. Recorded'
  BY CancelEffect DEF Cancel, Base, Recorded
<1> QED
  BY <1>1, <1>2, <1>3, <1>4 DEF Base

LEMMA LateWriteBase == ASSUME Base, LateWrite PROVE Base'
<1>1. PICK w \in late : /\ SetContext(w.thread, w.write)
                        /\ wrote' = wrote \cup {w.id}
                        /\ late' = late \ {w}
                        /\ UNCHANGED <<handler, requests, binding>>
  BY DEF LateWrite
<1>2. w \in [id : RequestId, thread : Thread, write : Context]
  BY DEF Base, TypeOK
<1>3. context' \in [Thread -> Context]
  BY <1>1, <1>2 DEF SetContext, Base, TypeOK
<1>4. TypeOK'
  BY <1>1, <1>2, <1>3 DEF Base, TypeOK
<1>5. Assigned'
  BY <1>1 DEF Base, Assigned, AssignedTo
<1>6. Progress'
  BY <1>1 DEF Base, Progress, ProgressOf
<1>7. Recorded'
  BY <1>1 DEF Base, Recorded
<1> QED
  BY <1>4, <1>5, <1>6, <1>7 DEF Base

LEMMA RestartBase == ASSUME Base, Restart PROVE Base'
<1> USE DEF Restart
<1>1. binding' \in [Thread -> Project \cup {None}] /\ context' \in [Thread -> Context]
  BY ContextTyped DEF StoresRestart, stores, Unbound, Forgotten, Base, TypeOK
<1>2. TypeOK'
  BY <1>1, IdleTyped DEF TypeOK, Record, Absent, Outcome
<1>3. Assigned' /\ Progress'
  BY IdleTyped DEF Assigned, AssignedTo, Progress, ProgressOf, Working, PreStore, Ending
<1>4. Recorded'
  BY DEF Recorded, Absent
<1> QED
  BY <1>2, <1>3, <1>4 DEF Base

(* Base is inductive. *)
LEMMA BaseStep == ASSUME Base, [Next]_vars PROVE Base'
<1>1. ASSUME NEW h \in Handler,
             Step(h) \/ ChatArrives(h) \/ ResumeArrives(h) \/ Disconnects(h)
      PROVE  Base'
  BY <1>1, StepShape, GoesOnBase, SettlesBase, LeavesBase, ArrivesBase DEF Shape, Moves
<1>2. ASSUME NEW id \in RequestId, Cancel(id)
      PROVE  Base'
  BY <1>2, CancelBase
<1>3. CASE UNCHANGED vars
  BY <1>3 DEF vars, Base, TypeOK, Assigned, AssignedTo, Progress, ProgressOf, Recorded
<1> QED
  BY <1>1, <1>2, <1>3, LateWriteBase, RestartBase DEF Next

(* The table, the coroutines and what they leave behind fit together, always. *)
THEOREM SpecBase == Spec => []Base
  BY InitBase, BaseStep, PTL DEF Spec

(* The type invariant alone: every coroutine, record, context and abandoned
   write is one the handlers and the stores know of. *)
THEOREM TypeCorrect == Spec => []TypeOK
  BY SpecBase, PTL DEF Base

(* The check before the first await is enough: no request takes over another
   one's id, so a cancel by id reaches the request it names. *)
THEOREM OwnRecord == Spec => []RecordIsOwn
<1>1. Base => RecordIsOwn
  BY IdsApart DEF Base, Assigned, AssignedTo, RecordIsOwn
<1> QED
  BY <1>1, SpecBase, PTL

---------------------------------------------------------------------------
(* No step of a coroutine touches an outcome that is recorded. *)
LEMMA OutcomeStep ==
  ASSUME Base, [Next]_vars
  PROVE  \A id \in RequestId :
           requests[id].status \in Outcome =>
             requests'[id].status \in {requests[id].status, "cancel_requested", "absent"}
<1> SUFFICES ASSUME NEW id \in RequestId, requests[id].status \in Outcome
             PROVE  requests'[id].status \in {requests[id].status, "cancel_requested", "absent"}
  OBVIOUS
<1>1. ASSUME NEW h \in Handler,
             Step(h) \/ ChatArrives(h) \/ ResumeArrives(h) \/ Disconnects(h)
      PROVE  requests'[id] = requests[id]
  <2>1. Moves(h)
    BY <1>1, StepShape DEF Shape
  <2>2. CASE Settles(h)
    <3>1. handler[h].id # id
      BY <2>2 DEF Settles, Base, Progress, ProgressOf, Outcome
    <3> QED
      BY <2>2, <3>1 DEF Settles, Base, TypeOK
  <2>3. CASE Arrives(h)
    BY <2>3 DEF Arrives, Outcome, Base, TypeOK
  <2>4. CASE GoesOn(h) \/ Leaves(h) \/ Resumes(h)
    BY <2>4 DEF GoesOn, Leaves, Resumes
  <2> QED
    BY <2>1, <2>2, <2>3, <2>4 DEF Moves
<1>2. ASSUME NEW i \in RequestId, Cancel(i)
      PROVE  requests'[id].status \in {requests[id].status, "cancel_requested"}
  <2>1. CASE i = id
    BY <1>2, <2>1, CancelEffect
  <2>2. CASE i # id
    BY <1>2, <2>2, CancelEffect
  <2> QED
    BY <2>1, <2>2
<1>3. CASE Restart
  BY <1>3 DEF Restart, Absent
<1>4. CASE LateWrite \/ UNCHANGED vars
  BY <1>4 DEF LateWrite, vars
<1> QED
  BY <1>1, <1>2, <1>3, <1>4 DEF Next

(* A late answer, a timeout, a cancel and a disconnect may race: the first
   outcome recorded is the one that stays. *)
THEOREM OutcomeStays == Spec => OutcomeKept
<1>1. Base /\ [Next]_vars =>
        [\A id \in RequestId :
           requests[id].status \in Outcome =>
             requests'[id].status \in {requests[id].status, "cancel_requested", "absent"}]_vars
  BY OutcomeStep
<1> QED
  BY <1>1, SpecBase, PTL DEF Spec, OutcomeKept

---------------------------------------------------------------------------
LEMMA RunningStep ==
  ASSUME Base, V1RunningIsWorkedOn, [Next]_vars
  PROVE  V1RunningIsWorkedOn'
<1> SUFFICES ASSUME NEW id \in RequestId,
                    requests'[id].status = "running", requests'[id].engine = "v1"
             PROVE  handler'[requests'[id].task].id = id
  BY DEF V1RunningIsWorkedOn, RunningIsWorkedOn, HasTask
<1> DEFINE t == requests[id].task
<1>1. requests'[id] = requests[id] => handler[t].id = id /\ t \in Handler
  BY DEF V1RunningIsWorkedOn, RunningIsWorkedOn, HasTask, Base, Recorded
<1>2. id # None
  BY RequestConstants
<1>3. ASSUME NEW h \in Handler,
             Step(h) \/ ChatArrives(h) \/ ResumeArrives(h) \/ Disconnects(h)
      PROVE  handler'[requests'[id].task].id = id
  <2>1. Moves(h) /\ Others(h)
    BY <1>3, StepShape DEF Shape, Moves, GoesOn, Settles, Leaves, Resumes, Arrives
  <2>2. CASE GoesOn(h)
    BY <1>1, <2>1, <2>2 DEF GoesOn, SameRequest, Others
  <2>3. CASE Settles(h)
    <3>1. handler[h].id # id
      BY <2>3, IdsApart DEF Settles, Outcome, Base, TypeOK, Record
    <3>2. requests'[id] = requests[id]
      BY <2>3, <3>1 DEF Settles, Base, TypeOK
    <3> QED
      BY <1>1, <2>1, <3>1, <3>2 DEF Others
  <2>4. CASE Leaves(h) \/ Resumes(h)
    <3>1. requests' = requests
      BY <2>4 DEF Leaves, Resumes
    <3>2. t # h
      BY <1>1, <1>2, <2>4, <3>1 DEF Leaves, Resumes, Base, Assigned, AssignedTo
    <3> QED
      BY <1>1, <2>1, <3>1, <3>2 DEF Others
  <2>5. CASE Arrives(h)
    <3>1. CASE handler'[h].id = id
      BY <2>5, <3>1 DEF Arrives, Base, TypeOK
    <3>2. CASE handler'[h].id # id
      <4>1. requests'[id] = requests[id]
        BY <2>5, <3>2 DEF Arrives, Base, TypeOK
      <4>2. t # h
        BY <1>1, <1>2, <2>5, <4>1 DEF Arrives
      <4> QED
        BY <1>1, <2>1, <4>1, <4>2 DEF Others
    <3> QED
      BY <3>1, <3>2
  <2> QED
    BY <2>1, <2>2, <2>3, <2>4, <2>5 DEF Moves
<1>4. ASSUME NEW i \in RequestId, Cancel(i)
      PROVE  handler'[requests'[id].task].id = id
  <2>1. i # id
    BY <1>4, CancelEffect
  <2>2. requests'[id] = requests[id]
    BY <1>4, <2>1, CancelEffect
  <2> QED
    BY <1>1, <1>4, <2>2, CancelEffect
<1>5. CASE Restart
  BY <1>5 DEF Restart, Absent
<1>6. CASE LateWrite \/ UNCHANGED vars
  BY <1>1, <1>6 DEF LateWrite, vars
<1> QED
  BY <1>3, <1>4, <1>5, <1>6 DEF Next

(* A V1 request that is reported as running is being worked on: no timeout,
   failure or cancel leaves its record behind. *)
THEOREM V1RunningIsReal == Spec => []V1RunningIsWorkedOn
<1>1. Init => V1RunningIsWorkedOn
  BY DEF Init, V1RunningIsWorkedOn, RunningIsWorkedOn, Absent
<1> QED
  BY <1>1, SpecBase, RunningStep, PTL DEF Spec

---------------------------------------------------------------------------
LEMMA CancelledStep ==
  ASSUME Base, V1CancelledWroteNothing, [Next]_vars
  PROVE  V1CancelledWroteNothing'
<1> SUFFICES ASSUME NEW id \in RequestId,
                    requests'[id].status = "cancelled", requests'[id].engine = "v1"
             PROVE  id \notin wrote' /\ \A w \in late' : w.id # id
  BY DEF V1CancelledWroteNothing, CancelledWroteNothing
<1>1. requests'[id] = requests[id] => id \notin wrote /\ \A w \in late : w.id # id
  BY DEF V1CancelledWroteNothing, CancelledWroteNothing
<1>2. ASSUME NEW h \in Handler,
             Step(h) \/ ChatArrives(h) \/ ResumeArrives(h) \/ Disconnects(h)
      PROVE  id \notin wrote' /\ \A w \in late' : w.id # id
  <2>1. Moves(h) /\ LeavesBehind(h)
    BY <1>2, StepShape DEF Shape
  <2>2. CASE requests'[id] = requests[id]
    <3>1. handler[h].pc = "store" => handler[h].id # id
      BY <2>2 DEF Base, Progress, ProgressOf, Working
    <3> QED
      BY <1>1, <2>1, <2>2, <3>1 DEF LeavesBehind
  <2>3. CASE requests'[id] # requests[id]
    <3>1. Settles(h)
      BY <2>1, <2>3 DEF Moves, GoesOn, Leaves, Resumes, Arrives, Base, TypeOK
    <3>2. handler[h].id = id
      BY <2>3, <3>1 DEF Settles, Base, TypeOK
    <3>3. handler[h].engine = "v1" /\ requests'[id].status = "cancelled"
      <4>1. id # None
        BY RequestConstants
      <4>2. requests'[id].engine = requests[id].engine
        BY <3>1, <3>2 DEF Settles, Base, TypeOK, Record
      <4> QED
        BY <3>2, <4>1, <4>2 DEF Base, Assigned, AssignedTo
    <3>4. handler[h].pc = "agent"
      BY <3>1, <3>2, <3>3 DEF Settles, Base, TypeOK, Record
    <3> QED
      BY <2>1, <3>2, <3>4 DEF LeavesBehind, Base, Progress, ProgressOf, PreStore
  <2> QED
    BY <2>2, <2>3
<1>3. ASSUME NEW i \in RequestId, Cancel(i)
      PROVE  id \notin wrote' /\ \A w \in late' : w.id # id
  <2>1. requests'[id] = requests[id]
    BY <1>3, CancelEffect
  <2> QED
    BY <1>1, <1>3, <2>1 DEF Cancel
<1>4. CASE LateWrite
  BY <1>1, <1>4 DEF LateWrite
<1>5. CASE Restart
  BY <1>5 DEF Restart
<1>6. CASE UNCHANGED vars
  BY <1>1, <1>6 DEF vars
<1> QED
  BY <1>2, <1>3, <1>4, <1>5, <1>6 DEF Next

(* A V1 request recorded as cancelled has not changed its conversation, and no
   worker it left behind will (SPEC-M1 4.3): the cancel is caught around the
   agent only, before there is anything to write. *)
THEOREM V1CancelledSafe == Spec => []V1CancelledWroteNothing
<1>1. Init => V1CancelledWroteNothing
  BY DEF Init, V1CancelledWroteNothing, CancelledWroteNothing
<1> QED
  BY <1>1, SpecBase, CancelledStep, PTL DEF Spec

---------------------------------------------------------------------------
(* What ThreadKeepsProject needs to be inductive: a context under way, or left
   to a worker, is from the project of a thread that is bound. *)
HoldsProject(h) ==
  /\ handler[h].pc \in {"project", "read", "agent", "store"} =>
       handler[h].project = binding[handler[h].thread]
  /\ handler[h].pc \in {"agent", "store"} =>
       Projects(handler[h].write) \subseteq {binding[handler[h].thread]}

ThreadInv ==
  /\ \A th \in Thread :
       /\ context[th].exists => binding[th] # None
       /\ Projects(context[th]) \subseteq {binding[th]}
  /\ \A w \in late :
       binding[w.thread] # None /\ Projects(w.write) \subseteq {binding[w.thread]}
  /\ \A h \in Handler : HoldsProject(h)

LEMMA ThreadInvImplies == ThreadInv => ThreadKeepsProject
  BY DEF ThreadInv, HoldsProject, ThreadKeepsProject

(* What a turn writes is from the projects of what it read, and its own. *)
LEMMA ProjectsAfter ==
  /\ Projects(NoContext) = {} /\ Projects(AfterV1Question) = {}
  /\ \A c \in Context : Projects(c) \subseteq Project
  /\ \A c \in Context, p \in Project :
       /\ Projects(AfterV1(c, p)) \subseteq Projects(c) \cup {p}
       /\ Projects(AfterV2(c, p)) \subseteq Projects(c) \cup {p}
<1>1. Projects(NoContext) = {} /\ Projects(AfterV1Question) = {}
  BY DEF Projects, NoContext, AfterV1Question
<1>2. ASSUME NEW c \in Context PROVE Projects(c) \subseteq Project
  <2>1. c.plan \in Project \cup {None} /\ c.recent \in Seq(Project)
    BY DEF Context
  <2> QED
    BY <2>1 DEF Projects
<1>3. ASSUME NEW c \in Context, NEW p \in Project
      PROVE  /\ Projects(AfterV1(c, p)) \subseteq Projects(c) \cup {p}
             /\ Projects(AfterV2(c, p)) \subseteq Projects(c) \cup {p}
  <2> DEFINE turns == Append(c.recent, p)
             after == IF Len(turns) > MemoryTurns THEN Tail(turns) ELSE turns
  <2>1. c.recent \in Seq(Project) /\ turns \in Seq(Project) /\ turns # << >>
    BY DEF Context
  <2>2. /\ AfterV1(c, p).plan = p /\ AfterV1(c, p).recent = c.recent
        /\ AfterV2(c, p).plan = c.plan /\ AfterV2(c, p).recent = after
    BY DEF AfterV1, AfterV2, Context
  <2>3. \A i \in DOMAIN turns : turns[i] \in {c.recent[j] : j \in DOMAIN c.recent} \cup {p}
    BY <2>1
  <2>4. \A i \in DOMAIN Tail(turns) : i + 1 \in DOMAIN turns /\ Tail(turns)[i] = turns[i + 1]
    BY <2>1
  <2>5. \A i \in DOMAIN after : after[i] \in {c.recent[j] : j \in DOMAIN c.recent} \cup {p}
    BY <2>3, <2>4
  <2> HIDE DEF after
  <2>6. Projects(AfterV1(c, p)) \subseteq Projects(c) \cup {p}
    BY <2>2 DEF Projects
  <2>7. Projects(AfterV2(c, p)) \subseteq Projects(c) \cup {p}
    BY <2>2, <2>5 DEF Projects
  <2> QED
    BY <2>6, <2>7
<1> QED
  BY <1>1, <1>2, <1>3

(* One coroutine's step, by what it does to bindings, contexts and writes. *)
BindingsGrow ==
  \A th \in Thread : binding[th] # None => binding'[th] = binding[th]

LEMMA ThreadMove ==
  ASSUME Base, ThreadInv, NEW h \in Handler, Others(h), BindingsGrow,
         \A th \in Thread :
           \/ context'[th] = context[th]
           \/ binding'[th] # None /\ Projects(context'[th]) \subseteq {binding'[th]},
         \A w \in late' :
           \/ w \in late
           \/ /\ w.thread \in Thread /\ binding[w.thread] # None
              /\ Projects(w.write) \subseteq {binding[w.thread]},
         HoldsProject(h)'
  PROVE  ThreadInv'
<1>1. ASSUME NEW th \in Thread
      PROVE  /\ context'[th].exists => binding'[th] # None
             /\ Projects(context'[th]) \subseteq {binding'[th]}
  <2>1. context[th] \in Context
    BY DEF Base, TypeOK
  <2>2. binding[th] = None => Projects(context[th]) = {}
    BY <2>1, ProjectsAfter, ConversationConstants DEF ThreadInv
  <2>3. CASE context'[th] = context[th]
    BY <2>2, <2>3 DEF ThreadInv, BindingsGrow
  <2>4. CASE context'[th] # context[th]
    BY <2>4
  <2> QED
    BY <2>3, <2>4
<1>2. ASSUME NEW w \in late'
      PROVE  binding'[w.thread] # None /\ Projects(w.write) \subseteq {binding'[w.thread]}
  <2>1. w.thread \in Thread
    BY <1>2 DEF Base, TypeOK
  <2> QED
    BY <1>2, <2>1 DEF ThreadInv, BindingsGrow
<1>3. ASSUME NEW k \in Handler PROVE HoldsProject(k)'
  <2>1. CASE k = h
    BY <2>1
  <2>2. CASE k # h
    <3>1. /\ handler'[k] = handler[k] /\ handler[k].thread \in Thread
          /\ handler[k].project \in Project
      BY <2>2 DEF Others, Base, TypeOK, Coroutine
    <3>2. HoldsProject(k)
      BY DEF ThreadInv
    <3> QED
      BY <3>1, <3>2, ConversationConstants DEF HoldsProject, BindingsGrow
  <2> QED
    BY <2>1, <2>2
<1> QED
  BY <1>1, <1>2, <1>3 DEF ThreadInv

(* The same for a step that leaves the stores and the late writes alone. *)
LEMMA ThreadStays ==
  ASSUME Base, ThreadInv, NEW h \in Handler, Others(h),
         UNCHANGED <<late, binding, context>>, HoldsProject(h)'
  PROVE  ThreadInv'
  BY ThreadMove DEF BindingsGrow

LEMMA BindGrows ==
  ASSUME Base, NEW th \in Thread, NEW p \in Project, BindProject(th, p)
  PROVE  BindingsGrow /\ binding'[th] = Bound(th, p)
  BY DEF BindingsGrow, BindProject, Bound, Base, TypeOK

LEMMA IdleHolds == \A h \in Handler : handler'[h] = Idle => HoldsProject(h)'
  BY IdleTyped DEF HoldsProject

(* An abandoned write is of the thread's project. *)
LEMMA AbandonedHolds ==
  ASSUME Base, ThreadInv, NEW h \in Handler, Abandons(h)
  PROVE  \A w \in late' :
           \/ w \in late
           \/ /\ w.thread \in Thread /\ binding[w.thread] # None
              /\ Projects(w.write) \subseteq {binding[w.thread]}
<1> DEFINE c == handler[h]
           w == [id |-> c.id, thread |-> c.thread, write |-> c.write]
<1>1. CASE c.job = "queued"
  <2>1. c \in Coroutine /\ c.pc = "store"
    BY <1>1, WorkingFacts
  <2>2. c.thread \in Thread /\ c.project \in Project
    BY <2>1 DEF Coroutine
  <2>3. HoldsProject(h)
    BY DEF ThreadInv
  <2>4. binding[c.thread] # None /\ Projects(c.write) \subseteq {binding[c.thread]}
    BY <2>1, <2>2, <2>3, ConversationConstants DEF HoldsProject
  <2>5. late' = late \/ late' = late \cup {w}
    BY <1>1 DEF Abandons
  <2> QED
    BY <2>2, <2>4, <2>5
<1>2. CASE c.job # "queued"
  BY <1>2 DEF Abandons
<1> QED
  BY <1>1, <1>2

(* A request starts with nothing read; its project is not compared yet. *)
LEMMA StartHolds ==
  ASSUME NEW h \in Handler, handler'[h].pc \in {"bind", "resume", "audit", "send"}
  PROVE  HoldsProject(h)'
  BY DEF HoldsProject

LEMMA GotoKeeps ==
  ASSUME Base, NEW h \in Handler, NEW pc \in {"project", "read", "store", "audit", "send"},
         Goto(h, pc)
  PROVE  /\ Others(h)
         /\ handler'[h].pc = pc
         /\ handler'[h].thread = handler[h].thread
         /\ handler'[h].project = handler[h].project
         /\ handler'[h].write = handler[h].write
<1>1. handler[h] \in Coroutine
  BY DEF Base, TypeOK
<1>2. handler'[h] = [handler[h] EXCEPT !.pc = pc]
  BY DEF Goto, Base, TypeOK
<1> QED
  BY <1>1, <1>2, GotoEffect DEF Base, TypeOK, Coroutine

(* A call that arrives waits for its binding. *)
LEMMA ArrivalAwaits ==
  ASSUME Base, NEW h \in Handler, ChatArrives(h) \/ ResumeArrives(h) \/ ResumeBinds(h)
  PROVE  handler'[h] = Idle \/ handler'[h].pc \in {"bind", "resume"}
<1>1. ASSUME NEW id \in RequestId, NEW th \in Thread, NEW p, NEW e, Register(h, id, th, p, e)
      PROVE  handler'[h].pc = "bind"
  BY <1>1, IdleTyped DEF Register, Coroutine, Base, TypeOK
<1>2. CASE ChatArrives(h)
  BY <1>1, <1>2 DEF ChatArrives
<1>3. CASE ResumeArrives(h)
  <2>1. PICK th \in Thread : handler' = [handler EXCEPT ![h] =
          [Idle EXCEPT !.pc = "resume", !.thread = th]]
    BY <1>3 DEF ResumeArrives
  <2>2. [Idle EXCEPT !.pc = "resume", !.thread = th].pc = "resume"
    BY IdleTyped DEF Coroutine
  <2> QED
    BY <2>1, <2>2 DEF Base, TypeOK
<1>4. CASE ResumeBinds(h)
  <2>1. handler[h].thread \in Thread
    BY DEF Base, TypeOK, Coroutine
  <2> QED
    BY <1>1, <1>4, <2>1, ReturnEffect DEF ResumeBinds, Base, TypeOK
<1> QED
  BY <1>2, <1>3, <1>4

LEMMA PlainThread ==
  ASSUME Base, ThreadInv, NEW h \in Handler,
         \/ ChatArrives(h) \/ ResumeArrives(h) \/ Refused(h) \/ ProjectTimesOut(h)
         \/ Raises(h) \/ AgentFails(h) \/ Completes(h) \/ Ends(h)
  PROVE  ThreadInv'
<1>1. UNCHANGED <<late, binding, context>>
  BY DEF ChatArrives, ResumeArrives, Refused, ProjectTimesOut, Raises, AgentFails,
         Completes, Ends, stores
<1>2. Moves(h)
  BY StepShape DEF Shape, Step
<1>3. handler'[h] = Idle \/ handler'[h].pc \in {"bind", "resume", "audit", "send"}
  <2>1. CASE ChatArrives(h) \/ ResumeArrives(h)
    BY <2>1, ArrivalAwaits
  <2>3. Return(h) => handler'[h] = Idle
    BY ReturnEffect DEF Base, TypeOK
  <2>4. \A pc \in {"audit", "send"} : Goto(h, pc) => handler'[h].pc = pc
    BY GotoKeeps
  <2>5. CASE Refused(h) \/ ProjectTimesOut(h) \/ Raises(h) \/ Completes(h) \/ Ends(h)
    BY <2>3, <2>4, <2>5 DEF Refused, ProjectTimesOut, Raises, Completes, Ends
  <2>6. CASE AgentFails(h)
    <3>1. Goto(h, "send") \/ Goto(h, "audit") \/ Return(h)
      BY <2>6 DEF AgentFails
    <3> QED
      BY <2>3, <2>4, <3>1
  <2> QED
    BY <2>1, <2>5, <2>6
<1>4. Others(h)
  BY <1>2 DEF Moves, GoesOn, Settles, Leaves, Resumes, Arrives
<1> QED
  BY <1>1, <1>3, <1>4, ThreadStays, IdleHolds, StartHolds

LEMMA BindsThread ==
  ASSUME Base, ThreadInv, NEW h \in Handler, Binds(h)
  PROVE  ThreadInv'
<1> DEFINE th == handler[h].thread
           p == handler[h].project
<1>1. th \in Thread /\ p \in Project
  BY DEF Base, TypeOK, Coroutine
<1>2. BindingsGrow /\ binding'[th] = Bound(th, p)
  BY <1>1, BindGrows DEF Binds
<1>3. Others(h) /\ HoldsProject(h)'
  <2>1. CASE Bound(th, p) = p
    <3>1. Goto(h, "project")
      BY <2>1 DEF Binds
    <3>2. /\ Others(h) /\ handler'[h].pc = "project"
          /\ handler'[h].thread = th /\ handler'[h].project = p
      BY <3>1, GotoKeeps
    <3> QED
      BY <1>2, <2>1, <3>2 DEF HoldsProject
  <2>2. CASE Bound(th, p) # p
    BY <2>2, ReturnEffect, IdleHolds DEF Binds, Base, TypeOK
  <2> QED
    BY <2>1, <2>2
<1>4. late' = late /\ context' = context
  BY DEF Binds
<1> QED
  BY <1>2, <1>3, <1>4, ThreadMove

LEMMA ResumeBindsThread ==
  ASSUME Base, ThreadInv, NEW h \in Handler, ResumeBinds(h)
  PROVE  ThreadInv'
<1>1. handler[h].thread \in Thread
  BY DEF Base, TypeOK, Coroutine
<1>2. BindingsGrow
  BY <1>1, BindGrows, RequestConstants DEF ResumeBinds
<1>3. Others(h)
  BY StepShape DEF Step, Shape, Moves, GoesOn, Settles, Leaves, Resumes, Arrives
<1>4. handler'[h] = Idle \/ handler'[h].pc \in {"bind", "resume"}
  BY ArrivalAwaits
<1>5. late' = late /\ context' = context
  BY DEF ResumeBinds
<1> QED
  BY <1>2, <1>3, <1>4, <1>5, IdleHolds, StartHolds, ThreadMove

LEMMA ReadThread ==
  ASSUME Base, ThreadInv, NEW h \in Handler,
         ProjectLoads(h) \/ ReadsContext(h) \/ Declines(h)
  PROVE  ThreadInv'
<1>1. HoldsProject(h) /\ handler[h] \in Coroutine
  BY DEF ThreadInv, Base, TypeOK
<1>2. UNCHANGED <<late, binding, context>>
  BY DEF ProjectLoads, ReadsContext, Declines, stores
<1>3. CASE ProjectLoads(h)
  <2>1. /\ Others(h) /\ handler'[h].pc = "read"
        /\ handler'[h].thread = handler[h].thread
        /\ handler'[h].project = handler[h].project
    BY <1>3, GotoKeeps DEF ProjectLoads
  <2>2. HoldsProject(h)'
    BY <1>1, <1>2, <1>3, <2>1 DEF HoldsProject, ProjectLoads, Awaits
  <2> QED
    BY <1>2, <2>1, <2>2, ThreadStays
<1>4. CASE ReadsContext(h)
  <2> DEFINE th == handler[h].thread
  <2>1. /\ handler'[h].pc = "agent" /\ handler'[h].thread = th
        /\ handler'[h].project = handler[h].project
        /\ handler'[h].write = context[th]
    BY <1>1, <1>4 DEF ReadsContext, Base, TypeOK, Coroutine
  <2>2. th \in Thread
    BY <1>1 DEF Coroutine
  <2>3. HoldsProject(h)'
    BY <1>1, <1>2, <1>4, <2>1, <2>2 DEF HoldsProject, ThreadInv, ReadsContext, Awaits
  <2>4. Others(h)
    BY <1>4, ReadsContextShape DEF Shape, Moves, GoesOn, Settles, Leaves, Resumes, Arrives
  <2> QED
    BY <1>2, <2>3, <2>4, ThreadStays
<1>5. CASE Declines(h)
  <2>1. CASE Return(h)
    BY <1>2, <2>1, ReturnEffect, IdleHolds, ThreadStays DEF Base, TypeOK
  <2>2. CASE Goto(h, "store")
    <3>1. /\ Others(h) /\ handler'[h].pc = "store"
          /\ handler'[h].thread = handler[h].thread
          /\ handler'[h].project = handler[h].project
          /\ handler'[h].write = handler[h].write
      BY <2>2, GotoKeeps
    <3>2. HoldsProject(h)'
      BY <1>1, <1>2, <1>5, <3>1 DEF HoldsProject, Declines, Awaits
    <3> QED
      BY <1>2, <3>1, <3>2, ThreadStays
  <2> QED
    BY <1>5, <2>1, <2>2 DEF Declines
<1> QED
  BY <1>3, <1>4, <1>5

LEMMA AnswersThread ==
  ASSUME Base, ThreadInv, NEW h \in Handler, Answers(h)
  PROVE  ThreadInv'
<1> DEFINE c == handler[h]
<1>1. c \in Coroutine /\ HoldsProject(h) /\ c.pc = "agent"
  BY DEF ThreadInv, Base, TypeOK, Answers, Awaits
<1>2. c.write \in Context /\ c.project \in Project
  BY <1>1 DEF Coroutine
<1>3. PICK new \in {AfterV2(c.write, c.project), AfterV1(c.write, c.project), AfterV1Question} :
        handler' = [handler EXCEPT ![h].pc = "store", ![h].write = new, ![h].job = "queued"]
  BY DEF Answers
<1>4. Projects(new) \subseteq {binding[c.thread]}
  <2>1. Projects(c.write) \cup {c.project} \subseteq {binding[c.thread]}
    BY <1>1 DEF HoldsProject
  <2> QED
    BY <1>2, <2>1, ProjectsAfter
<1>5. /\ handler'[h].pc = "store" /\ handler'[h].thread = c.thread
      /\ handler'[h].project = c.project /\ handler'[h].write = new
  BY <1>1, <1>3 DEF Base, TypeOK, Coroutine
<1>6. UNCHANGED <<late, binding, context>>
  BY DEF Answers, stores
<1>7. HoldsProject(h)'
  BY <1>1, <1>4, <1>5, <1>6 DEF HoldsProject
<1>8. Others(h)
  BY AnswersShape DEF Shape, Moves, GoesOn, Settles, Leaves, Resumes, Arrives
<1> QED
  BY <1>6, <1>7, <1>8, ThreadStays

LEMMA StoreThread ==
  ASSUME Base, ThreadInv, NEW h \in Handler, StoreWrites(h) \/ StoreFails(h) \/ Disconnects(h)
  PROVE  ThreadInv'
<1> DEFINE c == handler[h]
<1>1. c \in Coroutine /\ HoldsProject(h)
  BY DEF ThreadInv, Base, TypeOK
<1>2. Others(h)
  BY StoreWritesShape, StoreFailsShape, DisconnectsShape
  DEF Shape, Moves, GoesOn, Settles, Leaves, Resumes, Arrives
<1>3. /\ handler'[h].pc = c.pc /\ handler'[h].thread = c.thread
      /\ handler'[h].project = c.project /\ handler'[h].write = c.write
  BY <1>1 DEF StoreWrites, StoreFails, Disconnects, Base, TypeOK, Coroutine
<1>4. late' = late /\ binding' = binding
  BY DEF StoreWrites, StoreFails, Disconnects, stores
<1>5. HoldsProject(h)'
  BY <1>1, <1>3, <1>4 DEF HoldsProject
<1>6. \A th \in Thread :
        \/ context'[th] = context[th]
        \/ binding'[th] # None /\ Projects(context'[th]) \subseteq {binding'[th]}
  <2>1. CASE StoreWrites(h)
    <3>1. c.thread \in Thread /\ c.project \in Project /\ c.pc = "store"
      BY <1>1, <2>1 DEF Coroutine, StoreWrites
    <3>2. binding[c.thread] # None /\ Projects(c.write) \subseteq {binding[c.thread]}
      BY <1>1, <3>1, ConversationConstants DEF HoldsProject
    <3>3. \A th \in Thread :
            context'[th] = IF th = c.thread THEN c.write ELSE context[th]
      BY <2>1 DEF StoreWrites, SetContext, Base, TypeOK
    <3> QED
      BY <1>4, <3>2, <3>3
  <2>2. CASE StoreFails(h) \/ Disconnects(h)
    BY <2>2 DEF StoreFails, Disconnects, stores
  <2> QED
    BY <2>1, <2>2
<1> QED
  BY <1>2, <1>4, <1>5, <1>6, ThreadMove DEF BindingsGrow

LEMMA CancelledThread ==
  ASSUME Base, ThreadInv, NEW h \in Handler, CancelCaught(h) \/ CancelEscapes(h)
  PROVE  ThreadInv'
<1>1. Others(h)
  BY CancelCaughtShape, CancelEscapesShape
  DEF Shape, Moves, GoesOn, Settles, Leaves, Resumes, Arrives
<1>2. handler'[h] = Idle \/ handler'[h].pc = "audit"
  <2>1. Return(h) => handler'[h] = Idle
    BY ReturnEffect DEF Base, TypeOK
  <2>2. CASE CancelCaught(h) /\ handler[h].engine = "v1"
    <3>1. handler' = [handler EXCEPT ![h].pc = "audit", ![h].cancelled = FALSE]
      BY <2>2 DEF CancelCaught
    <3>2. handler[h] \in Coroutine
      BY DEF Base, TypeOK
    <3> QED
      BY <3>1, <3>2 DEF Base, TypeOK, Coroutine
  <2> QED
    BY <2>1, <2>2 DEF CancelCaught, CancelEscapes
<1>3. HoldsProject(h)'
  BY <1>2, IdleHolds, StartHolds
<1>4. BindingsGrow
  <2>1. handler[h].thread \in Thread /\ handler[h].project \in Project
    BY DEF Base, TypeOK, Coroutine
  <2>2. CASE BindProject(handler[h].thread, handler[h].project)
    BY <2>1, <2>2, BindGrows
  <2>3. CASE binding' = binding
    BY <2>3 DEF BindingsGrow
  <2> QED
    BY <2>2, <2>3 DEF CancelCaught, CancelEscapes, stores
<1>5. context' = context
  BY DEF CancelCaught, CancelEscapes, stores
<1>6. Abandons(h)
  BY DEF CancelCaught, CancelEscapes
<1> QED
  BY <1>1, <1>3, <1>4, <1>5, <1>6, AbandonedHolds, ThreadMove

LEMMA LateWriteThread == ASSUME Base, ThreadInv, LateWrite PROVE ThreadInv'
<1>1. PICK w \in late : /\ SetContext(w.thread, w.write)
                        /\ late' = late \ {w}
                        /\ UNCHANGED <<handler, requests, binding>>
  BY DEF LateWrite
<1>2. binding[w.thread] # None /\ Projects(w.write) \subseteq {binding[w.thread]}
  BY DEF ThreadInv
<1>3. \A th \in Thread :
        context'[th] = IF th = w.thread THEN w.write ELSE context[th]
  BY <1>1 DEF SetContext, Base, TypeOK
<1>4. \A h \in Handler : HoldsProject(h)'
  BY <1>1 DEF ThreadInv, HoldsProject
<1> QED
  BY <1>1, <1>2, <1>3, <1>4 DEF ThreadInv

LEMMA RestartThread == ASSUME Base, ThreadInv, Restart PROVE ThreadInv'
<1>1. \A h \in Handler : HoldsProject(h)'
  BY IdleHolds DEF Restart
<1>2. late' = {}
  BY DEF Restart
<1>3. CASE UNCHANGED stores
  BY <1>1, <1>2, <1>3 DEF ThreadInv, stores
<1>4. CASE binding' = Unbound /\ context' = Forgotten
  <2>1. \A th \in Thread : ~context'[th].exists /\ Projects(context'[th]) = {}
    BY <1>4, ProjectsAfter DEF Forgotten, NoContext
  <2> QED
    BY <1>1, <1>2, <2>1 DEF ThreadInv
<1> QED
  BY <1>3, <1>4 DEF Restart, StoresRestart

LEMMA ThreadStep == ASSUME Base, ThreadInv, [Next]_vars PROVE ThreadInv'
<1>1. ASSUME NEW h \in Handler,
             Step(h) \/ ChatArrives(h) \/ ResumeArrives(h) \/ Disconnects(h)
      PROVE  ThreadInv'
  BY <1>1, PlainThread, BindsThread, ResumeBindsThread, ReadThread, AnswersThread,
     StoreThread, CancelledThread
  DEF Step
<1>2. ASSUME NEW id \in RequestId, Cancel(id)
      PROVE  ThreadInv'
  <2>1. \A h \in Handler :
          /\ handler'[h].pc = handler[h].pc /\ handler'[h].thread = handler[h].thread
          /\ handler'[h].project = handler[h].project /\ handler'[h].write = handler[h].write
    BY <1>2, CancelEffect
  <2>2. UNCHANGED <<late, binding, context>>
    BY <1>2 DEF Cancel, stores
  <2> QED
    BY <2>1, <2>2 DEF ThreadInv, HoldsProject
<1>3. CASE UNCHANGED vars
  BY <1>3 DEF vars, ThreadInv, HoldsProject
<1> QED
  BY <1>1, <1>2, <1>3, LateWriteThread, RestartThread DEF Next

(* A thread never mixes projects: bind_project's atomic claim and the mismatch
   check suffice, whatever is raced, retried, resumed, abandoned or restarted. *)
THEOREM ThreadSafe == Spec => []ThreadKeepsProject
<1>1. Init => ThreadInv
  <2>1. ASSUME Init PROVE \A th \in Thread : ~context[th].exists /\ Projects(context[th]) = {}
    BY <2>1, ProjectsAfter DEF Init, StoresInit, Forgotten, NoContext
  <2> QED
    BY <2>1, IdleTyped DEF Init, ThreadInv, HoldsProject
<1> QED
  BY <1>1, SpecBase, ThreadStep, ThreadInvImplies, PTL DEF Spec
=============================================================================
