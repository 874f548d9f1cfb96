---------------------------- MODULE ChatRequests ----------------------------
(***************************************************************************)
(* The life of a chat request (apps/api/app/main.py): the handlers of the  *)
(* two engines, chat (V1, one JSON answer) and _chat_v2 with               *)
(* _v2_sse_stream (V2, a stream), resume, and the table app.state.requests *)
(* through which another call may cancel a request or ask for its status.  *)
(*                                                                         *)
(* The handlers are coroutines of one event loop: a step is what runs      *)
(* between two awaits.  What is handed to asyncio.to_thread runs on a      *)
(* worker thread that a cancelled or timed out await does not stop.        *)
(***************************************************************************)
EXTENDS ConversationStore

CONSTANTS Handler,         \* coroutines: requests served at the same time
          RequestId,       \* bound: request ids between two restarts
          Demo             \* the project "demo"

ASSUME RequestConstants == Demo \in Project /\ None \notin RequestId

VARIABLES handler,         \* each coroutine and the request it serves
          requests,        \* app.state.requests
          late,            \* context writes an abandoned worker may still do
          wrote            \* the requests that have written a context

vars == <<handler, requests, late, wrote, binding, context>>

(* pc names what the coroutine awaits: the binding, the project, the context,
   the agent (V1) or its stream (V2), the store calls after the answer, the
   audit of a cancel or timeout (V1), or the sending of the end (V2).  `write`
   is first the context it read, then the one it is to write. *)
Coroutine == [pc : {"idle", "resume", "bind", "project", "read", "agent",
                    "store", "audit", "send"},
              id : RequestId \cup {None}, thread : Thread, project : Project,
              engine : {"v1", "v2"}, write : Context,
              job : {"none", "queued", "done"}, cancelled : BOOLEAN]

Idle == [pc |-> "idle", id |-> None, thread |-> CHOOSE th \in Thread : TRUE,
         project |-> Demo, engine |-> "v1", write |-> NoContext,
         job |-> "none", cancelled |-> FALSE]

Outcome == {"completed", "error", "timeout", "cancelled"}
Record  == [status : Outcome \cup {"absent", "running", "cancel_requested"},
            task : Handler \cup {None}, engine : {"v1", "v2"}]
Absent  == [status |-> "absent", task |-> None, engine |-> "v1"]

Init ==
  /\ StoresInit
  /\ handler = [h \in Handler |-> Idle]
  /\ requests = [id \in RequestId |-> Absent]
  /\ late = {}
  /\ wrote = {}

(* After task.cancel() the next step of the coroutine raises CancelledError.
   A stream runs in a child of the task that was cancelled, and may take
   further steps before the cancellation reaches it. *)
Streams(h) == handler[h].engine = "v2" /\ handler[h].pc \in {"agent", "store", "send"}
Awaits(h, pc) == handler[h].pc = pc /\ (handler[h].cancelled => Streams(h))

Goto(h, pc)     == handler' = [handler EXCEPT ![h].pc = pc]
Return(h)       == handler' = [handler EXCEPT ![h] = Idle]
SetStatus(h, s) == requests' = [requests EXCEPT ![handler[h].id].status = s]

---------------------------------------------------------------------------
(* Registration: a request_id that is in the table is refused (409); the check
   and the write are one step of the event loop. *)
RegisterAnyway(h, id, th, p, e) ==   \* mutant: the check dropped
  /\ requests' = [requests EXCEPT ![id] =
       [status |-> "running", task |-> h, engine |-> e]]
  /\ handler' = [handler EXCEPT ![h] =
       [Idle EXCEPT !.pc = "bind", !.id = id, !.thread = th, !.project = p,
                    !.engine = e]]
Register(h, id, th, p, e) ==
  /\ requests[id].status = "absent"
  /\ requests' = [requests EXCEPT ![id] =
       [status |-> "running", task |-> h, engine |-> e]]
  /\ handler' = [handler EXCEPT ![h] =
       [Idle EXCEPT !.pc = "bind", !.id = id, !.thread = th, !.project = p,
                    !.engine = e]]

ChatArrives(h) ==
  /\ handler[h].pc = "idle"
  /\ \E id \in RequestId, th \in Thread, p \in Project, e \in {"v1", "v2"} :
       Register(h, id, th, p, e)
  /\ UNCHANGED <<late, wrote, stores>>

(* resume: only a thread with a context; then the thread's own project, and
   never the one the caller names, goes into an ordinary V1 request. *)
ResumeArrives(h) ==
  /\ handler[h].pc = "idle"
  /\ \E th \in Thread :
       /\ context[th].exists
       /\ handler' = [handler EXCEPT ![h] =
            [Idle EXCEPT !.pc = "resume", !.thread = th]]
  /\ UNCHANGED <<requests, late, wrote, stores>>

ResumeBinds(h) ==
  LET th == handler[h].thread
  IN /\ handler[h].pc = "resume"
     /\ BindProject(th, Demo)
     /\ \/ \E id \in RequestId : Register(h, id, th, Bound(th, Demo), "v1")
        \/ Return(h) /\ UNCHANGED requests      \* it named another one: 409
     /\ UNCHANGED <<late, wrote, context>>

---------------------------------------------------------------------------
(* The steps both engines share. *)
BindIgnored(h) ==                 \* mutant: the answer of bind_project unused
  /\ Awaits(h, "bind")
  /\ BindProject(handler[h].thread, handler[h].project)
  /\ Goto(h, "project")
  /\ UNCHANGED <<requests, late, wrote, context>>

Binds(h) ==
  LET c == handler[h]
  IN /\ Awaits(h, "bind")
     /\ BindProject(c.thread, c.project)
     /\ IF Bound(c.thread, c.project) = c.project
          THEN Goto(h, "project") /\ UNCHANGED requests
          ELSE Return(h) /\ SetStatus(h, "error")      \* project_mismatch: 409
     /\ UNCHANGED <<late, wrote, context>>

ProjectLoads(h) ==
  /\ Awaits(h, "project")
  /\ Goto(h, "read")
  /\ UNCHANGED <<requests, late, wrote, stores>>

ReadsContext(h) ==
  /\ Awaits(h, "read")
  /\ handler' = [handler EXCEPT ![h].pc = "agent",
                                ![h].write = context[handler[h].thread]]
  /\ UNCHANGED <<requests, late, wrote, stores>>

(* project_bind_error, project_not_found, context_read_error, and the guards
   of a V2 request about a finding. *)
Refused(h) ==
  /\ \E pc \in {"bind", "project", "read"} : Awaits(h, pc)
  /\ SetStatus(h, "error")
  /\ Return(h)
  /\ UNCHANGED <<late, wrote, stores>>

StageAsStatus(h) ==               \* mutant: stage and status mixed up
  /\ Awaits(h, "project")
  /\ SetStatus(h, "project_load_timeout")
  /\ Return(h)
  /\ UNCHANGED <<late, wrote, stores>>

ProjectTimesOut(h) ==
  /\ Awaits(h, "project")
  /\ SetStatus(h, "timeout")
  /\ IF handler[h].engine = "v1" THEN Goto(h, "audit") ELSE Return(h)
  /\ UNCHANGED <<late, wrote, stores>>

V1RaisesToo(h) ==                 \* mutant: chat without `except Exception`
  /\ Awaits(h, "project")
  /\ Return(h)
  /\ UNCHANGED <<requests, late, wrote, stores>>

(* The load of the project raises: V1 records the error.  V2 has no branch for
   it, nor for the read of the finding the request is about, and the exception
   leaves the handler. *)
Raises(h) ==
  /\ \/ Awaits(h, "project")
     \/ Awaits(h, "read") /\ handler[h].engine = "v2"
  /\ IF handler[h].engine = "v1" THEN SetStatus(h, "error") ELSE UNCHANGED requests
  /\ Return(h)
  /\ UNCHANGED <<late, wrote, stores>>

---------------------------------------------------------------------------
(* The agent.  An answer or a question back goes on to the context's write. *)
Answers(h) ==
  LET c == handler[h]
  IN /\ Awaits(h, "agent")
     /\ \E new \in IF c.engine = "v2" THEN {AfterV2(c.write, c.project)}
                   ELSE {AfterV1(c.write, c.project), AfterV1Question} :
          handler' = [handler EXCEPT ![h].pc = "store", ![h].write = new,
                                     ![h].job = "queued"]
     /\ UNCHANGED <<requests, late, wrote, stores>>

(* Any other disposition writes no context.  V1 completes; V2 may still store
   a proposal for a finding. *)
Declines(h) ==
  /\ Awaits(h, "agent")
  /\ IF handler[h].engine = "v1"
       THEN SetStatus(h, "completed") /\ Return(h)
       ELSE Goto(h, "store") /\ UNCHANGED requests
  /\ UNCHANGED <<late, wrote, stores>>

TimeoutNotRecorded(h) ==          \* mutant: the deadline leaves the record alone
  /\ Awaits(h, "agent")
  /\ IF handler[h].engine = "v2" THEN Goto(h, "send") ELSE Goto(h, "audit")
  /\ UNCHANGED <<requests, late, wrote, stores>>

(* An exception or the deadline; V2 also ends a turn whose record says that a
   cancel was requested (cancel_check). *)
AgentFails(h) ==
  /\ Awaits(h, "agent")
  /\ \E s \in {"error", "timeout", "cancelled"} :
       /\ s = "cancelled" => /\ handler[h].engine = "v2"
                             /\ requests[handler[h].id].status = "cancel_requested"
       /\ SetStatus(h, s)
       /\ CASE handler[h].engine = "v2" -> Goto(h, "send")
            [] handler[h].engine # "v2" /\ s = "timeout" -> Goto(h, "audit")
            [] OTHER -> Return(h)
  /\ UNCHANGED <<late, wrote, stores>>

(* The worker thread performs conversations.set ... *)
StoreWrites(h) ==
  LET c == handler[h]
  IN /\ c.pc = "store" /\ c.job = "queued"
     /\ SetContext(c.thread, c.write)
     /\ wrote' = wrote \cup {c.id}
     /\ handler' = [handler EXCEPT ![h].job = "done"]
     /\ UNCHANGED <<requests, late, binding>>

(* ... or it raises, which only adds context_persist_error to the answer. *)
StoreFails(h) ==
  /\ handler[h].pc = "store" /\ handler[h].job = "queued"
  /\ handler' = [handler EXCEPT ![h].job = "none"]
  /\ UNCHANGED <<requests, late, wrote, stores>>

(* The record is completed after every store call, and before V2 sends. *)
Completes(h) ==
  /\ Awaits(h, "store") /\ handler[h].job # "queued"
  /\ SetStatus(h, "completed")
  /\ IF handler[h].engine = "v1" THEN Return(h) ELSE Goto(h, "send")
  /\ UNCHANGED <<late, wrote, stores>>

CompletesLate(h) ==               \* mutant: the record completed at the end
  /\ Awaits(h, "audit") \/ Awaits(h, "send")
  /\ SetStatus(h, "completed")
  /\ Return(h)
  /\ UNCHANGED <<late, wrote, stores>>

(* The audit of a cancel or a timeout is written, or the end is sent. *)
Ends(h) ==
  /\ Awaits(h, "audit") \/ Awaits(h, "send")
  /\ Return(h)
  /\ UNCHANGED <<requests, late, wrote, stores>>

---------------------------------------------------------------------------
(* cancel_request, called by the request's own session (others get 404): the
   status is overwritten, whatever it is, and a live task is cancelled. *)
Cancel(id) ==
  LET r == requests[id]
  IN /\ r.status # "absent"
     /\ requests' = [requests EXCEPT ![id].status = "cancel_requested"]
     /\ handler' = IF handler[r.task].id = id
                     THEN [handler EXCEPT ![r.task].cancelled = TRUE]
                     ELSE handler
     /\ UNCHANGED <<late, wrote, stores>>

(* The client of a stream goes away: the server cancels the stream. *)
Disconnects(h) ==
  /\ Streams(h) /\ ~handler[h].cancelled
  /\ handler' = [handler EXCEPT ![h].cancelled = TRUE]
  /\ UNCHANGED <<requests, late, wrote, stores>>

(* A context write the coroutine no longer waits for: it is dropped if no
   worker had begun it, and otherwise still happens. *)
Abandons(h) ==
  LET c == handler[h]
  IN late' \in {late} \cup
       (IF c.job = "queued"
          THEN {late \cup {[id |-> c.id, thread |-> c.thread, write |-> c.write]}}
          ELSE {})

LateWrite ==
  \E w \in late :
    /\ SetContext(w.thread, w.write)
    /\ wrote' = wrote \cup {w.id}
    /\ late' = late \ {w}
    /\ UNCHANGED <<handler, requests, binding>>

CatchesWhileStoring(h) ==         \* mutant: V1's try covers the store call too
  /\ handler[h].cancelled
  /\ handler[h].pc \in {"agent", "store"}
  /\ SetStatus(h, "cancelled")
  /\ IF handler[h].engine = "v1" THEN Goto(h, "audit") ELSE Return(h)
  /\ Abandons(h)
  /\ UNCHANGED <<wrote, stores>>

(* CancelledError where the code catches it: V1 around the agent, V2 inside
   the stream. *)
CancelCaught(h) ==
  /\ handler[h].cancelled
  /\ \/ handler[h].pc = "agent"
     \/ handler[h].pc = "store" /\ handler[h].engine = "v2"
  /\ SetStatus(h, "cancelled")
  /\ IF handler[h].engine = "v1"
       THEN handler' = [handler EXCEPT ![h].pc = "audit", ![h].cancelled = FALSE]
       ELSE Return(h)
  /\ Abandons(h)
  /\ UNCHANGED <<wrote, stores>>

(* CancelledError where it does not: `except Exception` lets it pass, and a
   stream suspended at a `yield` never sees it.  A binding that a worker had
   begun is still made. *)
CancelEscapes(h) ==
  LET c == handler[h]
  IN /\ c.cancelled
     /\ \/ c.pc \in {"bind", "project", "read", "audit", "send"}
        \/ c.pc = "store" /\ c.engine = "v1"
        \/ c.pc = "agent" /\ c.engine = "v2"
     /\ Return(h)
     /\ Abandons(h)
     /\ \/ UNCHANGED binding
        \/ c.pc = "bind" /\ BindProject(c.thread, c.project)
     /\ UNCHANGED <<requests, wrote, context>>

(* The process restarts: the table and the coroutines are gone. *)
Restart ==
  /\ handler' = [h \in Handler |-> Idle]
  /\ requests' = [id \in RequestId |-> Absent]
  /\ late' = {}
  /\ wrote' = {}
  /\ StoresRestart

Step(h) ==
  \/ ResumeBinds(h) \/ Binds(h) \/ ProjectLoads(h) \/ ReadsContext(h)
  \/ Refused(h) \/ ProjectTimesOut(h) \/ Raises(h)
  \/ Answers(h) \/ Declines(h) \/ AgentFails(h)
  \/ StoreWrites(h) \/ StoreFails(h) \/ Completes(h) \/ Ends(h)
  \/ CancelCaught(h) \/ CancelEscapes(h)

Next ==
  \/ \E h \in Handler :
       Step(h) \/ ChatArrives(h) \/ ResumeArrives(h) \/ Disconnects(h)
  \/ \E id \in RequestId : Cancel(id)
  \/ LateWrite
  \/ Restart

(* Every await of a handler ends: the project's and the agent's have a
   deadline, and a store call returns or raises.  No fairness is assumed of
   clients, of restarts or of abandoned workers. *)
Fairness == \A h \in Handler : WF_vars(Step(h))

Spec == Init /\ [][Next]_vars /\ Fairness

---------------------------------------------------------------------------
(* Type invariant. *)
TypeOK ==
  /\ handler \in [Handler -> Coroutine]
  /\ requests \in [RequestId -> Record]
  /\ late \subseteq [id : RequestId, thread : Thread, write : Context]
  /\ wrote \subseteq RequestId
  /\ binding \in [Thread -> Project \cup {None}]
  /\ context \in [Thread -> Context]

(* Past its registration a coroutine's record is its own: no other request
   took its id, so a status query or a cancel by id reaches this request and
   not another one (the check of chat and _chat_v2 before the first await). *)
RecordIsOwn ==
  \A h \in Handler :
    handler[h].id # None =>
      /\ requests[handler[h].id].status # "absent"
      /\ requests[handler[h].id].task = h

Projects(c) == (IF c.plan = None THEN {} ELSE {c.plan}) \cup
               {c.recent[i] : i \in DOMAIN c.recent}

(* A thread never mixes projects: whatever requests raced for it, whatever was
   retried, resumed, abandoned or restarted, every remembered turn was answered
   from the project the thread is bound to (bind_project and the mismatch
   check; resume relies on a context implying a binding). *)
ThreadKeepsProject ==
  /\ \A th \in Thread :
       /\ context[th].exists => binding[th] # None
       /\ Projects(context[th]) \subseteq {binding[th]}
  /\ \A w \in late : Projects(w.write) \subseteq {binding[w.thread]}
  /\ \A h \in Handler :
       handler[h].pc \in {"project", "read", "agent", "store"} =>
         handler[h].project = binding[handler[h].thread]

(* An outcome, once recorded, is never replaced by another one, whatever the
   order of a late answer, a timeout, a cancel and a disconnect; only a cancel
   overwrites it (and a restart forgets it). *)
OutcomeKept ==
  [][\A id \in RequestId :
       requests[id].status \in Outcome =>
         requests'[id].status \in {requests[id].status, "cancel_requested", "absent"}]_vars

HasTask(id) == handler[requests[id].task].id = id

(* A request that GET /api/v1/requests reports as running is being worked on
   (the comment on chat's `except Exception` around get_project). *)
RunningIsWorkedOn(engines) ==
  \A id \in RequestId :
    requests[id].status = "running" /\ requests[id].engine \in engines => HasTask(id)
V1RunningIsWorkedOn == RunningIsWorkedOn({"v1"})
RunningIsReal       == RunningIsWorkedOn({"v1", "v2"})

(* A request that ended as cancelled has not changed the conversation, nor
   will a worker it left behind (SPEC-M1 4.3, F10). *)
CancelledWroteNothing(engines) ==
  \A id \in RequestId :
    requests[id].status = "cancelled" /\ requests[id].engine \in engines =>
      id \notin wrote /\ \A w \in late : w.id # id
V1CancelledWroteNothing == CancelledWroteNothing({"v1"})

(* Every V1 request stops being reported as running, whatever hangs or fails:
   its record gets an outcome unless somebody asked to cancel it. *)
V1GetsOutcome ==
  \A id \in RequestId :
    requests[id].status = "running" /\ requests[id].engine = "v1"
      ~> requests[id].status # "running"
=============================================================================
