---------------------------- MODULE Conversation ----------------------------
(***************************************************************************)
(* The conversation panel of one browser tab (App in apps/web/src/main.tsx):*)
(* the requests it sends to the two engines, what it does with answers that *)
(* arrive late, and the handlers that cut in: stop, new conversation and    *)
(* project switch.  A step is what the page runs between two awaits; each   *)
(* handler sees the state of the latest render.                             *)
(*                                                                         *)
(* The server is external: it works on a request and commits it or cancels *)
(* it whether or not the page still waits (ChatRequests).                   *)
(***************************************************************************)
EXTENDS BrowserTab, Naturals, SequencesExt

CONSTANTS Request,         \* questions the tab may ask, named by request_id
          Call,            \* tool calls of one V2 turn, named by call_id
          MaxSwitch,       \* bound: project switches
          MaxStops         \* bound: clicks on "Stop request" per request

ASSUME ConversationConstants ==
  /\ None \notin Request
  /\ "thinking" \notin Call
  /\ MaxSwitch \in Nat /\ MaxStops \in Nat
  /\ Project # {}

VARIABLES
  project,                 \* projectId
  switchSeq,               \* switchSeqRef
  threadId, turns, v2Error,
  busy, active,            \* active is activeRequestId, set by V1 only
  controller,              \* controllerRef: the request its signal belongs to
  cancelled,               \* cancelledRef
  statuses,                \* v2Streaming.statuses, or None
  tools,                   \* external: the tool calls of the open stream
  run,                     \* each request: where its handler is, what it sent
  clicks, stopping,        \* stopRequest: begun, and awaiting its POST
  server                   \* external: what became of each request

shown == <<threadId, turns, v2Error>>
vars == <<project, switchSeq, shown, busy, active, controller, cancelled,
          statuses, tools, run, clicks, stopping, server>>

(* The handler of a request awaits the answer (fetch), the events of a stream,
   or the trace of its answer.  thread, project and seq are what it read when
   it began; a thread is named by the request that opened it. *)
Handler == [pc : {"unused", "fetch", "stream", "trace", "done"},
            engine : {"v1", "v2"}, project : Project,
            thread : Request \cup {None}, seq : 0..MaxSwitch, aborted : BOOLEAN]

Init ==
  /\ project \in Project
  /\ switchSeq = 0
  /\ threadId = None /\ turns = <<>> /\ v2Error = None
  /\ busy = FALSE /\ active = None /\ controller = None /\ cancelled = FALSE
  /\ statuses = None
  /\ tools = [c \in Call |-> "none"]
  /\ run = [r \in Request |->
       [pc |-> "unused", engine |-> "v1", project |-> project, thread |-> None,
        seq |-> 0, aborted |-> FALSE]]
  /\ clicks = [r \in Request |-> 0]
  /\ stopping = [r \in Request |-> 0]
  /\ server = [r \in Request |-> "none"]

InFlight(r) == run[r].pc \in {"fetch", "stream", "trace"}
Awaits(r, engine, pc) == run[r].engine = engine /\ run[r].pc = pc /\ ~run[r].aborted

(* The thread of an answer: the one the request named, or a new one. *)
EmptyHeader(r) ==                 \* mutant: an absent thread kept as a string
  IF run[r].thread = None THEN "" ELSE run[r].thread

ThreadOf(r) == IF run[r].thread = None THEN r ELSE run[r].thread

(* A turn's thread and project are those of its request when it was sent. *)
AppendTurn(r, kind) == turns' = Append(turns, [request |-> r, kind |-> kind])

---------------------------------------------------------------------------
(* Sending.  Both paths return at once while busy; investigateFinding and
   submitV2 share runV2Turn. *)
Send(r, engine) ==
  /\ run' = [run EXCEPT ![r] =
       [pc |-> "fetch", engine |-> engine, project |-> project,
        thread |-> threadId, seq |-> switchSeq, aborted |-> FALSE]]
  /\ controller' = r
  /\ busy' = TRUE
  /\ server' = [server EXCEPT ![r] = "working"]

SubmitV1(r) ==
  /\ run[r].pc = "unused" /\ ~busy
  /\ Send(r, "v1")
  /\ cancelled' = FALSE
  /\ active' = r
  /\ UNCHANGED <<project, switchSeq, shown, statuses, tools, clicks, stopping>>

InvestigateAnyway(r) ==           \* mutant: investigateFinding without its check
  /\ run[r].pc = "unused"
  /\ Send(r, "v2")
  /\ v2Error' = None
  /\ statuses' = <<>>
  /\ tools' = [c \in Call |-> "none"]
  /\ UNCHANGED <<project, switchSeq, threadId, turns, active, cancelled,
                 clicks, stopping>>

RunV2Turn(r) ==
  /\ run[r].pc = "unused" /\ ~busy
  /\ Send(r, "v2")
  /\ v2Error' = None
  /\ statuses' = <<>>
  /\ tools' = [c \in Call |-> "none"]
  /\ UNCHANGED <<project, switchSeq, threadId, turns, active, cancelled,
                 clicks, stopping>>

(* The finally block of each path. *)
Finish(r) ==
  /\ run' = [run EXCEPT ![r].pc = "done"]
  /\ controller' = None
  /\ busy' = FALSE
  /\ IF run[r].engine = "v1"
       THEN active' = None /\ UNCHANGED statuses
       ELSE statuses' = None /\ UNCHANGED active
  /\ UNCHANGED <<project, switchSeq, cancelled, tools, clicks, stopping, server>>

---------------------------------------------------------------------------
(* The server commits an answer, or it is cancelled by the stop's POST and
   answers that.  Its failures are V1Fails and V2Fails. *)
ServerCommits(r) ==
  /\ server[r] = "working"
  /\ server' = [server EXCEPT ![r] = "committed"]
  /\ UNCHANGED <<project, switchSeq, shown, busy, active, controller, cancelled,
                 statuses, tools, run, clicks, stopping>>

CancelArrives(r) ==
  /\ stopping[r] > 0 /\ server[r] = "working"
  /\ server' = [server EXCEPT ![r] = "cancelled"]
  /\ UNCHANGED <<project, switchSeq, shown, busy, active, controller, cancelled,
                 statuses, tools, run, clicks, stopping>>

(* V1: the answer is one JSON object; its trace is fetched without the signal,
   so an abort no longer reaches the handler. *)
V1Responds(r) ==
  /\ Awaits(r, "v1", "fetch")
  /\ server[r] \in {"committed", "cancelled"}
  /\ run' = [run EXCEPT ![r].pc = "trace"]
  /\ UNCHANGED <<project, switchSeq, shown, busy, active, controller, cancelled,
                 statuses, tools, clicks, stopping, server>>

ReturnsEarly(r) ==                \* mutant: the discard skips the finally block
  /\ run[r].engine = "v1" /\ run[r].pc = "trace"
  /\ IF cancelled \/ run[r].seq # switchSeq
       THEN /\ run' = [run EXCEPT ![r].pc = "done"]
            /\ UNCHANGED <<project, switchSeq, shown, busy, active, controller,
                           cancelled, statuses, tools, clicks, stopping, server>>
       ELSE threadId' = ThreadOf(r) /\ AppendTurn(r, "answer")
            /\ UNCHANGED v2Error /\ Finish(r)

LandsAlthoughStopped(r) ==        \* mutant: cancelledRef not looked at
  /\ run[r].engine = "v1" /\ run[r].pc = "trace"
  /\ IF run[r].seq # switchSeq
       THEN UNCHANGED shown
       ELSE threadId' = ThreadOf(r) /\ AppendTurn(r, "answer") /\ UNCHANGED v2Error
  /\ Finish(r)

V1TraceArrives(r) ==
  /\ run[r].engine = "v1" /\ run[r].pc = "trace"
  /\ IF cancelled \/ run[r].seq # switchSeq
       THEN UNCHANGED shown
       ELSE threadId' = ThreadOf(r) /\ AppendTurn(r, "answer") /\ UNCHANGED v2Error
  /\ Finish(r)

(* An error of either fetch only raises the page's banner: an answer whose
   trace cannot be read is lost. *)
V1Fails(r) ==
  /\ \/ Awaits(r, "v1", "fetch")
     \/ run[r].engine = "v1" /\ run[r].pc = "trace"
  /\ UNCHANGED shown
  /\ Finish(r)

(* An aborted fetch or stream ends in an AbortError, which nobody is told of. *)
Aborts(r) ==
  /\ run[r].aborted /\ run[r].pc \in {"fetch", "stream"}
  /\ UNCHANGED shown
  /\ Finish(r)

---------------------------------------------------------------------------
(* V2: a stream of events.  statuses are the lines the reader sees: one entry
   for each call by its id, and at most one for "thinking". *)
Entry(id, done) == [id |-> id, done |-> done]
Without(id) ==
  FoldLeft(LAMBDA kept, s : IF s.id = id THEN kept ELSE Append(kept, s), <<>>, statuses)

V2Responds(r) ==
  /\ Awaits(r, "v2", "fetch")
  /\ run' = [run EXCEPT ![r].pc = "stream"]
  /\ UNCHANGED <<project, switchSeq, shown, busy, active, controller, cancelled,
                 statuses, tools, clicks, stopping, server>>

(* Events, in the order the server sends them: a call starts once and is
   completed at most once. *)
Streams(r) == Awaits(r, "v2", "stream")
OnlyTheStream == UNCHANGED <<project, switchSeq, shown, busy, active, controller,
                             cancelled, run, clicks, stopping, server>>

ThinkingResets(r) ==              \* mutant: the statuses replaced, as once they were
  /\ Streams(r)
  /\ statuses' = <<Entry("thinking", FALSE)>>
  /\ UNCHANGED tools /\ OnlyTheStream

Thinking(r) ==
  /\ Streams(r)
  /\ statuses' = Append(Without("thinking"), Entry("thinking", FALSE))
  /\ UNCHANGED tools /\ OnlyTheStream

ToolStarted(r) ==
  /\ Streams(r)
  /\ \E c \in Call :
       /\ tools[c] = "none"
       /\ tools' = [tools EXCEPT ![c] = "started"]
       /\ statuses' = Append(Without("thinking"), Entry(c, FALSE))
  /\ OnlyTheStream

ToolCompleted(r) ==
  /\ Streams(r)
  /\ \E c \in Call :
       /\ tools[c] = "started"
       /\ tools' = [tools EXCEPT ![c] = "completed"]
       /\ statuses' = [i \in DOMAIN statuses |->
            IF statuses[i].id = c THEN Entry(c, TRUE) ELSE statuses[i]]
  /\ OnlyTheStream

AnswerChunk(r) ==
  /\ Streams(r)
  /\ statuses' = Without("thinking")
  /\ UNCHANGED tools /\ OnlyTheStream

(* The stream ends with the final answer: its thread is taken over before the
   trace is awaited. *)
V2Final(r) ==
  /\ Streams(r) /\ server[r] = "committed"
  /\ IF run[r].seq # switchSeq
       THEN UNCHANGED shown /\ Finish(r)
       ELSE /\ threadId' = ThreadOf(r)
            /\ run' = [run EXCEPT ![r].pc = "trace"]
            /\ UNCHANGED <<project, switchSeq, turns, v2Error, busy, active,
                           controller, cancelled, statuses, tools, clicks,
                           stopping, server>>

LandsAfterSwitch(r) ==            \* mutant: the second check left out
  /\ run[r].engine = "v2" /\ run[r].pc = "trace"
  /\ AppendTurn(r, "answer") /\ UNCHANGED <<threadId, v2Error>>
  /\ Finish(r)

(* The trace arrives, or fails and is left empty. *)
V2TraceArrives(r) ==
  /\ run[r].engine = "v2" /\ run[r].pc = "trace"
  /\ IF run[r].seq # switchSeq
       THEN UNCHANGED shown
       ELSE AppendTurn(r, "answer") /\ UNCHANGED <<threadId, v2Error>>
  /\ Finish(r)

(* A refused request, an "error" event or a broken connection is shown in the
   conversation; a stream that ends without a final event is not. *)
V2Fails(r) ==
  /\ Awaits(r, "v2", "fetch") \/ Streams(r)
  /\ v2Error' = r
  /\ UNCHANGED <<threadId, turns>>
  /\ Finish(r)

V2EndsSilently(r) ==
  /\ Streams(r)
  /\ UNCHANGED shown
  /\ Finish(r)

---------------------------------------------------------------------------
(* controllerRef.current?.abort(): whichever request is in flight by then. *)
AbortCurrent ==
  run' = IF controller = None THEN run
         ELSE [run EXCEPT ![controller].aborted = TRUE]

(* stopRequest, for the V1 request in flight: the flag, then the POST ... *)
StopRequest(r) ==
  /\ active = r
  /\ clicks[r] < MaxStops
  /\ clicks' = [clicks EXCEPT ![r] = @ + 1]
  /\ stopping' = [stopping EXCEPT ![r] = @ + 1]
  /\ cancelled' = TRUE
  /\ UNCHANGED <<project, switchSeq, shown, busy, active, controller, statuses,
                 tools, run, server>>

(* ... and, whether the POST returned or failed, the abort and the turn. *)
StopReturns(r) ==
  /\ stopping[r] > 0
  /\ stopping' = [stopping EXCEPT ![r] = @ - 1]
  /\ AbortCurrent
  /\ AppendTurn(r, "cancelled")
  /\ UNCHANGED <<project, switchSeq, threadId, v2Error, busy, active, controller,
                 cancelled, statuses, tools, clicks, server>>

(* newConversation: it leaves a request in flight alone. *)
Clear == threadId' = None /\ turns' = <<>> /\ v2Error' = None

NewConversation ==
  /\ Clear
  /\ UNCHANGED <<project, switchSeq, busy, active, controller, cancelled,
                 statuses, tools, run, clicks, stopping, server>>

SwitchProject(p) ==
  /\ switchSeq < MaxSwitch /\ p # project
  /\ switchSeq' = switchSeq + 1
  /\ cancelled' = TRUE
  /\ AbortCurrent
  /\ project' = p
  /\ Clear
  /\ UNCHANGED <<busy, active, controller, statuses, tools, clicks, stopping,
                 server>>

Proceeds(r) ==
  \/ ServerCommits(r) \/ Aborts(r)
  \/ V1Responds(r) \/ V1TraceArrives(r) \/ V1Fails(r)
  \/ V2Responds(r) \/ V2Final(r) \/ V2TraceArrives(r) \/ V2Fails(r)
  \/ V2EndsSilently(r)

Events(r) == Thinking(r) \/ ToolStarted(r) \/ ToolCompleted(r) \/ AnswerChunk(r)

Next ==
  \/ \E r \in Request :
       \/ SubmitV1(r) \/ RunV2Turn(r) \/ Proceeds(r) \/ Events(r)
       \/ CancelArrives(r) \/ StopRequest(r) \/ StopReturns(r)
  \/ NewConversation
  \/ \E p \in Project : SwitchProject(p)

(* A request in flight gets an answer, an error or an end: the server bounds
   its work (deadlines) and a proxy the silence.  Nothing is assumed of the
   user or of a cancel. *)
Fairness == \A r \in Request : WF_vars(Proceeds(r))

Spec == Init /\ [][Next]_vars /\ Fairness

---------------------------------------------------------------------------
(* Type invariant. *)
TypeOK ==
  /\ project \in Project
  /\ switchSeq \in 0..MaxSwitch
  /\ threadId \in Request \cup {None} /\ v2Error \in Request \cup {None}
  /\ turns \in Seq([request : Request, kind : {"answer", "cancelled"}])
  /\ busy \in BOOLEAN /\ cancelled \in BOOLEAN
  /\ active \in Request \cup {None} /\ controller \in Request \cup {None}
  /\ statuses = None \/
       statuses \in Seq([id : Call \cup {"thinking"}, done : BOOLEAN])
  /\ tools \in [Call -> {"none", "started", "completed"}]
  /\ run \in [Request -> Handler]
  /\ clicks \in [Request -> 0..MaxStops] /\ stopping \in [Request -> 0..MaxStops]
  /\ server \in [Request -> {"none", "working", "committed", "cancelled"}]

(* At most one request is in flight, busy says whether there is one, the shared
   controller is its own, and Stop addresses it or nothing (the comment on
   runV2Turn: "only one of the two is ever in flight"). *)
OneInFlight ==
  /\ busy <=> \E r \in Request : InFlight(r)
  /\ \A r \in Request :
       InFlight(r) =>
         /\ controller = r
         /\ active = IF run[r].engine = "v1" THEN r ELSE None

IsAnswer(i) == turns[i].kind = "answer"

(* Whatever was in flight at a project switch, every answer and error shown and
   the thread of the next question belong to the project that is selected; so a
   question is never sent with another project's thread (SPEC-M9, switchSeqRef). *)
AnswersFitProject ==
  /\ \A i \in DOMAIN turns : IsAnswer(i) => run[turns[i].request].project = project
  /\ v2Error # None => run[v2Error].project = project
  /\ threadId # None => run[threadId].project = project
  /\ \A r \in Request : run[r].thread # None =>
       run[run[r].thread].project = run[r].project

(* No request is shown both as answered and as cancelled, nor answered twice,
   whatever the order of the answer, the stop and the cancel's own reply. *)
OneOutcome ==
  \A i, j \in DOMAIN turns :
    i # j /\ turns[i].request = turns[j].request => ~IsAnswer(i) /\ ~IsAnswer(j)

(* While a turn streams, each call that has started has exactly one line and
   it is ticked exactly if the call is completed, whatever "thinking" pings and
   chunks come between (the owner-reported defects in runV2Turn's comments). *)
StatusesFollowCalls ==
  statuses # None =>
    /\ \A c \in Call :
         LET lines == {i \in DOMAIN statuses : statuses[i].id = c}
         IN /\ Cardinality(lines) = IF tools[c] = "none" THEN 0 ELSE 1
            /\ \A i \in lines : statuses[i].done <=> tools[c] = "completed"
    /\ Cardinality({i \in DOMAIN statuses : statuses[i].id = "thinking"}) <= 1

(* The form does not stay disabled: whatever fails, is stopped or is switched
   away from, busy is cleared. *)
BusyEnds == busy ~> ~busy

(* A request is aborted only by its own stop or by a project switch: sharing
   controllerRef is safe, as the comment on runV2Turn says. *)
StopsOnlyItsOwn ==
  [][\A r \in Request :
       run'[r].aborted /\ ~run[r].aborted /\ switchSeq' = switchSeq =>
         stopping'[r] < stopping[r]]_vars
=============================================================================
