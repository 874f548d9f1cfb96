------------------------- MODULE ConversationProofs -------------------------
(***************************************************************************)
(* Machine-checked proofs about Conversation: for any number of questions, *)
(* projects, switches and stops.                                           *)
(***************************************************************************)
EXTENDS Conversation, FoldLemmas

Turn == [request : Request, kind : {"answer", "cancelled"}]

(* The types, but for those of Lines, which no other variable is set from. *)
Types ==
  /\ project \in Project
  /\ switchSeq \in 0..MaxSwitch
  /\ threadId \in Request \cup {None} /\ v2Error \in Request \cup {None}
  /\ turns \in Seq(Turn)
  /\ busy \in BOOLEAN /\ cancelled \in BOOLEAN
  /\ active \in Request \cup {None} /\ controller \in Request \cup {None}
  /\ run \in [Request -> Handler]
  /\ clicks \in [Request -> 0..MaxStops] /\ stopping \in [Request -> 0..MaxStops]
  /\ \A r \in Request : stopping[r] <= clicks[r]

(* One request is in flight, and what is left when it ends. *)
Flight == OneInFlight /\ (~busy => active = None /\ controller = None)

(* A thread, an error or an answer is known by a request that was sent; while
   no switch has come between, its project is the one selected, and a switch
   has aborted whatever was not answered yet. *)
Names(f, r, p) == f[r].pc # "unused" /\ f[r].project = p
FitsRun(f, r, p, seq) ==
  /\ f[r].seq <= seq
  /\ f[r].pc \in {"fetch", "stream", "trace"} /\ f[r].seq = seq => f[r].project = p
  /\ f[r].pc \in {"fetch", "stream"} /\ ~f[r].aborted => f[r].seq = seq
  /\ f[r].thread # None => Names(f, f[r].thread, f[r].project)
FitsShown(f, p, thread, error, list) ==
  /\ thread # None => Names(f, thread, p)
  /\ error # None => Names(f, error, p)
  /\ \A i \in DOMAIN list : list[i].kind = "answer" => Names(f, list[i].request, p)
Fit ==
  /\ \A r \in Request : FitsRun(run, r, project, switchSeq)
  /\ FitsShown(run, project, threadId, v2Error, turns)

(* An answered request has ended unstopped, and a stopped one is a V1 request
   whose answer would be dropped. *)
SettledRun(f, c, dropped, r) ==
  c[r] > 0 =>
    /\ f[r].engine = "v1" /\ f[r].pc # "unused"
    /\ f[r].pc \in {"fetch", "stream", "trace"} => dropped
SettledTurn(f, c, t) ==
  IF t.kind = "answer" THEN f[t.request].pc = "done" /\ c[t.request] = 0
                       ELSE c[t.request] > 0
Settled ==
  /\ \A r \in Request : SettledRun(run, clicks, cancelled, r)
  /\ \A i \in DOMAIN turns : SettledTurn(run, clicks, turns[i])
  /\ \A i, j \in DOMAIN turns :
       /\ turns[i].kind = "answer" /\ turns[j].kind = "answer"
       /\ turns[i].request = turns[j].request
       => i = j

---------------------------------------------------------------------------
(* The kinds of steps, as far as these invariants see them. *)
Quiet == UNCHANGED <<project, switchSeq, shown, busy, active, controller,
                     cancelled, run, clicks, stopping>>

Sends(r, engine) ==
  /\ run[r].pc = "unused" /\ ~busy
  /\ run' = [run EXCEPT ![r] =
       [pc |-> "fetch", engine |-> engine, project |-> project,
        thread |-> threadId, seq |-> switchSeq, aborted |-> FALSE]]
  /\ controller' = r /\ busy' = TRUE
  /\ v2Error' \in {v2Error, None}
  /\ IF engine = "v1" THEN cancelled' = FALSE /\ active' = r
                      ELSE UNCHANGED <<cancelled, active>>
  /\ UNCHANGED <<project, switchSeq, threadId, turns, clicks, stopping>>

Continues(r, pc) ==
  /\ InFlight(r)
  /\ pc = "stream" => run[r].pc = "fetch"
  /\ run' = [run EXCEPT ![r].pc = pc]
  /\ \/ UNCHANGED threadId
     \/ run[r].seq = switchSeq /\ threadId' = ThreadOf(r)
  /\ UNCHANGED <<project, switchSeq, turns, v2Error, busy, active, controller,
                 cancelled, clicks, stopping>>

Lands(r) ==
  /\ run[r].pc = "trace" /\ run[r].seq = switchSeq
  /\ run[r].engine = "v1" => ~cancelled
  /\ AppendTurn(r, "answer")
  /\ threadId' \in {threadId, ThreadOf(r)} /\ UNCHANGED v2Error

Tells(r) ==
  /\ run[r].pc \in {"fetch", "stream"} /\ ~run[r].aborted
  /\ v2Error' = r /\ UNCHANGED <<threadId, turns>>

Ends(r) == InFlight(r) /\ Finish(r) /\ (UNCHANGED shown \/ Lands(r) \/ Tells(r))

(* Every step is of one of these kinds. *)
LEMMA Kinds ==
  ASSUME [Next]_vars, Types
  PROVE  \/ Quiet
         \/ \E r \in Request : \E engine \in {"v1", "v2"} : Sends(r, engine)
         \/ \E r \in Request : \E pc \in {"stream", "trace"} : Continues(r, pc)
         \/ \E r \in Request : Ends(r) \/ StopRequest(r) \/ StopReturns(r)
         \/ NewConversation
         \/ \E p \in Project : SwitchProject(p)
<1>1. CASE UNCHANGED vars
  BY <1>1 DEF vars, Quiet, shown
<1>2. ASSUME NEW r \in Request, Events(r) \/ ServerCommits(r) \/ CancelArrives(r)
      PROVE  Quiet
  BY <1>2 DEF Events, Thinking, ToolStarted, ToolCompleted, AnswerChunk,
              OnlyTheStream, ServerCommits, CancelArrives, Quiet, shown
<1>3. ASSUME NEW r \in Request, SubmitV1(r)
      PROVE  Sends(r, "v1")
  BY <1>3 DEF SubmitV1, Send, Sends, shown
<1>4. ASSUME NEW r \in Request, RunV2Turn(r)
      PROVE  Sends(r, "v2")
  BY <1>4 DEF RunV2Turn, Send, Sends
<1>5. ASSUME NEW r \in Request, V1Responds(r)
      PROVE  Continues(r, "trace")
  BY <1>5 DEF V1Responds, Continues, Awaits, InFlight, shown
<1>6. ASSUME NEW r \in Request, V2Responds(r)
      PROVE  Continues(r, "stream")
  BY <1>6 DEF V2Responds, Continues, Awaits, InFlight, shown
<1>7. ASSUME NEW r \in Request, V2Final(r)
      PROVE  Continues(r, "trace") \/ Ends(r)
  BY <1>7 DEF V2Final, Continues, Ends, Streams, Awaits, InFlight, shown
<1>8. ASSUME NEW r \in Request, V1TraceArrives(r) \/ V2TraceArrives(r)
      PROVE  Ends(r)
  <2>1. run[r].pc = "trace" /\ InFlight(r) /\ Finish(r)
    BY <1>8 DEF V1TraceArrives, V2TraceArrives, InFlight
  <2>2. UNCHANGED shown \/ Lands(r)
    BY <1>8, <2>1 DEF V1TraceArrives, V2TraceArrives, Lands, Types, shown
  <2> QED
    BY <2>1, <2>2 DEF Ends
<1>9. ASSUME NEW r \in Request,
             V1Fails(r) \/ Aborts(r) \/ V2Fails(r) \/ V2EndsSilently(r)
      PROVE  Ends(r)
  BY <1>9 DEF V1Fails, Aborts, V2Fails, V2EndsSilently, Ends, Tells, Streams,
              Awaits, InFlight
<1> QED
  BY <1>1, <1>2, <1>3, <1>4, <1>5, <1>6, <1>7, <1>8, <1>9 DEF Next, Proceeds

(* An abort marks the request that the controller belongs to, and no other. *)
LEMMA AbortEffect ==
  ASSUME Types, AbortCurrent
  PROVE  /\ run' \in [Request -> Handler]
         /\ \A r \in Request :
              /\ run'[r].pc = run[r].pc /\ run'[r].engine = run[r].engine
              /\ run'[r].project = run[r].project
              /\ run'[r].thread = run[r].thread /\ run'[r].seq = run[r].seq
              /\ run'[r].aborted = (run[r].aborted \/ r = controller)
<1>1. CASE controller = None
  BY <1>1, ConversationConstants DEF AbortCurrent, Types, Handler
<1>2. CASE controller \in Request
  <2>1. run' = [run EXCEPT ![controller].aborted = TRUE]
    BY <1>2, ConversationConstants DEF AbortCurrent
  <2> QED
    BY <1>2, <2>1 DEF Types, Handler
<1> QED
  BY <1>1, <1>2 DEF Types

(* A turn that is appended is the last one; the others stay. *)
LEMMA AppendEffect ==
  ASSUME Types, NEW r \in Request, NEW kind \in {"answer", "cancelled"},
         AppendTurn(r, kind)
  PROVE  /\ turns' \in Seq(Turn)
         /\ DOMAIN turns' = DOMAIN turns \cup {Len(turns) + 1}
         /\ Len(turns) + 1 \notin DOMAIN turns
         /\ \A i \in DOMAIN turns : turns'[i] = turns[i]
         /\ turns'[Len(turns) + 1].request = r
         /\ turns'[Len(turns) + 1].kind = kind
<1> DEFINE t == [request |-> r, kind |-> kind]
<1>1. t \in Turn /\ turns \in Seq(Turn)
  BY DEF Turn, Types
<1>2. turns' = Append(turns, t)
  BY DEF AppendTurn
<1> QED
  BY <1>1, <1>2, AppendProperties

(* The thread of an answer is a request's. *)
LEMMA ThreadTyped ==
  ASSUME Types, NEW r \in Request
  PROVE  ThreadOf(r) \in Request
BY DEF Types, Handler, ThreadOf

---------------------------------------------------------------------------
LEMMA TypesStep == Types /\ [Next]_vars => Types'
<1> SUFFICES ASSUME Types, [Next]_vars PROVE Types'
  OBVIOUS
<1>1. CASE Quiet
  BY <1>1 DEF Quiet, Types, shown
<1>2. ASSUME NEW r \in Request, NEW engine \in {"v1", "v2"}, Sends(r, engine)
      PROVE  Types'
  <2>1. run' \in [Request -> Handler]
    BY <1>2 DEF Sends, Types, Handler
  <2> QED
    BY <1>2, <2>1 DEF Sends, Types
<1>3. ASSUME NEW r \in Request, NEW pc \in {"stream", "trace"}, Continues(r, pc)
      PROVE  Types'
  <2>1. run' \in [Request -> Handler]
    BY <1>3 DEF Continues, Types, Handler
  <2> QED
    BY <1>3, <2>1, ThreadTyped DEF Continues, Types
<1>4. ASSUME NEW r \in Request, Ends(r)
      PROVE  Types'
  <2>1. run' \in [Request -> Handler]
    BY <1>4 DEF Ends, Finish, Types, Handler
  <2>2. turns' \in Seq(Turn)
    BY <1>4, AppendEffect DEF Ends, Lands, Tells, Types, shown
  <2>3. threadId' \in Request \cup {None} /\ v2Error' \in Request \cup {None}
    BY <1>4, ThreadTyped DEF Ends, Lands, Tells, Types, shown
  <2> QED
    BY <1>4, <2>1, <2>2, <2>3 DEF Ends, Finish, Types
<1>5. ASSUME NEW r \in Request, StopRequest(r)
      PROVE  Types'
  BY <1>5, ConversationConstants DEF StopRequest, Types, shown
<1>6. ASSUME NEW r \in Request, StopReturns(r)
      PROVE  Types'
  <2>1. run' \in [Request -> Handler] /\ turns' \in Seq(Turn)
    BY <1>6, AbortEffect, AppendEffect DEF StopReturns
  <2>2. stopping' \in [Request -> 0..MaxStops]
    BY <1>6, ConversationConstants DEF StopReturns, Types
  <2>3. \A q \in Request : stopping'[q] <= clicks'[q]
    BY <1>6, ConversationConstants DEF StopReturns, Types
  <2> QED
    BY <1>6, <2>1, <2>2, <2>3 DEF StopReturns, Types
<1>7. CASE NewConversation
  BY <1>7 DEF NewConversation, Clear, Types
<1>8. ASSUME NEW p \in Project, SwitchProject(p)
      PROVE  Types'
  BY <1>8, AbortEffect, ConversationConstants DEF SwitchProject, Clear, Types
<1> QED
  BY Kinds, <1>1, <1>2, <1>3, <1>4, <1>5, <1>6, <1>7, <1>8

LEMMA InitInv == Init => Types /\ Flight /\ Fit /\ Settled
<1> SUFFICES ASSUME Init PROVE Types /\ Flight /\ Fit /\ Settled
  OBVIOUS
<1>1. Types
  <2>1. <<>> \in Seq(Turn) /\ 0 \in 0..MaxSwitch /\ 0 \in 0..MaxStops
    BY ConversationConstants
  <2>2. run \in [Request -> Handler]
    BY <2>1 DEF Init, Handler
  <2>3. clicks \in [Request -> 0..MaxStops] /\ stopping \in [Request -> 0..MaxStops]
    BY <2>1 DEF Init
  <2>4. \A r \in Request : stopping[r] <= clicks[r]
    BY DEF Init
  <2> QED
    BY <2>1, <2>2, <2>3, <2>4 DEF Init, Types
<1>2. Flight
  BY DEF Init, Flight, OneInFlight, InFlight
<1>3. Fit
  BY ConversationConstants DEF Init, Fit, FitsRun, FitsShown
<1>4. Settled
  BY DEF Init, Settled, SettledRun
<1> QED
  BY <1>1, <1>2, <1>3, <1>4

LEMMA FlightStep == Types /\ Flight /\ [Next]_vars => Flight'
<1> SUFFICES ASSUME Types, Flight, [Next]_vars PROVE Flight'
  OBVIOUS
<1> USE DEF Flight, OneInFlight, InFlight
<1>1. CASE Quiet
  BY <1>1 DEF Quiet
<1>2. ASSUME NEW r \in Request, NEW engine \in {"v1", "v2"}, Sends(r, engine)
      PROVE  Flight'
  BY <1>2 DEF Sends, Types
<1>3. ASSUME NEW r \in Request, NEW pc \in {"stream", "trace"}, Continues(r, pc)
      PROVE  Flight'
  BY <1>3 DEF Continues, Types, Handler
<1>4. ASSUME NEW r \in Request, Ends(r)
      PROVE  Flight'
  BY <1>4 DEF Ends, Finish, Types, Handler
<1>5. ASSUME NEW r \in Request, StopRequest(r)
      PROVE  Flight'
  BY <1>5 DEF StopRequest
<1>6. ASSUME NEW r \in Request, StopReturns(r)
      PROVE  Flight'
  BY <1>6, AbortEffect DEF StopReturns
<1>7. CASE NewConversation
  BY <1>7 DEF NewConversation
<1>8. ASSUME NEW p \in Project, SwitchProject(p)
      PROVE  Flight'
  BY <1>8, AbortEffect DEF SwitchProject
<1> QED
  BY Kinds, <1>1, <1>2, <1>3, <1>4, <1>5, <1>6, <1>7, <1>8


---------------------------------------------------------------------------
(* Fit.  A name stays good while its request stays sent and keeps its project. *)
Keeps(f, g) == \A r \in Request : f[r].pc # "unused" =>
                 g[r].pc # "unused" /\ g[r].project = f[r].project

LEMMA ShownKept ==
  ASSUME Types, Fit, NEW g, Keeps(run, g)
  PROVE  /\ FitsShown(g, project, threadId, v2Error, turns)
         /\ \A r \in Request : run[r].thread # None =>
              Names(g, run[r].thread, run[r].project)
<1>1. \A r \in Request, p \in Project : Names(run, r, p) => Names(g, r, p)
  BY DEF Keeps, Names
<1>2. \A i \in DOMAIN turns : turns[i].request \in Request
  <2>1. turns \in Seq(Turn)
    BY DEF Types
  <2>2. \A i \in DOMAIN turns : turns[i] \in Turn
    BY <2>1
  <2> QED
    BY <2>2 DEF Turn
<1>3. FitsShown(g, project, threadId, v2Error, turns)
  BY <1>1, <1>2 DEF Fit, FitsShown, Types
<1>4. \A r \in Request : run[r].thread # None =>
        Names(g, run[r].thread, run[r].project)
  BY <1>1 DEF Fit, FitsRun, Types, Handler
<1> QED
  BY <1>3, <1>4

LEMMA FitSends ==
  ASSUME Types, Fit, NEW r \in Request, NEW engine \in {"v1", "v2"}, Sends(r, engine)
  PROVE  Fit'
<1> DEFINE new == [pc |-> "fetch", engine |-> engine, project |-> project,
                   thread |-> threadId, seq |-> switchSeq, aborted |-> FALSE]
<1>1. run[r].pc = "unused" /\ run'[r] = new
      /\ \A q \in Request : q # r => run'[q] = run[q]
  BY DEF Sends, Types
<1>2. Keeps(run, run')
  BY <1>1 DEF Keeps
<1>3. UNCHANGED <<project, switchSeq, threadId, turns>> /\ v2Error' \in {v2Error, None}
  BY DEF Sends
<1>4. FitsShown(run', project', threadId', v2Error', turns')
  BY <1>2, <1>3, ShownKept DEF FitsShown
<1>5. ASSUME NEW q \in Request
      PROVE  FitsRun(run', q, project', switchSeq')
  <2>1. CASE q = r
    BY <1>1, <1>3, <1>4, <2>1 DEF FitsRun, FitsShown, Types
  <2>2. CASE q # r
    BY <1>1, <1>2, <1>3, <2>2, ShownKept DEF Fit, FitsRun
  <2> QED
    BY <2>1, <2>2
<1> QED
  BY <1>4, <1>5 DEF Fit

(* A step of a handler whose run differs in pc only. *)
LEMMA FitMoves ==
  ASSUME Types, Fit, NEW r \in Request, NEW pc \in {"stream", "trace", "done"},
         InFlight(r), pc = "stream" => run[r].pc = "fetch",
         run' = [run EXCEPT ![r].pc = pc], UNCHANGED <<project, switchSeq>>
  PROVE  /\ Keeps(run, run')
         /\ \A q \in Request : FitsRun(run', q, project', switchSeq')
         /\ FitsShown(run', project, threadId, v2Error, turns)
<1>1. \A q \in Request :
        /\ run'[q].project = run[q].project /\ run'[q].thread = run[q].thread
        /\ run'[q].seq = run[q].seq /\ run'[q].aborted = run[q].aborted
        /\ run'[q].pc = IF q = r THEN pc ELSE run[q].pc
  BY DEF Types, Handler
<1>2. Keeps(run, run')
  BY <1>1 DEF Keeps
<1>3. ASSUME NEW q \in Request
      PROVE  FitsRun(run', q, project', switchSeq')
  <2>1. FitsRun(run, q, project, switchSeq)
    BY DEF Fit
  <2>2. run'[q].thread # None => Names(run', run'[q].thread, run'[q].project)
    BY <1>1, <1>2, ShownKept
  <2> QED
    BY <1>1, <2>1, <2>2 DEF FitsRun, InFlight
<1> QED
  BY <1>2, <1>3, ShownKept

(* The thread of a current answer is one of the project selected. *)
LEMMA ThreadFits ==
  ASSUME Types, Fit, NEW r \in Request, InFlight(r), run[r].seq = switchSeq
  PROVE  Names(run, r, project) /\ Names(run, ThreadOf(r), project)
BY DEF Fit, FitsRun, InFlight, ThreadOf, Names

LEMMA FitContinues ==
  ASSUME Types, Fit, NEW r \in Request, NEW pc \in {"stream", "trace"},
         Continues(r, pc)
  PROVE  Fit'
<1>1. /\ Keeps(run, run')
      /\ \A q \in Request : FitsRun(run', q, project', switchSeq')
      /\ FitsShown(run', project, threadId, v2Error, turns)
  BY FitMoves DEF Continues
<1>2. threadId' # None => Names(run', threadId', project)
  <2>1. CASE UNCHANGED threadId
    BY <1>1, <2>1 DEF FitsShown
  <2>2. CASE run[r].seq = switchSeq /\ threadId' = ThreadOf(r)
    BY <1>1, <2>2, ThreadFits, ThreadTyped DEF Continues, Keeps, Names
  <2> QED
    BY <2>1, <2>2 DEF Continues
<1>3. UNCHANGED <<project, turns, v2Error>>
  BY DEF Continues
<1> QED
  BY <1>1, <1>2, <1>3 DEF Fit, FitsShown

LEMMA FitEnds ==
  ASSUME Types, Fit, NEW r \in Request, Ends(r)
  PROVE  Fit'
<1>1. /\ Keeps(run, run')
      /\ \A q \in Request : FitsRun(run', q, project', switchSeq')
      /\ FitsShown(run', project, threadId, v2Error, turns)
  BY FitMoves DEF Ends, Finish
<1>2. InFlight(r) /\ UNCHANGED project
  BY DEF Ends, Finish
<1>3. CASE UNCHANGED shown
  BY <1>1, <1>2, <1>3 DEF Fit, shown
<1>4. CASE Lands(r)
  <2>1. Names(run', r, project) /\ Names(run', ThreadOf(r), project)
    BY <1>1, <1>2, <1>4, ThreadFits, ThreadTyped DEF Lands, Keeps, Names
  <2>2. ASSUME NEW i \in DOMAIN turns', turns'[i].kind = "answer"
        PROVE  Names(run', turns'[i].request, project)
    <3>1. CASE i \in DOMAIN turns
      BY <1>1, <1>4, <2>2, <3>1, AppendEffect DEF Lands, FitsShown
    <3>2. CASE i = Len(turns) + 1
      BY <1>4, <2>1, <3>2, AppendEffect DEF Lands
    <3> QED
      BY <1>4, <3>1, <3>2, AppendEffect DEF Lands
  <2> QED
    BY <1>1, <1>2, <1>4, <2>1, <2>2 DEF Lands, Fit, FitsShown
<1>5. CASE Tells(r)
  <2>1. Names(run', r, project)
    BY <1>1, <1>2, <1>5 DEF Tells, Fit, FitsRun, InFlight, Keeps, Names
  <2> QED
    BY <1>1, <1>2, <1>5, <2>1 DEF Tells, Fit, FitsShown
<1> QED
  BY <1>3, <1>4, <1>5 DEF Ends

(* An abort changes no field that a name depends on. *)
LEMMA FitAborts ==
  ASSUME Types, Fit, AbortCurrent
  PROVE  /\ Keeps(run, run')
         /\ \A q \in Request : FitsRun(run', q, project, switchSeq)
         /\ FitsShown(run', project, threadId, v2Error, turns)
<1>1. Keeps(run, run')
  BY AbortEffect DEF Keeps
<1>2. ASSUME NEW q \in Request
      PROVE  FitsRun(run', q, project, switchSeq)
  <2>1. FitsRun(run, q, project, switchSeq)
    BY DEF Fit
  <2>2. run'[q].thread # None => Names(run', run'[q].thread, run'[q].project)
    BY <1>1, AbortEffect, ShownKept
  <2> QED
    BY <2>1, <2>2, AbortEffect DEF FitsRun
<1> QED
  BY <1>1, <1>2, ShownKept

LEMMA FitSwitch ==
  ASSUME Types, Flight, Fit, NEW p \in Project, SwitchProject(p)
  PROVE  Fit'
<1>1. /\ switchSeq' = switchSeq + 1 /\ switchSeq \in Nat /\ project' = p
      /\ threadId' = None /\ v2Error' = None /\ turns' = <<>>
  BY ConversationConstants DEF SwitchProject, Clear, Types
<1>2. AbortCurrent
  BY DEF SwitchProject
<1>3. ASSUME NEW q \in Request
      PROVE  FitsRun(run', q, project', switchSeq')
  <2>1. FitsRun(run', q, project, switchSeq) /\ run'[q].seq \in Nat
    BY <1>2, FitAborts, AbortEffect, ConversationConstants DEF Handler
  <2>2. run'[q].seq # switchSeq' /\ run'[q].seq <= switchSeq'
    BY <1>1, <2>1 DEF FitsRun
  <2>3. run'[q].pc \in {"fetch", "stream"} => run'[q].aborted
    BY <1>2, AbortEffect DEF Flight, OneInFlight, InFlight
  <2> QED
    BY <2>1, <2>2, <2>3 DEF FitsRun
<1> QED
  BY <1>1, <1>3 DEF Fit, FitsShown

LEMMA FitStep == Types /\ Flight /\ Fit /\ [Next]_vars => Fit'
<1> SUFFICES ASSUME Types, Flight, Fit, [Next]_vars PROVE Fit'
  OBVIOUS
<1>1. CASE Quiet
  BY <1>1 DEF Quiet, Fit, shown
<1>2. ASSUME NEW r \in Request, StopRequest(r)
      PROVE  Fit'
  BY <1>2 DEF StopRequest, Fit, shown
<1>3. ASSUME NEW r \in Request, StopReturns(r)
      PROVE  Fit'
  <2>1. UNCHANGED <<project, switchSeq, threadId, v2Error>>
    BY <1>3 DEF StopReturns
  <2>2. /\ \A q \in Request : FitsRun(run', q, project, switchSeq)
        /\ FitsShown(run', project, threadId, v2Error, turns)
    BY <1>3, FitAborts DEF StopReturns
  <2>3. FitsShown(run', project, threadId, v2Error, turns')
    <3>1. ASSUME NEW i \in DOMAIN turns', turns'[i].kind = "answer"
          PROVE  i \in DOMAIN turns /\ turns'[i] = turns[i]
      BY <1>3, <3>1, AppendEffect DEF StopReturns
    <3> QED
      BY <2>2, <3>1 DEF FitsShown
  <2> QED
    BY <2>1, <2>2, <2>3 DEF Fit
<1>4. CASE NewConversation
  BY <1>4 DEF NewConversation, Clear, Fit, FitsShown
<1> QED
  BY Kinds, FitSends, FitContinues, FitEnds, FitSwitch, <1>1, <1>2, <1>3, <1>4

---------------------------------------------------------------------------
(* Settled.  What is shown of a request stays true of it. *)
LEMMA TurnTyped ==
  ASSUME Types, NEW i \in DOMAIN turns
  PROVE  turns[i].request \in Request
<1>1. turns \in Seq(Turn)
  BY DEF Types
<1>2. turns[i] \in Turn
  BY <1>1
<1> QED
  BY <1>2 DEF Turn

LEMMA TurnsKept ==
  ASSUME Types, Settled, NEW g, NEW c \in [Request -> Nat],
         \A r \in Request :
           /\ run[r].pc = "done" => g[r].pc = "done" /\ c[r] = clicks[r]
           /\ clicks[r] <= c[r]
  PROVE  \A i \in DOMAIN turns : SettledTurn(g, c, turns[i])
<1> TAKE i \in DOMAIN turns
<1>1. SettledTurn(run, clicks, turns[i]) /\ turns[i].request \in Request
  BY TurnTyped DEF Settled
<1>2. clicks[turns[i].request] \in Nat
  BY <1>1, ConversationConstants DEF Types
<1> QED
  BY <1>1, <1>2 DEF SettledTurn

LEMMA ClicksTyped == ASSUME Types PROVE clicks \in [Request -> Nat]
BY ConversationConstants DEF Types

LEMMA SettledSends ==
  ASSUME Types, Flight, Settled, NEW r \in Request, NEW engine \in {"v1", "v2"},
         Sends(r, engine)
  PROVE  Settled'
<1>1. /\ run[r].pc = "unused" /\ \A q \in Request : q # r => run'[q] = run[q]
      /\ UNCHANGED <<turns, clicks>>
  BY DEF Sends, Types
<1>2. ASSUME NEW q \in Request
      PROVE  SettledRun(run', clicks', cancelled', q)
  <2>1. SettledRun(run, clicks, cancelled, q)
    BY DEF Settled
  <2>2. q # r => run[q].pc \notin {"fetch", "stream", "trace"}
    BY DEF Sends, Flight, OneInFlight, InFlight
  <2> QED
    BY <1>1, <2>1, <2>2 DEF SettledRun
<1>3. \A i \in DOMAIN turns : SettledTurn(run', clicks, turns[i])
  <2>1. \A q \in Request : /\ run[q].pc = "done" => run'[q].pc = "done"
                           /\ clicks[q] <= clicks[q]
    BY <1>1, ClicksTyped
  <2> QED
    BY <2>1, TurnsKept, ClicksTyped
<1> QED
  BY <1>1, <1>2, <1>3 DEF Settled

(* A step of a handler whose run differs in pc only. *)
LEMMA SettledMoves ==
  ASSUME Types, Settled, NEW r \in Request, NEW pc \in {"stream", "trace", "done"},
         InFlight(r), run' = [run EXCEPT ![r].pc = pc], UNCHANGED <<clicks, cancelled>>
  PROVE  /\ \A q \in Request : SettledRun(run', clicks', cancelled', q)
         /\ \A i \in DOMAIN turns : SettledTurn(run', clicks', turns[i])
<1>1. \A q \in Request :
        /\ run'[q].engine = run[q].engine
        /\ run'[q].pc = IF q = r THEN pc ELSE run[q].pc
  BY DEF Types, Handler
<1>2. \A q \in Request : SettledRun(run', clicks', cancelled', q)
  BY <1>1 DEF Settled, SettledRun, InFlight
<1>3. \A q \in Request : /\ run[q].pc = "done" => run'[q].pc = "done"
                         /\ clicks[q] <= clicks'[q]
  BY <1>1, ClicksTyped DEF InFlight
<1> QED
  BY <1>2, <1>3, TurnsKept, ClicksTyped

LEMMA SettledEnds ==
  ASSUME Types, Settled, NEW r \in Request, Ends(r)
  PROVE  Settled'
<1>1. /\ \A q \in Request : SettledRun(run', clicks', cancelled', q)
      /\ \A i \in DOMAIN turns : SettledTurn(run', clicks', turns[i])
  BY SettledMoves DEF Ends, Finish
<1>2. CASE UNCHANGED turns
  BY <1>1, <1>2 DEF Settled
<1>3. CASE Lands(r)
  <2> DEFINE n == Len(turns) + 1
  <2>1. run'[r].pc = "done" /\ run[r].pc # "done" /\ clicks' = clicks /\ clicks[r] = 0
    <3>1. run'[r].pc = "done" /\ run[r].pc # "done" /\ clicks' = clicks
      BY <1>3 DEF Ends, Finish, Types, InFlight
    <3>2. ~(clicks[r] > 0)
      BY <1>3 DEF Lands, Settled, SettledRun, Types, Handler
    <3> QED
      BY <3>1, <3>2, ClicksTyped
  <2>2. /\ DOMAIN turns' = DOMAIN turns \cup {n} /\ n \notin DOMAIN turns
        /\ \A i \in DOMAIN turns : turns'[i] = turns[i]
        /\ turns'[n].request = r /\ turns'[n].kind = "answer"
    BY <1>3, AppendEffect DEF Lands
  <2>3. \A i \in DOMAIN turns' : SettledTurn(run', clicks', turns'[i])
    BY <1>1, <2>1, <2>2 DEF SettledTurn
  <2>4. \A i \in DOMAIN turns : turns[i].kind = "answer" => turns[i].request # r
    BY <2>1 DEF Settled, SettledTurn
  <2>5. \A i, j \in DOMAIN turns' :
          /\ turns'[i].kind = "answer" /\ turns'[j].kind = "answer"
          /\ turns'[i].request = turns'[j].request
          => i = j
    BY <2>2, <2>4 DEF Settled
  <2> QED
    BY <1>1, <2>3, <2>5 DEF Settled
<1> QED
  BY <1>2, <1>3 DEF Ends, Tells, shown

LEMMA SettledStops ==
  ASSUME Types, Flight, Settled, NEW r \in Request, StopRequest(r)
  PROVE  Settled'
<1>1. /\ clicks' = [clicks EXCEPT ![r] = @ + 1]
      /\ cancelled' = TRUE /\ UNCHANGED <<run, turns>>
  BY DEF StopRequest, shown
<1>2. run[r].engine = "v1" /\ InFlight(r)
  BY ConversationConstants DEF StopRequest, Flight, OneInFlight
<1>3. clicks' \in [Request -> Nat]
  BY <1>1, ClicksTyped
<1>4. ASSUME NEW q \in Request
      PROVE  SettledRun(run', clicks', cancelled', q)
  BY <1>1, <1>2, ClicksTyped DEF Settled, SettledRun, InFlight
<1>5. \A q \in Request : /\ run[q].pc = "done" => clicks'[q] = clicks[q]
                         /\ clicks[q] <= clicks'[q]
  BY <1>1, <1>2, ClicksTyped DEF InFlight
<1>6. \A i \in DOMAIN turns : SettledTurn(run, clicks', turns[i])
  BY <1>3, <1>5, TurnsKept
<1> QED
  BY <1>1, <1>4, <1>6 DEF Settled

LEMMA SettledStopReturns ==
  ASSUME Types, Settled, NEW r \in Request, StopReturns(r)
  PROVE  Settled'
<1> DEFINE n == Len(turns) + 1
<1>1. AbortCurrent /\ UNCHANGED <<clicks, cancelled>>
  BY DEF StopReturns
<1>2. \A q \in Request : SettledRun(run', clicks', cancelled', q)
  BY <1>1, AbortEffect DEF Settled, SettledRun
<1>3. \A i \in DOMAIN turns : SettledTurn(run', clicks', turns[i])
  <2>1. \A q \in Request : /\ run[q].pc = "done" => run'[q].pc = "done"
                           /\ clicks[q] <= clicks'[q]
    BY <1>1, AbortEffect, ClicksTyped
  <2> QED
    BY <1>1, <2>1, TurnsKept, ClicksTyped
<1>4. clicks'[r] > 0
  BY <1>1, ConversationConstants DEF StopReturns, Types
<1>5. /\ DOMAIN turns' = DOMAIN turns \cup {n}
      /\ \A i \in DOMAIN turns : turns'[i] = turns[i]
      /\ turns'[n].request = r /\ turns'[n].kind = "cancelled"
  BY AppendEffect DEF StopReturns
<1>6. \A i \in DOMAIN turns' : SettledTurn(run', clicks', turns'[i])
  BY <1>3, <1>4, <1>5 DEF SettledTurn
<1>7. \A i, j \in DOMAIN turns' :
        /\ turns'[i].kind = "answer" /\ turns'[j].kind = "answer"
        /\ turns'[i].request = turns'[j].request
        => i = j
  BY <1>5 DEF Settled
<1> QED
  BY <1>2, <1>6, <1>7 DEF Settled

LEMMA SettledStep == Types /\ Flight /\ Settled /\ [Next]_vars => Settled'
<1> SUFFICES ASSUME Types, Flight, Settled, [Next]_vars PROVE Settled'
  OBVIOUS
<1>1. CASE Quiet
  BY <1>1 DEF Quiet, Settled, shown
<1>2. ASSUME NEW r \in Request, NEW pc \in {"stream", "trace"}, Continues(r, pc)
      PROVE  Settled'
  <2>1. UNCHANGED turns
    BY <1>2 DEF Continues
  <2>2. /\ \A q \in Request : SettledRun(run', clicks', cancelled', q)
        /\ \A i \in DOMAIN turns : SettledTurn(run', clicks', turns[i])
    BY <1>2, SettledMoves DEF Continues
  <2> QED
    BY <2>1, <2>2 DEF Settled
<1>3. CASE NewConversation
  BY <1>3 DEF NewConversation, Clear, Settled
<1>4. ASSUME NEW p \in Project, SwitchProject(p)
      PROVE  Settled'
  <2>1. AbortCurrent /\ cancelled' = TRUE /\ turns' = <<>> /\ UNCHANGED clicks
    BY <1>4 DEF SwitchProject, Clear
  <2>2. \A q \in Request : SettledRun(run', clicks', cancelled', q)
    BY <2>1, AbortEffect DEF Settled, SettledRun
  <2>3. DOMAIN turns' = {}
    BY <2>1
  <2> QED
    BY <2>2, <2>3 DEF Settled
<1> QED
  BY Kinds, SettledSends, SettledEnds, SettledStops, SettledStopReturns,
     <1>1, <1>2, <1>3, <1>4

---------------------------------------------------------------------------
(* The lines of the open stream: statuses is a fold of its events, and
   Without a fold of statuses. *)
Line == [id : Call \cup {"thinking"}, done : BOOLEAN]

(* What such a fold passes through, from the first line to the last. *)
Filters(F, id) ==
  /\ F \in [0..Len(statuses) -> Seq(Line)]
  /\ F[0] = <<>> /\ F[Len(statuses)] = Without(id)
  /\ \A k \in 1..Len(statuses) :
       F[k] = IF statuses[k].id = id THEN F[k - 1] ELSE Append(F[k - 1], statuses[k])

LEMMA WithoutRuns ==
  ASSUME NEW id, statuses \in Seq(Line)
  PROVE  \E F : Filters(F, id)
<1> DEFINE n == Len(statuses)
           empty == <<>>
           step == [k \in 1..n |-> [q \in Seq(Line) |->
                      IF statuses[k].id = id THEN q ELSE Append(q, statuses[k])]]
           iter == CHOOSE I : I = [t \in SUBSET DOMAIN statuses |->
                     IF t = {} THEN <<>>
                     ELSE IF statuses[Max(t)].id = id THEN I[t \ {Max(t)}]
                     ELSE Append(I[t \ {Max(t)}], statuses[Max(t)])]
<1>1. n \in Nat /\ DOMAIN statuses = 1..n /\ \A k \in 1..n : statuses[k] \in Line
  OBVIOUS
<1>2. step \in [1..n -> [Seq(Line) -> Seq(Line)]] /\ empty \in Seq(Line)
  <2>1. ASSUME NEW k \in 1..n, NEW q \in Seq(Line)
        PROVE  (IF statuses[k].id = id THEN q ELSE Append(q, statuses[k])) \in Seq(Line)
    BY <1>1
  <2> QED
    BY <2>1
<1>3. Without(id) = iter[DOMAIN statuses]
  BY DEF Without, FoldLeft, MapThenFoldSet
<1>4. PICK I \in [SUBSET (1..n) -> Seq(Line)] : FoldsTo(I, n, empty, step)
  <2> HIDE DEF n, step, empty
  <2> QED
    BY <1>1, <1>2, FoldExists
<1>5. \A t \in SUBSET (1..n) : t # {} => Max(t) \in 1..n /\ t \ {Max(t)} \in SUBSET (1..n)
  <2> HIDE DEF n
  <2> QED
    BY <1>1, MaxIsLargest
<1>6. I = [t \in SUBSET DOMAIN statuses |->
             IF t = {} THEN <<>>
             ELSE IF statuses[Max(t)].id = id THEN I[t \ {Max(t)}]
             ELSE Append(I[t \ {Max(t)}], statuses[Max(t)])]
  <2>1. ASSUME NEW t \in SUBSET (1..n)
        PROVE  I[t] = IF t = {} THEN <<>>
                      ELSE IF statuses[Max(t)].id = id THEN I[t \ {Max(t)}]
                      ELSE Append(I[t \ {Max(t)}], statuses[Max(t)])
    <3>1. I[t] = IF t = {} THEN <<>> ELSE step[Max(t)][I[t \ {Max(t)}]]
      BY <1>4 DEF FoldsTo
    <3>2. t # {} => I[t \ {Max(t)}] \in Seq(Line) /\ Max(t) \in 1..n
      BY <1>5
    <3> QED
      BY <3>1, <3>2
  <2> HIDE DEF n, step
  <2> QED
    BY <1>1, <2>1
<1>7. iter = [t \in SUBSET DOMAIN statuses |->
             IF t = {} THEN <<>>
             ELSE IF statuses[Max(t)].id = id THEN iter[t \ {Max(t)}]
             ELSE Append(iter[t \ {Max(t)}], statuses[Max(t)])]
  BY <1>6, Zenon
<1> HIDE DEF iter
<1>8. FoldsWithin(iter, n, Seq(Line), empty, step)
  <2>1. iter[{}] = <<>>
    BY <1>7
  <2>2. ASSUME NEW t \in SUBSET (1..n), t # {}, iter[t \ {Max(t)}] \in Seq(Line)
        PROVE  iter[t] = step[Max(t)][iter[t \ {Max(t)}]]
    BY <1>1, <1>5, <1>7, <2>2
  <2> QED
    BY <2>1, <2>2 DEF FoldsWithin
<1>10. PICK F \in [0..n -> Seq(Line)] : Runs(F, n, empty, step) /\ F[n] = iter[1..n]
  <2> DEFINE S == Seq(Line)
  <2>1. n \in Nat /\ empty \in S /\ step \in [1..n -> [S -> S]] /\ FoldsWithin(iter, n, S, empty, step)
    BY <1>1, <1>2, <1>8
  <2> HIDE DEF n, step, empty, S
  <2>2. \E F \in [0..n -> S] : Runs(F, n, empty, step) /\ F[n] = iter[1..n]
    BY ONLY <2>1, FoldRuns
  <2> QED
    BY <2>2 DEF S
<1>11. ASSUME NEW k \in 1..n
       PROVE  F[k] = IF statuses[k].id = id THEN F[k - 1] ELSE Append(F[k - 1], statuses[k])
  <2>1. k - 1 \in 0..n /\ F[k] = step[k][F[k - 1]]
    BY <1>10 DEF Runs
  <2>2. F[k - 1] \in Seq(Line)
    BY <2>1
  <2> QED
    BY <2>1, <2>2
<1>12. F[0] = <<>> /\ F[n] = Without(id)
  BY <1>1, <1>3, <1>10 DEF Runs
<1> QED
  BY <1>10, <1>11, <1>12 DEF Filters

(* How often an id has a line. *)
NoLine(s, c) == \A i \in DOMAIN s : s[i].id # c
OneLine(s, c, done) ==
  \E i \in DOMAIN s :
    /\ s[i].id = c /\ (s[i].done <=> done)
    /\ \A j \in DOMAIN s : s[j].id = c => j = i

LEMMA LineAdded ==
  ASSUME NEW s \in Seq(Line), NEW x \in Line, NEW c
  PROVE  /\ Append(s, x) \in Seq(Line)
         /\ x.id = c /\ NoLine(s, c) => OneLine(Append(s, x), c, x.done)
         /\ x.id # c /\ NoLine(s, c) => NoLine(Append(s, x), c)
         /\ \A done : x.id # c /\ OneLine(s, c, done) => OneLine(Append(s, x), c, done)
<1> DEFINE a == Append(s, x)
           n == Len(s)
<1>1. /\ a \in Seq(Line) /\ n \in Nat /\ DOMAIN s = 1..n /\ DOMAIN a = 1..(n + 1)
      /\ a[n + 1] = x /\ \A i \in 1..n : a[i] = s[i]
  OBVIOUS
<1> HIDE DEF a, n
<1>2. \A i \in DOMAIN a : (i \in DOMAIN s /\ a[i] = s[i]) \/ (i = n + 1 /\ a[i] = x)
  BY <1>1
<1>3. n + 1 \in DOMAIN a /\ n + 1 \notin DOMAIN s /\ \A i \in DOMAIN s : i \in DOMAIN a
  BY <1>1
<1>4. x.id = c /\ NoLine(s, c) => OneLine(a, c, x.done)
  BY <1>1, <1>2, <1>3 DEF NoLine, OneLine
<1>5. x.id # c /\ NoLine(s, c) => NoLine(a, c)
  BY <1>1, <1>2, <1>3 DEF NoLine
<1>6. ASSUME NEW done, x.id # c, OneLine(s, c, done)
      PROVE  OneLine(a, c, done)
  BY <1>1, <1>2, <1>3, <1>6 DEF OneLine
<1> QED
  BY <1>1, <1>4, <1>5, <1>6 DEF a

(* Taking the lines of one id away leaves those of the others as they are. *)
LEMMA WithoutLeaves ==
  ASSUME NEW id, statuses \in Seq(Line)
  PROVE  /\ Without(id) \in Seq(Line) /\ NoLine(Without(id), id)
         /\ \A c : NoLine(statuses, c) => NoLine(Without(id), c)
         /\ \A c, done : c # id /\ OneLine(statuses, c, done) => OneLine(Without(id), c, done)
<1> DEFINE n == Len(statuses)
           S == Seq(Line)
<1>0. PICK F : Filters(F, id)
  BY WithoutRuns
<1>1. /\ F \in [0..n -> S] /\ F[0] = <<>> /\ F[n] = Without(id)
      /\ \A k \in 1..n : F[k] = IF statuses[k].id = id THEN F[k - 1]
                                                       ELSE Append(F[k - 1], statuses[k])
  BY <1>0 DEF Filters
<1>2. /\ n \in Nat /\ DOMAIN statuses = 1..n
      /\ \A k \in 1..n : statuses[k] \in Line
  OBVIOUS
<1> HIDE DEF n, S
<1> DEFINE L(k, c) == {i \in 1..k : statuses[i].id = c}
           P(k) == /\ NoLine(F[k], id)
                   /\ \A c : L(k, c) = {} => NoLine(F[k], c)
                   /\ \A c : \A i \in 1..k :
                        c # id /\ L(k, c) = {i} => OneLine(F[k], c, statuses[i].done)
           bad == {k \in 0..n : ~P(k)}
<1>3. P(0)
  <2>1. DOMAIN F[0] = {} /\ 1..0 = {}
    BY <1>1
  <2> QED
    BY <2>1 DEF NoLine
<1>4. ASSUME NEW k \in 1..n, P(k - 1)
      PROVE  P(k)
  <2>1. /\ k \in Nat /\ k - 1 \in 0..n /\ F[k - 1] \in S /\ statuses[k] \in Line
        /\ \A i : i \in 1..k <=> (i \in 1..(k - 1) \/ i = k)
        /\ k \notin 1..(k - 1)
    BY <1>1, <1>2
  <2>2. \A c : /\ statuses[k].id # c => L(k, c) = L(k - 1, c)
               /\ statuses[k].id = c => L(k, c) = L(k - 1, c) \cup {k} /\ k \notin L(k - 1, c)
    BY <2>1
  <2>3. CASE statuses[k].id = id
    <3>1. F[k] = F[k - 1]
      BY <1>1, <2>3
    <3>2. \A c : c # id => L(k, c) = L(k - 1, c)
      BY <2>2, <2>3
    <3>3. L(k, id) # {}
      BY <2>2, <2>3
    <3> HIDE DEF L
    <3>4. \A c : \A i \in 1..k : L(k, c) = {i} /\ c # id => i \in 1..(k - 1)
      BY <3>2 DEF L
    <3> QED
      BY <1>4, <3>1, <3>2, <3>3, <3>4
  <2>4. CASE statuses[k].id # id
    <3> DEFINE x == statuses[k]
    <3>1. F[k] = Append(F[k - 1], x)
      BY <1>1, <2>4
    <3>2. \A c : /\ x.id = c /\ NoLine(F[k - 1], c) => OneLine(F[k], c, x.done)
                 /\ x.id # c /\ NoLine(F[k - 1], c) => NoLine(F[k], c)
                 /\ \A done : x.id # c /\ OneLine(F[k - 1], c, done) => OneLine(F[k], c, done)
      <4>1. ASSUME NEW c
            PROVE  /\ x.id = c /\ NoLine(F[k - 1], c) => OneLine(F[k], c, x.done)
                   /\ x.id # c /\ NoLine(F[k - 1], c) => NoLine(F[k], c)
                   /\ \A done : x.id # c /\ OneLine(F[k - 1], c, done) => OneLine(F[k], c, done)
        <5>1. F[k - 1] \in Seq(Line) /\ x \in Line
          BY <2>1 DEF S
        <5> HIDE DEF x
        <5> QED
          BY ONLY <3>1, <5>1, LineAdded
      <4> QED
        BY <4>1
    <3> HIDE DEF x
    <3>3. NoLine(F[k], id)
      BY <1>4, <2>4, <3>2 DEF x
    <3>4. ASSUME NEW c, L(k, c) = {}
          PROVE  NoLine(F[k], c)
      <4>1. x.id # c /\ L(k - 1, c) = {}
        BY <2>2, <3>4 DEF x
      <4> QED
        BY <1>4, <3>2, <4>1
    <3>5. ASSUME NEW c, NEW i \in 1..k, c # id, L(k, c) = {i}
          PROVE  OneLine(F[k], c, statuses[i].done)
      <4>1. CASE x.id = c
        <5>1. i = k /\ L(k - 1, c) = {}
          BY <2>2, <3>5, <4>1 DEF x
        <5> QED
          BY <1>4, <3>2, <4>1, <5>1 DEF x
      <4>2. CASE x.id # c
        <5>1. L(k - 1, c) = {i}
          BY <2>2, <3>5, <4>2 DEF x
        <5>2. i \in 1..(k - 1)
          BY <5>1
        <5> QED
          BY <1>4, <3>2, <3>5, <4>2, <5>1, <5>2
      <4> QED
        BY <4>1, <4>2
    <3> QED
      BY <3>3, <3>4, <3>5
  <2> QED
    BY <2>3, <2>4
<1> HIDE DEF P
<1>5. bad = {}
  <2> SUFFICES ASSUME bad # {} PROVE FALSE
    OBVIOUS
  <2>1. PICK k \in bad : \A m \in bad : k <= m
    <3>1. bad \in SUBSET Nat
      OBVIOUS
    <3> HIDE DEF bad
    <3> QED
      BY <3>1, SmallestNumber
  <2>2. k \in 0..n /\ ~P(k) /\ k # 0
    BY <1>3
  <2>3. k \in 1..n /\ k - 1 \in 0..n /\ ~(k <= k - 1)
    BY <1>2, <2>2
  <2>4. P(k - 1)
    BY <2>1, <2>3
  <2> QED
    BY <1>4, <2>2, <2>3, <2>4
<1>6. P(n)
  <2>1. n \in 0..n
    BY <1>2
  <2> QED
    BY <1>5, <2>1
<1>7. ASSUME NEW c, NoLine(statuses, c)
      PROVE  NoLine(F[n], c)
  <2>1. L(n, c) = {}
    BY <1>2, <1>7 DEF NoLine
  <2> QED
    BY <1>6, <2>1 DEF P
<1>8. ASSUME NEW c, NEW done, c # id, OneLine(statuses, c, done)
      PROVE  OneLine(F[n], c, done)
  <2>1. PICK i \in 1..n : /\ statuses[i].id = c /\ (statuses[i].done <=> done)
                          /\ \A j \in 1..n : statuses[j].id = c => j = i
    BY <1>2, <1>8 DEF OneLine
  <2>2. L(n, c) = {i}
    BY <2>1
  <2>3. OneLine(F[n], c, statuses[i].done)
    BY <1>6, <1>8, <2>2 DEF P
  <2> QED
    BY <2>1, <2>3 DEF OneLine
<1>9. F[n] \in S /\ NoLine(F[n], id)
  <2>1. n \in 0..n
    BY <1>2
  <2> QED
    BY <1>1, <1>6, <2>1 DEF P
<1> QED
  BY <1>1, <1>7, <1>8, <1>9 DEF S

(* The map of ToolCompleted: a call's line is ticked, the others stay. *)
LEMMA TickedLines ==
  ASSUME NEW s \in Seq(Line), NEW d \in Call,
         NEW t, t = [i \in DOMAIN s |-> IF s[i].id = d THEN Entry(d, TRUE) ELSE s[i]]
  PROVE  /\ t \in Seq(Line)
         /\ \A c : NoLine(s, c) => NoLine(t, c)
         /\ \A c, done : c # d /\ OneLine(s, c, done) => OneLine(t, c, done)
         /\ \A done : OneLine(s, d, done) => OneLine(t, d, TRUE)
<1>1. \A i \in DOMAIN s : s[i] \in Line
  OBVIOUS
<1>2. Entry(d, TRUE) \in Line /\ Entry(d, TRUE).id = d /\ Entry(d, TRUE).done = TRUE
  BY DEF Entry, Line
<1>3. t \in Seq(Line)
  <2>1. DOMAIN s = 1..Len(s) /\ Len(s) \in Nat
    OBVIOUS
  <2>2. \A i \in 1..Len(s) : t[i] \in Line
    BY <1>1, <1>2, <2>1
  <2>3. t \in [1..Len(s) -> Line]
    BY <2>1, <2>2
  <2> QED
    BY ONLY <2>1, <2>3, SeqDef
<1>4. DOMAIN t = DOMAIN s /\ \A i \in DOMAIN s : t[i].id = s[i].id
  BY <1>2
<1>5. \A i \in DOMAIN s : t[i].done = IF s[i].id = d THEN TRUE ELSE s[i].done
  BY <1>2
<1>6. \A c : NoLine(s, c) => NoLine(t, c)
  BY <1>4 DEF NoLine
<1>7. ASSUME NEW c, NEW done, c # d, OneLine(s, c, done)
      PROVE  OneLine(t, c, done)
  <2>1. PICK i \in DOMAIN s : /\ s[i].id = c /\ (s[i].done <=> done)
                              /\ \A j \in DOMAIN s : s[j].id = c => j = i
    BY <1>7 DEF OneLine
  <2>2. t[i].id = c /\ t[i].done = s[i].done
    BY <1>4, <1>5, <1>7, <2>1
  <2>3. t[i].done <=> done
    BY <2>1, <2>2, Zenon
  <2>4. \A j \in DOMAIN t : t[j].id = c => j = i
    BY <1>4, <2>1
  <2> QED
    BY <1>4, <2>2, <2>3, <2>4 DEF OneLine
<1>8. \A done : OneLine(s, d, done) => OneLine(t, d, TRUE)
  BY <1>4, <1>5 DEF OneLine
<1> QED
  BY <1>3, <1>6, <1>7, <1>8

(* The lines shown are those of the calls. *)
Follow(s, t) ==
  /\ s \in Seq(Line)
  /\ \A c \in Call : IF t[c] = "none" THEN NoLine(s, c)
                                     ELSE OneLine(s, c, t[c] = "completed")
  /\ NoLine(s, "thinking") \/ OneLine(s, "thinking", FALSE)

Streaming(r) == InFlight(r) /\ run[r].engine = "v2"

Lines ==
  /\ tools \in [Call -> {"none", "started", "completed"}]
  /\ server \in [Request -> {"none", "working", "committed", "cancelled"}]
  /\ statuses = None \/ Follow(statuses, tools)
  /\ \A r \in Request : Streaming(r) => Follow(statuses, tools)

(* The kinds of steps, as far as the lines see them. *)
LEMMA LineKinds ==
  ASSUME [Next]_vars, Types
  PROVE  \/ \E r \in Request : Events(r) \/ RunV2Turn(r)
         \/ \E r \in Request : Ends(r) /\ UNCHANGED <<tools, server>>
         \/ \E r \in Request : SubmitV1(r)
         \/ /\ UNCHANGED <<statuses, tools>>
            /\ \/ UNCHANGED server
               \/ \E r \in Request : ServerCommits(r) \/ CancelArrives(r)
            /\ \A q \in Request : Streaming(q)' => Streaming(q)
<1> DEFINE Same == /\ UNCHANGED <<statuses, tools>>
                   /\ \/ UNCHANGED server
                      \/ \E r \in Request : ServerCommits(r) \/ CancelArrives(r)
                   /\ \A q \in Request : Streaming(q)' => Streaming(q)
<1> USE DEF Streaming, InFlight
<1>1. ASSUME UNCHANGED vars
      PROVE  Same
  BY <1>1 DEF vars
<1>2. ASSUME NEW r \in Request, ServerCommits(r) \/ CancelArrives(r)
      PROVE  Same
  BY <1>2 DEF ServerCommits, CancelArrives
<1>3. ASSUME NEW r \in Request, V1Responds(r) \/ V2Responds(r)
      PROVE  Same
  <2>1. PICK pc \in {"stream", "trace"} : run' = [run EXCEPT ![r].pc = pc]
    BY <1>3 DEF V1Responds, V2Responds
  <2>2. \A q \in Request : /\ run'[q].engine = run[q].engine
                           /\ q # r => run'[q].pc = run[q].pc
    BY <2>1 DEF Types, Handler
  <2>3. Streaming(r)' => Streaming(r)
    <3>1. run[r].pc = "fetch"
      BY <1>3 DEF V1Responds, V2Responds, Awaits
    <3>2. run'[r].engine = run[r].engine
      BY <2>2
    <3> QED
      BY ONLY <3>1, <3>2 DEF Streaming, InFlight
  <2>4. ASSUME NEW q \in Request, q # r, Streaming(q)' PROVE Streaming(q)
    <3>1. run'[q].engine = run[q].engine /\ run'[q].pc = run[q].pc
      BY <2>2, <2>4
    <3> QED
      BY ONLY <2>4, <3>1 DEF Streaming, InFlight
  <2>5. UNCHANGED <<statuses, tools, server>>
    BY <1>3 DEF V1Responds, V2Responds
  <2> HIDE DEF Streaming
  <2> QED
    BY <2>3, <2>4, <2>5
<1>4. ASSUME NEW r \in Request, V2Final(r)
      PROVE  Same \/ (Ends(r) /\ UNCHANGED <<tools, server>>)
  <2>1. CASE Finish(r)
    BY <1>4, <2>1 DEF V2Final, Streams, Awaits, Ends, Finish, shown
  <2>2. CASE run' = [run EXCEPT ![r].pc = "trace"] /\ UNCHANGED <<statuses, tools, server>>
    <3>1. \A q \in Request : /\ run'[q].engine = run[q].engine
                             /\ q # r => run'[q].pc = run[q].pc
      BY <2>2 DEF Types, Handler
    <3> QED
      BY <1>4, <2>2, <3>1 DEF V2Final, Streams, Awaits
  <2> QED
    BY <1>4, <2>1, <2>2 DEF V2Final
<1>5. ASSUME NEW r \in Request, V1TraceArrives(r) \/ V2TraceArrives(r)
      PROVE  Ends(r) /\ UNCHANGED <<tools, server>>
  BY <1>5 DEF V1TraceArrives, V2TraceArrives, Ends, Lands, Finish, shown
<1>6. ASSUME NEW r \in Request, V1Fails(r) \/ Aborts(r) \/ V2Fails(r) \/ V2EndsSilently(r)
      PROVE  Ends(r) /\ UNCHANGED <<tools, server>>
  BY <1>6 DEF V1Fails, Aborts, V2Fails, V2EndsSilently, Ends, Tells, Streams, Awaits,
              Finish, shown
<1>7. ASSUME NEW r \in Request, StopRequest(r)
      PROVE  Same
  BY <1>7 DEF StopRequest
<1>8. ASSUME AbortCurrent, UNCHANGED <<statuses, tools, server>>
      PROVE  Same
  BY <1>8, AbortEffect
<1>9. ASSUME NEW r \in Request, StopReturns(r)
      PROVE  Same
  BY <1>8, <1>9 DEF StopReturns
<1>10. ASSUME NewConversation
       PROVE  Same
  BY <1>10 DEF NewConversation
<1>11. ASSUME NEW p \in Project, SwitchProject(p)
       PROVE  Same
  BY <1>8, <1>11 DEF SwitchProject
<1> HIDE DEF Same
<1> DEFINE Kind(r) == \/ Same \/ Events(r) \/ RunV2Turn(r) \/ SubmitV1(r)
                      \/ Ends(r) /\ UNCHANGED <<tools, server>>
<1>13. ASSUME NEW r \in Request, Proceeds(r)
       PROVE  Kind(r)
  BY <1>2, <1>3, <1>4, <1>5, <1>6, <1>13 DEF Proceeds
<1>14. ASSUME NEW r \in Request, \/ SubmitV1(r) \/ RunV2Turn(r) \/ Events(r)
                                 \/ CancelArrives(r) \/ StopRequest(r) \/ StopReturns(r)
       PROVE  Kind(r)
  BY <1>2, <1>7, <1>9, <1>14
<1>12. Same \/ \E r \in Request : Kind(r)
  <2>1. \A r \in Request : Same => Kind(r)
    OBVIOUS
  <2> HIDE DEF Kind
  <2>2. CASE \E r \in Request :
               \/ SubmitV1(r) \/ RunV2Turn(r) \/ Proceeds(r) \/ Events(r)
               \/ CancelArrives(r) \/ StopRequest(r) \/ StopReturns(r)
    BY <1>13, <1>14, <2>2
  <2>3. CASE \E p \in Project : SwitchProject(p)
    BY <1>11, <2>3
  <2>4. CASE Next
    BY <1>10, <2>2, <2>3, <2>4 DEF Next
  <2> QED
    BY <1>1, <2>4
<1> QED
  BY <1>12 DEF Same

(* An event keeps the lines in step with the calls. *)
LEMMA FollowEvents ==
  ASSUME NEW r \in Request, Events(r), Follow(statuses, tools), tools \in [Call -> {"none", "started", "completed"}]
  PROVE  Follow(statuses', tools') /\ tools' \in [Call -> {"none", "started", "completed"}]
<1> DEFINE kept == Without("thinking")
           ping == Entry("thinking", FALSE)
<1>1. statuses \in Seq(Line)
  BY DEF Follow
<1>2. /\ kept \in Seq(Line) /\ NoLine(kept, "thinking")
      /\ \A c : NoLine(statuses, c) => NoLine(kept, c)
      /\ \A c, done : c # "thinking" /\ OneLine(statuses, c, done) => OneLine(kept, c, done)
  BY <1>1, WithoutLeaves
<1>3. \A c \in Call : c # "thinking"
  BY ConversationConstants
<1> HIDE DEF kept
<1>4. \A c \in Call : IF tools[c] = "none" THEN NoLine(kept, c)
                                           ELSE OneLine(kept, c, tools[c] = "completed")
  BY <1>2, <1>3 DEF Follow
<1>5. CASE AnswerChunk(r)
  <2>1. statuses' = kept /\ tools' = tools
    BY <1>5 DEF AnswerChunk, kept
  <2> QED
    BY <1>2, <1>4, <2>1 DEF Follow
<1>6. CASE Thinking(r)
  <2>1. statuses' = Append(kept, ping) /\ tools' = tools
    BY <1>6 DEF Thinking, kept
  <2>2. ping \in Line /\ ping.id = "thinking" /\ ping.done = FALSE
    BY DEF Entry, Line
  <2> HIDE DEF ping
  <2>3. Append(kept, ping) \in Seq(Line) /\ OneLine(Append(kept, ping), "thinking", FALSE)
    BY <1>2, <2>2, LineAdded
  <2>4. \A c \in Call : /\ NoLine(kept, c) => NoLine(Append(kept, ping), c)
                        /\ \A done : OneLine(kept, c, done) => OneLine(Append(kept, ping), c, done)
    BY <1>2, <1>3, <2>2, LineAdded
  <2>5. ASSUME NEW c \in Call
        PROVE  IF tools[c] = "none" THEN NoLine(Append(kept, ping), c)
               ELSE OneLine(Append(kept, ping), c, tools[c] = "completed")
    <3>1. OneLine(kept, c, tools[c] = "completed")
            => OneLine(Append(kept, ping), c, tools[c] = "completed")
      BY <2>4
    <3> QED
      BY <1>4, <2>4, <3>1
  <2>6. statuses' \in Seq(Line) /\ OneLine(statuses', "thinking", FALSE)
    BY <2>1, <2>3
  <2> QED
    BY <2>1, <2>5, <2>6 DEF Follow
<1>7. CASE ToolStarted(r)
  <2>1. PICK d \in Call : /\ tools[d] = "none" /\ tools' = [tools EXCEPT ![d] = "started"]
                          /\ statuses' = Append(kept, Entry(d, FALSE))
    BY <1>7 DEF ToolStarted, kept
  <2> DEFINE e == Entry(d, FALSE)
  <2>2. e \in Line /\ e.id = d /\ e.done = FALSE
    BY DEF Entry, Line
  <2> HIDE DEF e
  <2>3. statuses' = Append(kept, e)
    BY <2>1 DEF e
  <2>4. statuses' \in Seq(Line) /\ OneLine(statuses', d, FALSE) /\ NoLine(statuses', "thinking")
    BY <1>2, <1>3, <1>4, <2>1, <2>2, <2>3, LineAdded
  <2>5. \A c \in Call \ {d} :
           /\ NoLine(kept, c) => NoLine(statuses', c)
           /\ \A done : OneLine(kept, c, done) => OneLine(statuses', c, done)
    BY <1>2, <2>2, <2>3, LineAdded
  <2>6. /\ tools' \in [Call -> {"none", "started", "completed"}] /\ tools'[d] = "started"
        /\ \A c \in Call \ {d} : tools'[c] = tools[c]
    BY <2>1
  <2>7. \A c \in Call \ {d} : IF tools'[c] = "none" THEN NoLine(statuses', c)
                                ELSE OneLine(statuses', c, tools'[c] = "completed")
    BY <1>4, <2>5, <2>6
  <2>8. (tools'[d] = "completed") = FALSE /\ tools'[d] # "none"
    BY <2>6
  <2> QED
    BY <2>4, <2>6, <2>7, <2>8 DEF Follow
<1>8. CASE ToolCompleted(r)
  <2>1. PICK d \in Call :
          /\ tools[d] = "started" /\ tools' = [tools EXCEPT ![d] = "completed"]
          /\ statuses' = [i \in DOMAIN statuses |->
                            IF statuses[i].id = d THEN Entry(d, TRUE) ELSE statuses[i]]
    BY <1>8 DEF ToolCompleted
  <2>2. /\ statuses' \in Seq(Line)
        /\ \A c : NoLine(statuses, c) => NoLine(statuses', c)
        /\ \A c, done : c # d /\ OneLine(statuses, c, done) => OneLine(statuses', c, done)
        /\ \A done : OneLine(statuses, d, done) => OneLine(statuses', d, TRUE)
    BY <1>1, <2>1, TickedLines
  <2>3. OneLine(statuses, d, tools[d] = "completed")
    BY <2>1 DEF Follow
  <2>4. OneLine(statuses', d, TRUE)
    BY <2>2, <2>3
  <2>5. /\ tools' \in [Call -> {"none", "started", "completed"}] /\ tools'[d] = "completed"
        /\ \A c \in Call \ {d} : tools'[c] = tools[c]
    BY <2>1
  <2>6. \A c \in Call \ {d} : IF tools'[c] = "none" THEN NoLine(statuses', c)
                                ELSE OneLine(statuses', c, tools'[c] = "completed")
    BY <2>2, <2>5 DEF Follow
  <2>7. (tools'[d] = "completed") = TRUE /\ tools'[d] # "none"
    BY <2>5
  <2>8. NoLine(statuses', "thinking") \/ OneLine(statuses', "thinking", FALSE)
    BY <1>3, <2>2 DEF Follow
  <2> QED
    BY <2>2, <2>4, <2>5, <2>6, <2>7, <2>8 DEF Follow
<1> QED
  BY <1>5, <1>6, <1>7, <1>8 DEF Events

LEMMA FollowEmpty ==
  Follow(<<>>, [c \in Call |-> "none"])
<1>1. <<>> \in Seq(Line) /\ \A c : NoLine(<<>>, c)
  BY DEF NoLine
<1> QED
  BY <1>1 DEF Follow

LEMMA LinesStep == Types /\ Flight /\ Flight' /\ Lines /\ [Next]_vars => Lines'
<1> SUFFICES ASSUME Types, Flight, Flight', Lines, [Next]_vars PROVE Lines'
  OBVIOUS
<1>1. ASSUME NEW r \in Request, Events(r)
      PROVE  Lines'
  <2>1. /\ UNCHANGED <<run, server>> /\ Streaming(r)
    BY <1>1 DEF Events, Thinking, ToolStarted, ToolCompleted, AnswerChunk, OnlyTheStream,
                Streams, Awaits, Streaming, InFlight
  <2> QED
    BY <1>1, <2>1, FollowEvents DEF Lines
<1>2. ASSUME NEW r \in Request, RunV2Turn(r)
      PROVE  Lines'
  <2>1. /\ statuses' = <<>> /\ tools' = [c \in Call |-> "none"]
        /\ server' = [server EXCEPT ![r] = "working"]
    BY <1>2 DEF RunV2Turn, Send
  <2>2. Follow(statuses', tools')
    BY <2>1, FollowEmpty
  <2> QED
    BY <2>1, <2>2 DEF Lines
<1>3. ASSUME NEW r \in Request, Ends(r), UNCHANGED <<tools, server>>
      PROVE  Lines'
  <2>1. busy' = FALSE /\ statuses' \in {None, statuses}
    BY <1>3 DEF Ends, Finish
  <2>2. \A q \in Request : ~Streaming(q)'
    BY <2>1 DEF Flight, OneInFlight, Streaming
  <2> QED
    BY <1>3, <2>1, <2>2 DEF Lines
<1>4. ASSUME NEW r \in Request, SubmitV1(r)
      PROVE  Lines'
  <2>1. /\ UNCHANGED <<statuses, tools>> /\ server' = [server EXCEPT ![r] = "working"]
        /\ controller' = r /\ run'[r].engine = "v1"
    BY <1>4 DEF SubmitV1, Send, Types
  <2>2. \A q \in Request : ~Streaming(q)'
    BY <2>1 DEF Flight, OneInFlight, Streaming
  <2> QED
    BY <2>1, <2>2 DEF Lines
<1>5. CASE /\ UNCHANGED <<statuses, tools>>
           /\ \/ UNCHANGED server
              \/ \E r \in Request : ServerCommits(r) \/ CancelArrives(r)
           /\ \A q \in Request : Streaming(q)' => Streaming(q)
  <2>1. server' \in [Request -> {"none", "working", "committed", "cancelled"}]
    BY <1>5 DEF ServerCommits, CancelArrives, Lines
  <2> QED
    BY <1>5, <2>1 DEF Lines
<1> QED
  BY <1>1, <1>2, <1>3, <1>4, <1>5, LineKinds

---------------------------------------------------------------------------
IInv == Types /\ Flight /\ Fit /\ Settled /\ Lines

LEMMA IInvAlways == Spec => []IInv
<1>1. Init => IInv
  <2>1. Init => Lines
    BY DEF Init, Lines, Streaming, InFlight
  <2> QED
    BY <2>1, InitInv DEF IInv
<1>2. IInv /\ [Next]_vars => IInv'
  BY TypesStep, FlightStep, FitStep, SettledStep, LinesStep DEF IInv
<1> QED
  BY <1>1, <1>2, PTL DEF Spec

(* Whatever is sent, stopped, switched or lost, one request is in flight at a
   time and the shared controller is its own (runV2Turn's comment). *)
THEOREM OneRequest == Spec => []OneInFlight
<1>1. IInv => OneInFlight
  BY DEF IInv, Flight
<1> QED
  BY <1>1, IInvAlways, PTL

(* What is shown, and the thread of the next question, belong to the project
   selected, however often it was switched while requests were in flight. *)
THEOREM AnswersFit == Spec => []AnswersFitProject
<1>1. IInv => AnswersFitProject
  <2> SUFFICES ASSUME IInv PROVE AnswersFitProject
    OBVIOUS
  <2>1. \A r \in Request : run[r].thread # None =>
          run[run[r].thread].project = run[r].project
    BY DEF IInv, Fit, FitsRun, Names
  <2>2. FitsShown(run, project, threadId, v2Error, turns)
    BY DEF IInv, Fit
  <2> QED
    BY <2>1, <2>2 DEF AnswersFitProject, IsAnswer, FitsShown, Names
<1> QED
  BY <1>1, IInvAlways, PTL

(* No request is shown both as answered and as cancelled, nor answered twice,
   whatever the order of stops, their replies and the answers. *)
THEOREM OneOutcomeEach == Spec => []OneOutcome
<1>1. IInv => OneOutcome
  <2> SUFFICES ASSUME IInv, NEW i \in DOMAIN turns, NEW j \in DOMAIN turns,
                      i # j, turns[i].request = turns[j].request
               PROVE  ~IsAnswer(i) /\ ~IsAnswer(j)
    BY DEF OneOutcome
  <2>1. /\ SettledTurn(run, clicks, turns[i]) /\ SettledTurn(run, clicks, turns[j])
        /\ ~(IsAnswer(i) /\ IsAnswer(j))
    BY DEF IInv, Settled, IsAnswer
  <2>2. ~(0 > 0)
    OBVIOUS
  <2> QED
    BY <2>1, <2>2 DEF SettledTurn, IsAnswer
<1> QED
  BY <1>1, IInvAlways, PTL

(* Types, for any number of questions, calls, projects, switches and stops. *)
THEOREM TypeCorrect == Spec => []TypeOK
<1>1. IInv => TypeOK
  BY DEF IInv, Types, Turn, Lines, Follow, Line, TypeOK
<1> QED
  BY <1>1, IInvAlways, PTL

(* While a turn streams, each started call has one line, ticked if and only if
   the call is completed, and "thinking" has at most one: whatever the order of
   pings, chunks and tool events (the comments of runV2Turn). *)
THEOREM StatusesFollow == Spec => []StatusesFollowCalls
<1>1. IInv => StatusesFollowCalls
  <2> SUFFICES ASSUME IInv, statuses # None
               PROVE
    /\ \A c \in Call :
         LET lines == {i \in DOMAIN statuses : statuses[i].id = c}
         IN /\ Cardinality(lines) = IF tools[c] = "none" THEN 0 ELSE 1
            /\ \A i \in lines : statuses[i].done <=> tools[c] = "completed"
    /\ Cardinality({i \in DOMAIN statuses : statuses[i].id = "thinking"}) <= 1
    BY DEF StatusesFollowCalls
  <2> DEFINE lines(c) == {i \in DOMAIN statuses : statuses[i].id = c}
  <2>1. Follow(statuses, tools)
    BY DEF IInv, Lines
  <2>2. ASSUME NEW c, NoLine(statuses, c)
        PROVE  lines(c) = {} /\ Cardinality(lines(c)) = 0
    <3>1. lines(c) = {}
      BY <2>2 DEF NoLine
    <3> QED
      BY <3>1, FS_EmptySet
  <2>3. ASSUME NEW c, NEW done, OneLine(statuses, c, done)
        PROVE  /\ Cardinality(lines(c)) = 1
               /\ \A i \in lines(c) : statuses[i].done <=> done
    <3>1. PICK i \in DOMAIN statuses :
            /\ statuses[i].id = c /\ (statuses[i].done <=> done)
            /\ \A j \in DOMAIN statuses : statuses[j].id = c => j = i
      BY <2>3 DEF OneLine
    <3>2. lines(c) = {i}
      BY <3>1
    <3> QED
      BY <3>1, <3>2, FS_Singleton
  <2>4. ASSUME NEW c \in Call
        PROVE  /\ Cardinality(lines(c)) = IF tools[c] = "none" THEN 0 ELSE 1
               /\ \A i \in lines(c) : statuses[i].done <=> tools[c] = "completed"
    <3>1. CASE tools[c] = "none"
      BY <2>1, <2>2, <3>1 DEF Follow
    <3>2. CASE tools[c] # "none"
      <4>1. OneLine(statuses, c, tools[c] = "completed")
        BY <2>1, <3>2 DEF Follow
      <4> HIDE DEF lines
      <4> QED
        BY <2>3, <3>2, <4>1
    <3> QED
      BY <3>1, <3>2
  <2>5. Cardinality(lines("thinking")) <= 1
    <3>1. Cardinality(lines("thinking")) \in {0, 1}
      BY <2>1, <2>2, <2>3 DEF Follow
    <3> QED
      BY <3>1
  <2> QED
    BY <2>4, <2>5
<1> QED
  BY <1>1, IInvAlways, PTL
=============================================================================
