# Verification of the ARMIE construction-intelligence workbench

This directory is the verification development of the workbench: the API server under
`src/apps/api/app` and the web front end under `src/apps/web/src`. It holds TLA+
modules of their stateful parts, TLC configurations that check them on small instances,
and TLAPS proofs of what matters most for instances of any size. File paths below are
relative to `src/apps/api/app` (`*.py`) or `src/apps/web/src` (`*.tsx`).

Contents: [the system](#the-system), [the modules](#the-modules-and-the-code),
[the runs](#the-runs), [fairness](#fairness), [the proofs](#the-proofs),
[disagreements found](#disagreements-between-the-code-and-its-documents),
[what is not modelled](#what-is-not-modelled-and-why), [the plan](#the-plan).

## The system

The server answers questions about a building project from its IFC model and its PDF
drawings. It is one asyncio process (FastAPI, one replica); everything that blocks
(stores, project loading, V1's agent, V2's tools) runs on threads of an executor via
`asyncio.to_thread`. Two agents answer the questions sent to `/api/v1/chat`, the
request's `engine` choosing one: V1 plans first and executes then (one JSON answer), V2
lets a model call tools in rounds (a stream of events). Comparing the door and window
schedules of the model and of the drawings (reconciliation) creates engineering findings, which
reviewers move through a lifecycle, and which V2 turns may investigate.

The front end is one React page. Its right half is the conversation (`App` in
`main.tsx`); its left half has four tabs (the IFC viewer, the drawing, a snapshot, the
findings) of which only the open one is mounted. It has one thread, but every `await`
and every effect is a point where clicks, project switches and late answers cut in.

| Component | State it keeps | Operations | Talks to |
| --- | --- | --- | --- |
| Findings: tables (`finding_workflow.py`) | none | which action leads from which status where; re-verify outcome | store, handlers |
| Findings: store (`persistence/finding_store.py`, Postgres twin) | findings, history, pending proposal | upsert, append transition, set proposal, reads; each under a lock or in a row-locked transaction | handlers |
| Findings: handlers (`main.py` 909-1032, `_chat_v2`) | what each read before it calls the store | transition, re-verify, investigate, reconcile | store, agents, project cache |
| Chat requests (`main.py` 400-905) | `app.state.requests`, the coroutines | chat, V2 chat and its stream, resume, status, cancel, disconnect | conversation store, project cache, agents |
| Conversation store (`persistence/conversation_store.py`, `postgres_store.py`, `factory.py`) | context and project binding of each thread | get, set, bind_project | chat requests |
| Project cache (`services.py`, `adls.py`) | resources in memory, files on disk, a lock per project | get_project, check, remove, download, publish | chat requests, Data Lake |
| V2 agent (`agent/graph.py` 2610-3200, `agent/tools.py`) | the state of one turn | rounds, tool dispatch, labels of the answer | models, tools, findings |
| V1 agent (`agent/graph.py` 300-780, 1200-1560) | the state of one turn | route, plan, repair, escalate, recover, execute, synthesize | models, contracts, tools |
| Plan contracts (`agent/plan_validation.py`, `agent/router.py`) | none | canonicalize, group, validate, batch, gate, check consistency | V1 agent |
| Reconciliation (`agent/graph.py` 781-943, 1268-1319) | none | read both schedules, compare each tag | tools, findings |
| IFC repository, PDF analyzer, retrieval, providers, verifiers | open files, HTTP clients | reads, extraction, model calls | agents |
| Rate limiter, access control (`rate_limit.py`, `security.py`) | sliding windows | allow or refuse | chat requests |
| Connection pool (`persistence/postgres_store.py` 84-143) | pool, its token's age | refresh, hand out, close | Postgres stores |
| Audit trail, telemetry, evidence files, configuration | append-only rows, none | write | handlers |
| Conversation panel (`main.tsx` 85-440) | turns, thread, error, busy, the shared AbortController, the lines of a stream | submit V1 or V2, stream events, stop, new conversation, switch project | chat requests |
| IFC viewer (`IfcViewer.tsx`) | scenes, the map of the mount's meshes, the published status | begin, load, tear down, highlight, pick | shell, asset routes |
| Page images (`apiClient.tsx`) | one object URL and its effect | fetch, show, revoke | shell, asset routes |
| Findings panel (`Findings.tsx`) | the cards on display, requests in flight | load, click a button, land the answer | findings handlers |
| Workspace shell (`main.tsx`) | project, tab, metadata, evidence focus | open tab, switch project, citations, pages | the four above |
| Decision story, access key (`DecisionStory.tsx`, `apiClient.tsx`) | what is unfolded; the key | render; attach the key | shell |

**What is hard here, and the properties that answer it.**

- *Interleaving of handlers on a finding.* A handler reads a finding, decides, and
  only then calls the store; between the two any other handler may run. The store's
  lock and a version check on the proposal must be enough. (`DecidedOnce`,
  `SnapshotIsReviewed`, `HistoryIsChain`, `ProposalNeverReturns`; and
  `LifecycleSpec`, which holds only if reviewers do not overlap.)
- *Late effects.* An investigation may end after its finding was settled; an
  abandoned worker thread may write a context after its request was cancelled; an
  orphaned loader may remove or publish files. (`ResolvedHasNoProposal`,
  `V1CancelledWroteNothing`, `SharedSafely`.)
- *Stale reads.* Re-verification uses a status read before two slow reads; a turn
  writes back the context it read before the agent ran. (`ClosedMeansMatched`,
  `ThreadKeepsProject`.)
- *Every path out of a handler must settle its record*, with timeouts, cancels,
  disconnects and failures racing. (`V1RunningIsWorkedOn`, `OutcomeKept`,
  `V1GetsOutcome`, `EndsInTime`, `CallerReturns`; in the page `BusyEnds`.)
- *Partial failure.* One of several tools or subplans fails: the turn must not be
  labelled as answered, and its numbers not as verified. (`OutcomeIsEarned`,
  `VerifiedIsEarned`, `DispositionIsTrue`.)
- *Repairs after a check.* V1's plans are rewritten after they were validated.
  (`ExecutedIsSound`, `PerStoreyStaysPerStorey`.)
- *Crash and restart.* The request table is lost, a Postgres context is not.
  (`ThreadKeepsProject`.)
- *Answers that come late to a page that has moved on.* A project switch, a stop, a new
  conversation or a page turn happens while a fetch, a trace, a model load, a blob or a
  list is awaited, and each handler sees the state of a render that may be past.
  (`AnswersFitProject`, `OneOutcome`, `OneInFlight`, `MapIsLit`, `PageIsCurrent`.)
- *Two copies of one table.* The page offers buttons by its own mirror of the lifecycle,
  on cards that may be stale. (`FreshClickAccepted`, `DecisionIsOfShown`.)

`PROJECT.json` lists each hazard with the line where it bites, the properties that catch
it, and where these stop short a note. Overlapping reviewer requests are caught by
`TerminalIsFinal`, the chain and the decisions; the properties of `findings_one_reviewer`
say nothing of them, since it has one reviewer slot. Of a stop that hits the next question
`StopsOnlyItsOwn` tells, while `OneInFlight` holds.

## The modules and the code

`map` in `PROJECT.json` gives the lines each definition models. Each module states
its abstraction in its header; this is how they fit together:

```
FindingWorkflow <- FindingStore <- FindingApi <- MCFindingApi
       ^                               |  \____ FindingApiProofs
       '------- FindingLifecycle <-----'  (INSTANCE, the abstract specification)
ConversationStore <- ChatRequests <- MCChatRequests
                          '--------- ChatRequestProofs
ProjectCache <- MCProjectCache          ProjectCache <- ProjectCacheProofs
AgentTurn <- MCAgentTurn                AgentTurn <- AgentTurnProofs
PlanContracts <- PlannedTurn <- MCPlannedTurn
                      '-------- PlannedTurnProofs

BrowserTab <- Conversation <- MCConversation
     ^              '--------- ConversationProofs
     |---- Viewer --------.
     |---- PageImage -----+-- Workspace <- MCWorkspace
     '---- FindingsPanel -'          '---- WorkspaceProofs
                |  '-- FindingWorkflow
                '-- FindingLifecycle  (INSTANCE, the server a reviewer meets)

FoldLemmas <- AgentTurnProofs, ConversationProofs, PlannedTurnProofs
```

**FindingWorkflow** holds the two tables of `finding_workflow.py`. **FindingStore** is
`InMemoryFindingStore`; each operation holds the store's lock throughout and is one
step. A finding's `key` is the triple (project, tag, type); `seen` abstracts the
observed values to "they matched" or one of the disagreements. **FindingApi** splits
each handler at the point where others may run: `TransitionRead` / `TransitionStore`
for the sync handler on its thread, `ReverifyRead` / `ReverifyStore` around two awaits,
`InvestigationStarts` / `InvestigationProposes` around a whole V2 turn. `shown` is a
history variable: the proposals clients have ever seen, hence the only ones they can
name in a decision. **FindingLifecycle** is the abstract specification: the lifecycle
as a reviewer understands it, every action atomic. `FindingApi!LifecycleSpec` is its
instance under the refinement mapping that forgets histories, values and handlers.

**ConversationStore** has the thread's binding and context with their atomic
operations, for both back ends; a restart keeps everything (Postgres) or nothing
(memory). Of a context it keeps the projects its turns were answered from.
**ChatRequests** has one record per coroutine whose `pc` names the await it is at, the
table `app.state.requests`, and `late`, the writes that worker threads may still do
after nobody awaits them. `wrote` is a history variable. What the agent computes is an
outcome: an answer, a question back, a refusal, an exception, a timeout, a cancel.

**ProjectCache** is `get_project` for one project: the queue at the `asyncio.Lock`,
the resources in memory, the state of the directory, and worker threads with their own
`pc`. `world` is chosen once: what is on disk at the start, whether callers time out,
whether removals may fail.

**AgentTurn** is `invoke_v2`: rounds of a model call and parallel tools, the deadline
and the cancel arriving at any moment, the folding of results, and the two labels of
an answer. Of an answer it keeps the numbers it states, of a tool result the outcome,
the numbers and whether it cites a source. A provider or a tool that raises ends the turn
without a final event ("raised"). `told`, `shown` and `invoked` are history variables.

**PlanContracts** has the pure functions every V1 plan goes through, one operator for
each correction, free text being reduced to what the contracts look for in it.
**PlannedTurn** is V1's graph: the context check, the heuristics, the planner with its
repair, escalation, language, delta and recovery calls, the last canonicalization, the
execution subplan by subplan and the synthesis. `QueryPlan` and `MultiQueryPlan` are the
schema; what a planner returns is any subset of it (`PlannedTurnConstants`) whose
groupings are the schema's (`FitsSchema`). A grouping that a planner put into the filters
instead is not checked until the contracts have moved it: if it is unknown, the execution
refuses the plan and the turn raises (`Executing`, `ExecutionRaises`).

**BrowserTab** has what the parts of the page share: the projects, and `null`.
**Conversation** is the right half. A request has a record whose `pc` says what its
handler awaits (the response, the stream, the trace) and what its closure captured when
it was sent (thread, project, `switchSeq`). `controller`, `cancelled` and `active` are
the shared refs and the state that the stop button looks at; `stopping` counts clicks on
it whose POST is still awaited. `server` says what became of the request, which does not
depend on whether the page still waits. A turn keeps its request and whether it is an
answer or a "cancelled" note. `tools` is what the stream has told so far, `statuses` the
lines on screen.

**Viewer** has one record per scene for its `loadProjection`, which no cleanup stops,
and `meshes`, the map that all scenes of one mount share: for each element the scene its
mesh belongs to and whether it is lit. **PageImage** numbers the effects of
`useAuthedImage`, each with its fetch and its object URL. **FindingsPanel** is the list,
the cards and the clicks; its server is `FindingLifecycle`, so that other reviewers move
while a click is under way, and what overlapping handlers do to each other stays with
FindingApi. In a click's record `shown` is the card at the click, `met` the finding that
the server had when it arrived (history, for the properties). A click's connection may fail
before the server has acted (`PostIsLost`): the card is free again, and the request may
arrive all the same, or never. **Workspace** composes the
three with tabs, project, metadata and the drawing in focus: `Reaches` unmounts the old
tab's component and mounts the new one's.

## The runs

Passing runs check every property in one state space; each property also has a mutant
(a plausible bug in one mapped definition, named `\* mutant` where it is defined) that
violates it.

| Run | Instance | Distinct states | What it shows |
| --- | --- | --- | --- |
| `findings_concurrent` | 1 finding, 2 reviewer slots, 2 turns, 2 proposals, histories to 7 entries | 58 034 | What holds whatever the order: the history is a chain, each proposal is decided once and recorded as reviewed, nothing is pending on a resolved finding, a verified closure rests on matching values, no proposal returns. |
| `findings_one_reviewer` | 2 findings of one key, 1 reviewer slot, 2 turns | 6 697 | With non-overlapping reviewer requests the handlers implement `FindingLifecycle`, a condition has one active finding, and a proposal is pending only where action is required. |
| `requests` | 2 coroutines, 2 ids, 1 thread, 2 projects, 2 remembered turns | 425 k | Records belong to their request, threads keep their project, V1's records are settled on every path and, under fairness, eventually; outcomes are not replaced. |
| `project_cache` | 2 callers, 3 workers, every initial disk | 232 k | Sharing is safe (`SharedSafely`: what is served is what was verified, no load under a served project, racing workers never fail one another), and every caller returns. |
| `agent_turn` | 3 rounds with 2, 1 and 1 tool calls, 2 subjects, 1 stated number | 2.3 M | The disposition is earned (`OutcomeIsEarned`: "answered" means all tools did, the stored text is the streamed one, findings come from answers only), so is "verified" (`VerifiedIsEarned`), calls are counted, no round starts after a stop and the turn ends (`EndsInTime`). |
| `planned_turn` | 3 classes (one unknown), every question of `QuestionSet` and planner output of `PlannerOutputs` | 313 k | What is executed is valid and each target runs once (`ExecutedIsSound`), "per storey" stays per storey, the disposition is true (`DispositionIsTrue`: "answered" means all subplans, a failed planner is an error), and no more than six planning calls are made. |
| `conversation` | 2 questions of either engine, 2 tool calls, 2 projects, 2 switches, 2 stops each | 798 k | One request is in flight, every answer, error and thread on display belongs to the selected project, no question has two outcomes, the lines of a stream follow its calls, and under fairness the form comes back. |
| `workspace` | 2 projects with 1 element and 1 finding each, 2 pages, 4 scenes, 3 moves | 1.37 M | Highlights and meshes agree, the image is the page's, a button is refused only on a stale card, and a decision is about the proposal on the card, while everything that loads may arrive in any order or fail. |
| `findings_terminal_race`, `requests_v2_running`, `conversation_stop`, `workspace_late_load` | smaller instances of the same | | One statement of the documents or comments each, which the code does not keep; see [below](#disagreements-between-the-code-and-its-documents). |

**The bounds, and why they are enough.**

- *Findings.* Interference needs two requests on one finding, and both the in-flight
  ones and a proposal that replaces another: two slots, two turns, two proposals. A
  history of seven entries goes once around the whole cycle (open, acknowledged, action
  required, resolved, back to action required) and closes. `MaxHistory` stops new
  requests on a long finding and nothing else. In the one-reviewer run, two findings of
  one key are what a re-created condition needs. For any other number the proofs
  take over.
- *Requests.* Two coroutines are a request and the one that races with it (same thread,
  same id, or both); `late` lets more than two requests' effects overlap. Two ids allow a
  third request to be refused. `MemoryTurns = 2` lets the window slide.
- *Project cache.* Two workers may be orphaned while a third one loads for a caller;
  three are needed for a check, a removal and a publication to interleave.
- *V2 turn.* Two parallel calls differ in outcome; the second round overrides claims of
  the first; the third one is past the cap. One stated number is enough because every
  check of the label is a conjunction over the stated numbers; the tag and the storey
  are numbers that are in citations without being facts.
- *V1 turn.* `MaxAttempts = 6` is not a guard of the model but a claim of `TypeOK`:
  plan, repair, escalation, language, delta and recovery are the most a turn makes. The
  planner's outputs contain each defect that one of the contracts looks for, and two IFC
  subplans that name no class (`Unnamed`), which validation lets pass as clarifications:
  "per storey" does not merge those, so that `EachTargetOnce` speaks of named classes
  only; the gate refuses the others.
- *Conversation.* Only one request is in flight at a time, so interference needs one
  that has ended but left something behind (a stop's POST) and the next one: two
  questions. Two switches lead away and back, which a check of the project's name alone
  would miss. A third question makes the run eleven times larger and finds nothing more;
  `ConversationProofs` has any number of them.
- *Workspace.* What matters is what is in flight when something else is begun: two moves
  overlap with a load, the third returns to where it began (away and back) or clicks on
  what others have changed. Fetches, loads and answers are not moves and are not
  bounded, but by the scenes (`MaxScenes = 4`: the first one and one for each move).
  `WorkspaceProofs` has any number of moves.

`CHECK_DEADLOCK FALSE` is set where the modelled thing ends: a turn (AgentTurn,
PlannedTurn), a project that is in memory with no load under way (ProjectCache), a tab
whose questions are used up (`conversation_stop` and `conversation`), and a page with
its moves used up and nothing in flight (the runs of Workspace).
`SYMMETRY` is used in `findings_concurrent` only, which has no liveness property, over
slots and proposal ids, which no definition tells apart.

## Fairness

- *ChatRequests*: weak fairness of each coroutine's own steps. Each await of `chat` and
  `_chat_v2` ends: the project's and the agent's have `asyncio.wait_for` deadlines, a
  store call returns or raises (Postgres statements have a timeout). Nothing is assumed
  of clients, cancels, restarts, or of writes left to abandoned workers.
- *ProjectCache*: weak fairness of each worker (threads run; a download ends, well or
  not) and of a caller's turn at the lock (`asyncio.Lock` is first come, first served).
  No fairness of callers that ask or give up.
- *AgentTurn*: weak fairness of the clock and of the loop's own steps. The model and the
  tools may hang for ever: `TurnEnds` rests on the deadline alone.
- *Conversation*: weak fairness of what the page awaits, for each request: the server's
  deadlines bound its work and a proxy the silence on a connection, so that a fetch
  resolves or rejects. Nothing is assumed of the user or of a cancel's POST.
- *FindingApi*, *PlannedTurn* and *Workspace* have safety properties only and assume
  nothing.

## The proofs

Every invariant and action property of a passing run is also a theorem, for every value
of the constants; liveness is not (see the end of this section).

`FindingApiProofs` proves, for any number of findings, keys, proposals, reviewer
requests and turns, from the named assumptions `StoreConstants` and `ApiConstants` only:

- `TypeCorrect`, `ResolvedSafe`, `ClosedSafe`, `SnapshotSafe`, `DecidedSafe`,
  `ChainSafe` (invariants) and `NeverReturns` (an action property) of `Spec`;
- with `OneAtATime` (any two reviewer slots are the same one), `OneReviewerActionable`,
  `OneReviewerOneActive`, `OneReviewerTerminal` and `OneReviewerLifecycle`: the handlers
  implement `FindingLifecycle!Spec`. `OneReviewerTerminal` is the statement that the run
  `findings_terminal_race` refutes for two requests: the overlap is what breaks it, and
  nothing else.

*The argument.* `TypeOK` is not inductive: that a store call writes a well-typed
history entry depends on what the handler holds. `Base` adds `HandlersInv` (a handler
between read and store call has an existing finding, a target its action leads to, and
for a decision a proposal that has been shown for that very finding), `TurnsInv` and
`ProposalsShown` (whatever is pending or decided was shown, and no proposal for two
findings). `BaseStep` has one step for each action. One effect lemma per store operation
(`AppendEffect`, `UpsertEffect`, `SetProposalEffect`, `TransitionStoreEffect`, ...) says
what the operation does to one finding and that it leaves the others alone;
`StoreSteps` reduces `Next` to them. Each invariant then has its own induction,
relative to `Base`, with a case for each effect. The refinement needs `ReadsHold` in
addition: with one reviewer at a time the status a handler read is still the finding's,
since turns and reconciliations do not change the status of an existing finding; then a
store call is the abstract step, and a read is a stutter. `ReadsHold` is also why a
condition keeps one active finding: a transition moves only a finding that is still
active, and an upsert creates one only where it sees none that is.

`ChatRequestProofs` proves, for any number of coroutines, request ids, threads and
projects, from `ConversationConstants` and `RequestConstants` only: `TypeCorrect`,
`OwnRecord`, `V1RunningIsReal`, `V1CancelledSafe` and `ThreadSafe` (invariants) and
`OutcomeStays` (an action property).

*The argument.* `Base` adds to `TypeOK` that the record of every working coroutine names
it as its task (`Assigned`), that the record's status fits the await the coroutine is at
and nothing is written before the store call (`Progress`), and that an id which is not in
the table has left no write behind (`Recorded`).
Twenty actions are too many for one case split in each proof: every step of a coroutine
is of one of five kinds (it `GoesOn`, `Settles` its record, `Leaves` without doing so,
`Resumes` or `Arrives`), one lemma per action says which (`...Shape`), and `BaseStep`
and the inductions of `OutcomeKept`, `V1RunningIsWorkedOn` and `V1CancelledWroteNothing`
go by kind. `ThreadKeepsProject` is not inductive on its own: a context written later
comes from a coroutine that has claimed the thread, or from a worker that nobody awaits
any more. `ThreadInv` says of all of them that the thread is bound and that what they hold is from
the bound project only.

`ConversationProofs` proves, for any number of questions, projects, switches and stops,
from `NoneIsNoProject` and `ConversationConstants` only: `TypeCorrect`, `OneRequest`,
`AnswersFit`, `OneOutcomeEach` and `StatusesFollow`.

*The argument.* The inductive invariant `IInv` has five parts. `Types` leaves out the
lines of a stream, which nothing else is set from. `Flight` adds to `OneInFlight` that
the refs are cleared when nothing is in flight. `Fit` says why a late answer cannot land
in the wrong project: a request whose `seq` is the current one was sent from the current
project, and one that still awaits its response or stream with another `seq` has been
aborted by the switch. `Settled` says why a stop and an answer exclude each other: a
stopped request was of V1, and while it is in flight its answer will be dropped
(`cancelled` is reset by the next question only, which cannot be sent before). Twenty-odd
actions are of eight kinds as far as these see them (`Kinds`), and each part has one
induction by kind. `Lines` is about the lines of a stream (`Follow`: one line for each
call told of, ticked exactly if completed): `WithoutLeaves` says what the fold that
removes "thinking" leaves of them, `LineAdded` and `TickedLines` what the two events do.

`WorkspaceProofs` proves, for any number of projects, elements, findings, pages, scenes
and moves, from the named assumptions of the four modules: `TypeCorrect`,
`HighlightsArePainted`, `PageShownIsCurrent`, `RefusedIsStale` and `DecisionAsShown`.

*The argument.* Each part has an invariant of its own that is kept by whatever the page
lets it do (`ImageStep`, `ViewerStep`, `PanelStep`); one lemma per action of the page
shows that each part moves as it may and that only the open tab is mounted, and
`PartsStep` puts them together. The viewer's invariant adds that the rendered scene
belongs to the current mount and that the map is empty while nothing is mounted. The
panel's adds that a proposal is pending only where action is required, on the server, on
every card and in every click (`Good`), and that each click's action is a button of its
card; `FreshAccepted` then is the heart of `RefusedIsStale`: whatever the mirror offers
on an up-to-date card, the server's tables allow.

`ProjectCacheProofs` proves, for any number of callers and worker threads and whatever
the disk holds at the start, from `CacheConstants` only: `TypeCorrect` and
`SharingIsSafe`.

*The argument.* A lock is safe only as long as its queue is one: `QueueInv` says that a
caller has a place in it exactly if it is not idle, and that only its holder loads, for a
project that is not in memory; `ThreadsInv` that an awaited thread is at work, and is the
only one its caller awaits. With `TypeOK` that is `Base`, and `Leaving` and `Joining` say
what a hand-over, a timeout in the queue and a new caller do to it. What the disk holds
needs `DiskInv`: each thread's place in the download says what it must find, and the two
environments the code can rely on need different invariants. If only verified files were
ever there (`Clean`), any number of threads may be at it, since none ever removes one
(`CleanDisk`). If no load is abandoned and every removal succeeds (`Alone`),
the thread is alone and its own last step says what is there (`AloneDisk`). Anywhere else
the code promises nothing about the disk, and neither do the two parts of `SharedSafely`
that ask for `Sound`.

`AgentTurnProofs` proves, for any subjects, numbers, claims and numbers of rounds and
of parallel calls, from `TurnConstants` only: `TypeCorrect`, `OutcomeEarned`,
`CallsAreCounted`, `VerifiedEarned`, and the half of the last that binds a claim to its
subject on its own, `ClaimsAboutSubject`.

*The argument.* `CallsInv` keeps what a call may have come back with until the round is
gathered; `ResultShape` says of every tool's results that their facts are known ones and
that a reconciliation is an answer. From these, `facts \subseteq Known` and `ItemsInv`
(there are items to promote only if something was answered) are kept. `TextInv` says that
the text kept so far, with the chunk of the round that streams, is what the client was
shown. `SubjectValues` reduces the sum over several subjects to a fact of no subject, so
that it can never be the value a subject's own claim is confirmed by.

`ToolCallsCounted` compares a number folded from the results of a round with one that
was counted while the tools ran. The invariant that joins them is `CountInv`: while tools
are out there is a list of partial sums (`SumsCalls`) that begins at the count of the
rounds before and ends at the number of tools invoked; a tool that ends raises all the
partial sums behind it, and the collector's fold is the last one. `VerifiedIsEarned` rests
on `FactsInv` (the number of every fact is one a tool returned) and on what a confirmed
claim can be worth: the number of a fact, or the sum over facts of single subjects, which
has to be shown to be a sum of numbers that were told (`SumRenamed`).

`PlannedTurnProofs` proves, for any classes, plans and questions and whatever the
planner's calls and the tools come back with, from `PlanConstants` (there is a supported
class, and finitely many) and `PlannedTurnConstants` only: `TypeCorrect`, `ExecutedSound`,
`PerStoreyKept` and `DispositionTrue`; and of the contracts alone, `ContractedKeeps`.

*The argument.* Nothing validates a plan after the delta, the canonicalization and the
grouping contract have changed it. `ExecutedIsValid` holds because the contracts
preserve validity, but validity alone is not preserved: a grouped IFC subplan without a
class is valid as a clarification, and `WithShape` makes an aggregate of it, which needs a
class. What is preserved is `Settled`, validity together with `Shaped` (a grouped subplan
has the intent, operation and shape of a grouping), and `Shaped` holds of everything a
contract has been through, since `WithShape` is its last correction. There is one lemma
for each correction (`...Keeps`), and `DeclaredKeeps`, `CanonicalKeeps`,
`EnforceGroupedKeeps` and `ContractedKeeps` put them together; the lists they build from
sets need `SetToSeqLists`, and the choice among several plans for one class
`OfEntityKeeps`. `PlanInv` then says what the plan is at each node of the graph: a plan
of the schema once there is one, settled from the moment the planner was heard out, valid
and per storey (`PerStoreyPlan`) when it is run. `PerStoreyStaysPerStorey` follows with the gate,
which refuses a subplan without a class (`StoreyCounted`). `CallsBounded` has a bound on
the calls for each node. For the disposition, `PlanFirst` says that no tool has run and
nothing was given up before there is a plan to execute; `GivenUp` that after a recovery
that failed the plan is the one unsupported subplan, whose every result is an error.
`OverallShape` says what the synthesis makes of a sequence of results.

`FoldLemmas` has what these proofs share: the largest and smallest of a finite set of
numbers, and folds over sequences and sums over sets. A fold is a recursive function over
the subsets of its domain, and the libraries' induction theorems take a predicate
as a parameter, which the provers cannot instantiate. Induction is by a smallest
counterexample instead: the finite subsets of a set are well-founded by strict inclusion,
so that a set of counterexamples that is not empty has a member with no smaller one
(`SmallestSet`, `SmallestNumber`), and the step contradicts it. `FoldExists`, `RunsUnique`
and `SumUnique` are proved in this way.

*What the proofs changed in the models.* `GateAnswers`, `DefaultOp` and `AgentFails` were
CASE expressions whose arms overlapped; TLC takes the first that applies, the language
allows any, and so does a prover: the arms now exclude each other. `OfEntity` chooses by
index, and `Without` is a fold, instead of `SelectSeq`. `PlannedTurn!MaxAttempts` is a
definition, since the graph has no other value for it. The planner's outputs, the
questions and the agent's claims are assumed to be of their types, which the code's
schemas enforce.

*Out of the provers' reach, checked by TLC only*: liveness (`V1GetsOutcome`,
`CallerReturns`, `EndsInTime`, `BusyEnds`) and anything with ENABLED.

## Disagreements between the code and its documents

Each is a `finding` in `PROJECT.json` with the quoted line and the run that shows it.

1. `findings_terminal_race`: two overlapping transitions take a finding out of
   "waived"; the second store call overwrites a status it does not look at
   (`main.py:938`, `persistence/finding_store.py:200`).
2. `requests_v2_running`: a V2 request whose project fails to load stays "running" for
   ever (`main.py:794`).
3. `conversation_stop`: the stop of a question awaits its POST and then aborts whatever
   the shared controller holds, which may be the next question (`main.tsx:432`).
4. `workspace_late_load`: the load of a scene that was torn down writes into the map the
   next scene's highlights paint (`IfcViewer.tsx:388`).

Met while modelling, without a run of their own:

- `_execute_pdf` returns no `result_value`, so a number read from a drawing never becomes
  a fact and an honest answer that states it is "unverified"
  (`docs/specs/SPEC-M18-structured-answer-verification-v1.md:65` expects "exactly the same
  rigor as an IFC one").
- `canonicalize_subplan` reads a copy of the filters that an out-of-scope correction
  before it has emptied (`agent/plan_validation.py:184`); `PlanContracts!MoveGrouping`
  models the copy.
- `enforce_grouped_request_contract` keeps IFC subplans only: a question that also
  asks the drawing loses that half without a word.
- Two overlapping turns of a thread both write the context they read: one is forgotten.
- A V2 request cancelled while its context is being stored says "cancelled" and is
  remembered all the same (`main.py:744`; `docs/specs/SPEC-M1-reliability-foundation-v1.md:124`).
- On a tampered directory, a worker orphaned by a timeout removes what the next load has
  verified (`services.py:237`). It cannot happen on a directory only the server wrote to
  (`SharedSafely`, whose `Sound` says exactly that).
- An answer without digits is "verified" although no data tool answered
  (`agent/graph.py:3008`).
- A plan given up after repair and escalation is turned back into an executable count by
  the last canonicalization (`agent/graph.py:553`).
- `app.state.requests` only grows (`main.py:451`); a timed-out agent keeps its thread of
  the executor (`main.py:519`); the deployment's budget is charged before the caller's
  own window is looked at (`security.py:93`); a caller may hold the pool that a token
  refresh closes (`persistence/postgres_store.py:124`); the Postgres history is read in
  the order of the transactions' starts (`persistence/postgres_store.py:327`); one
  failing tool loses its siblings' results (`agent/graph.py:3152`); the scalar batch
  runs outside any subplan's gate (`agent/graph.py:662`).
- In the conversation panel: the "cancelled" note says that no result was committed, but
  the server may have committed one (`ServerCommits` before `CancelArrives`); a stop
  whose POST returns after a project switch appends its note to the new project's
  conversation; two clicks on Stop append two turns with one key; a new conversation
  leaves the request in flight alone, so a late answer lands in it with the old thread,
  or, in V2 while its trace is fetched, with no thread at all; a V1 answer is lost if its
  trace cannot be read; a V2 stream that ends without a final event says nothing
  (`V2EndsSilently`).
- In the viewer: a torn-down scene's load still publishes "ready" for a scene nobody
  sees.
- In the findings panel: a slow list request overwrites a newer result, the cards of the
  project before stay until the new list lands, and `busyId` remembers one card only.
- In the shell: `loadMetadata` has no guard, so that the drawing tab may ask the new
  project for the old one's document (`main.tsx:151`). Two first requests may each open
  a session (`ensureSessionId`).
- `DecisionStory`'s breakdown leaves out a stage although its comment says that the steps
  add up to the total (`DecisionStory.tsx:398`).

## What is not modelled, and why

- *Reconciliation*: an outcome in the modules above (matched, mismatched, failing). Its
  comparison treats a missing dimension as 0.0 (`agent/graph.py:912`). Planned.
- *PDF and viewer execution, retrieval, IFC reads, verifiers, providers*: I/O and
  geometry; the agents' modules keep every outcome they may have.
- *Postgres finding store*: a transaction for each operation, with a row lock where it
  updates. Its history is read back in the order of the transactions' starts, which the
  in-memory list cannot show. Planned as a second implementation of FindingStore.
- *Connection pool, executor size, rate limiter*: planned; until then a store call takes
  any time, and may fail.
- *Audit, telemetry, evidence files, configuration, migrations, scripts*: no state that
  a modelled property depends on. Handlers and page are modelled apart: the handlers'
  models accept any order of requests, which is more than this page sends, and the page's
  models let the server answer, refuse or fail in any order.
- *Front end*: `DecisionStory.tsx` renders an answer and keeps no state but what is
  unfolded. The access key and the session id are values set once. Of the viewer, picking
  by ray, camera, materials and snapshots are left out, and of the shell the selected
  element and the zoom. A mesh payload is well formed: a throw in the middle of building
  its meshes (`IfcViewer.tsx:359`), which would leave some of them in the map unpainted,
  is not a step. A project has one document. `IFCWorker.js` (73 624 lines, nearly
  all of the repository's JavaScript) is the worker of web-ifc-three, copied from
  `node_modules` by `copy-ifc-wasm.mjs`; no file of the front end imports it, and it is
  third-party code that this project does not model. Measured on files ending in `.js`,
  the share of lines modelled therefore stays near zero; of the front end's own files it
  is what `map` names.
- *Wording*: prompts, answers, labels for people, the calibration of confidence.

## The plan

Order of work: 1. findings (store, handlers, lifecycle, their proofs); 2. requests and
conversations; 3. project cache; 4. V2 turn; 5. V1 contracts and turn; 6. the front end
(conversation, then viewer, images and findings under the shell) and its proofs; 7. the
proofs about cache, V2 turn, V1 turn and its contracts. These exist.
Next:

1. **Reconciliation**: reading two schedules page by page and comparing tags, against a
   reference definition over bounded inputs; composed with FindingStore so that "a
   re-verified tag gets the verdict a full reconciliation gives it" is a property.
2. **PostgresFindingStore**: the upsert by `INSERT ... ON CONFLICT` on the partial unique
   index, `SELECT ... FOR UPDATE` in the two updates, the history ordered by transaction
   start, compared with FindingStore: what it implements and where the two differ (an
   update that would make a second active finding of a key fails here).
3. **Admission**: both sliding windows with their clock, and **PoolRefresh**: the swap of
   the pool under its lock against callers that hold the old one.
4. **Executor**: bounded worker threads shared by abandoned and new calls, composed with
   ChatRequests.
5. **DecisionStory**: the durations it derives from a trace, against the total it claims
   they add up to; PDF execution.

Runs for them replace or share those of the disagreements above; the proofs come after
TLC agrees with the inductive invariant of each module.
