----------------------------- MODULE FindingApi -----------------------------
(***************************************************************************)
(* The handlers that change findings, interleaved as the server runs them. *)
(*   transition_finding  a sync handler on a thread of the pool: it reads  *)
(*                       the finding, decides, and only then calls the     *)
(*                       store (main.py)                                   *)
(*   reverify_finding    async: it reads the finding, awaits the project   *)
(*                       and the fresh comparison, and calls the store     *)
(*   an investigation    a chat turn (V2) about a finding, which ends by   *)
(*                       setting the finding's pending proposal            *)
(*   a reconciliation    a chat turn that upserts one finding per          *)
(*                       disagreement (agent/graph.py)                     *)
(* Between a handler's read and its store call any other handler may run.  *)
(***************************************************************************)
EXTENDS FindingStore

CONSTANTS Reviewer,      \* request slots for transition and reverify calls
          Turn,          \* request slots for investigating chat turns
          MaxHistory     \* bound: no new request on a finding this long

ASSUME ApiConstants == MaxHistory \in Nat

VARIABLES reviewer,      \* each slot's handler: what it read and decided
          turn,          \* the finding each chat turn investigates, or 0
          shown          \* the proposals a client has ever been shown

vars == <<findings, reviewer, turn, shown>>

(* A handler between its read of the finding and its call of the store: `at`
   is the store call it is about to make, `read` the proposal it read. *)
Handler == [at : {"idle", "transition", "reverify"}, finding : FindingId,
            action : Action, to : Status, read : MaybeProposal,
            reviewed : MaybeProposal]

Idle == [at |-> "idle", finding |-> 1, action |-> "acknowledge",
         to |-> "open", read |-> NoProposal, reviewed |-> NoProposal]

Init ==
  /\ StoreInit
  /\ reviewer = [r \in Reviewer |-> Idle]
  /\ turn = [t \in Turn |-> 0]
  /\ shown = [f \in FindingId |-> {}]

Admits(f) == Exists(f) /\ Len(findings[f].history) < MaxHistory

---------------------------------------------------------------------------
(* transition_finding, up to the store call: read, validate, and for a
   decision about a proposal require that one is pending and that the caller
   names the one it reviewed.  A client can only name one it was shown. *)
TransitionRead(r) ==
  \E f \in FindingId, a \in Action, to \in Status, p \in MaybeProposal :
    /\ reviewer[r].at = "idle"
    /\ Admits(f)
    /\ ValidTransition(a, findings[f].status, to)
    /\ IF a \in ProposalRequired
         THEN findings[f].pending # NoProposal /\ p \in shown[f]
         ELSE p = NoProposal
    /\ reviewer' = [reviewer EXCEPT ![r] =
         [at |-> "transition", finding |-> f, action |-> a, to |-> to,
          read |-> findings[f].pending, reviewed |-> p]]
    /\ UNCHANGED <<findings, turn, shown>>

(* The early returns of transition_finding and reverify_finding: 404 for an
   unknown finding, 409 for an action its status does not allow, and 409 for a
   decision when no proposal is pending or when its caller names none. *)
RequestRefused(r) ==
  \E f \in FindingId, a \in Action :
    /\ reviewer[r].at = "idle"
    /\ \/ ~Exists(f)
       \/ \A to \in Status : ~ValidTransition(a, findings[f].status, to)
       \/ a \in ProposalRequired
    /\ UNCHANGED vars

(* The store call of transition_finding.  The snapshot is the proposal the
   handler read, the expected id the one its caller reviewed. *)
TransitionStore(r) ==
  LET h == reviewer[r]
      f == h.finding
  IN /\ h.at = "transition"
     /\ reviewer' = [reviewer EXCEPT ![r] = Idle]
     /\ \/ /\ ExpectedProposal(f, h.reviewed)
           /\ AppendTransition(f, h.to,
                IF h.action \in ProposalRequired THEN h.read ELSE NoProposal,
                IF h.action \in ClearsProposal THEN NoProposal
                                               ELSE findings[f].pending,
                findings[f].seen)
        \/ /\ ~ExpectedProposal(f, h.reviewed)
           /\ UNCHANGED findings
     /\ UNCHANGED <<turn, shown>>

---------------------------------------------------------------------------
ReverifyAnyStatus(r) ==           \* mutant: the status guard dropped
  \E f \in FindingId :
    /\ reviewer[r].at = "idle"
    /\ Admits(f)
    /\ reviewer' = [reviewer EXCEPT ![r] =
         [Idle EXCEPT !.at = "reverify", !.finding = f]]
    /\ UNCHANGED <<findings, turn, shown>>

(* reverify_finding, up to its first await. *)
ReverifyRead(r) ==
  \E f \in FindingId :
    /\ reviewer[r].at = "idle"
    /\ Admits(f)
    /\ findings[f].status = "resolved"
    /\ reviewer' = [reviewer EXCEPT ![r] =
         [Idle EXCEPT !.at = "reverify", !.finding = f]]
    /\ UNCHANGED <<findings, turn, shown>>

(* After the awaits: the outcome follows from the status read before them and
   from the fresh comparison; the store call names no expected proposal. *)
ReverifyStore(r) ==
  LET f == reviewer[r].finding
  IN /\ reviewer[r].at = "reverify"
     /\ \E fresh \in Observation, to \in Status :
          /\ ReverifyOutcome("resolved", fresh = Matched, to)
          /\ AppendTransition(f, to, NoProposal, findings[f].pending, fresh)
     /\ reviewer' = [reviewer EXCEPT ![r] = Idle]
     /\ UNCHANGED <<turn, shown>>

(* The project cannot be loaded, or the comparison raises. *)
ReverifyFailed(r) ==
  /\ reviewer[r].at = "reverify"
  /\ reviewer' = [reviewer EXCEPT ![r] = Idle]
  /\ UNCHANGED <<findings, turn, shown>>

---------------------------------------------------------------------------
(* _chat_v2 with a finding_id: the guards before the turn starts. *)
InvestigationStarts(t) ==
  \E f \in FindingId :
    /\ turn[t] = 0
    /\ Exists(f)
    /\ Investigable(findings[f].status)
    /\ turn' = [turn EXCEPT ![t] = f]
    /\ UNCHANGED <<findings, reviewer, shown>>

ReusesProposalId(t) ==            \* mutant: the id is not fresh
  \E p \in Proposal :
    /\ turn[t] # 0
    /\ MaySetProposal(turn[t])
    /\ SetPendingProposal(turn[t], p)
    /\ shown' = [shown EXCEPT ![turn[t]] = @ \cup {p}]
    /\ turn' = [turn EXCEPT ![t] = 0]
    /\ UNCHANGED reviewer

(* The turn's final event: a proposal with a fresh id is built and set, unless
   the finding has left "action_required" meanwhile (finding_proposal_stale). *)
InvestigationProposes(t) ==
  \E p \in Proposal :
    /\ turn[t] # 0
    /\ \A f \in FindingId : p \notin shown[f]
    /\ \/ /\ MaySetProposal(turn[t])
          /\ SetPendingProposal(turn[t], p)
          /\ shown' = [shown EXCEPT ![turn[t]] = @ \cup {p}]
       \/ /\ ~MaySetProposal(turn[t])
          /\ UNCHANGED <<findings, shown>>
    /\ turn' = [turn EXCEPT ![t] = 0]
    /\ UNCHANGED reviewer

(* The turn ends without an answer: error, timeout, cancel, clarification. *)
InvestigationEnds(t) ==
  /\ turn[t] # 0
  /\ turn' = [turn EXCEPT ![t] = 0]
  /\ UNCHANGED <<findings, reviewer, shown>>

(* One item of _upsert_findings_from_reconciliation; matched ones are skipped
   and never close a finding. *)
ReconciliationItem ==
  \E k \in Key, v \in Mismatch :
    /\ Upsert(k, v)
    /\ UNCHANGED <<reviewer, turn, shown>>

ReviewerStep(r) ==
  \/ TransitionRead(r) \/ TransitionStore(r) \/ RequestRefused(r)
  \/ ReverifyRead(r)   \/ ReverifyStore(r)   \/ ReverifyFailed(r)

TurnStep(t) ==
  InvestigationStarts(t) \/ InvestigationProposes(t) \/ InvestigationEnds(t)

Next ==
  \/ \E r \in Reviewer : ReviewerStep(r)
  \/ \E t \in Turn : TurnStep(t)
  \/ ReconciliationItem

Spec == Init /\ [][Next]_vars

---------------------------------------------------------------------------
(* Type invariant. *)
TypeOK ==
  /\ findings \in [FindingId -> Finding]
  /\ reviewer \in [Reviewer -> Handler]
  /\ turn \in [Turn -> FindingId \cup {0}]
  /\ shown \in [FindingId -> SUBSET Proposal]

(* The history of a finding is one unbroken chain from its creation to its
   status: append_transition takes `from` from the row under the lock, never
   from the handler's own read. *)
HistoryIsChain ==
  \A f \in FindingId : Exists(f) =>
    LET h == findings[f].history
    IN /\ Len(h) > 0
       /\ h[1].from = "none"
       /\ h[Len(h)].to = findings[f].status
       /\ \A i \in 2 .. Len(h) : h[i].from = h[i - 1].to

(* No order of a manual resolve, an approval and a late investigation leaves a
   proposal, with its approve button, on a resolved finding
   (ACTIONS_THAT_CLEAR_PENDING_PROPOSAL and set_pending_proposal's check). *)
ResolvedHasNoProposal ==
  \A f \in FindingId :
    findings[f].status = "resolved" => findings[f].pending = NoProposal

(* Each proposal is approved or rejected at most once, whoever races, and is
   never pending again once it was (the version check of append_transition). *)
DecidedOnce ==
  \A f, g \in FindingId :
    \A i \in DOMAIN findings[f].history :
      LET p == findings[f].history[i].snapshot
      IN p # NoProposal =>
           /\ findings[g].pending # p
           /\ \A j \in DOMAIN findings[g].history :
                findings[g].history[j].snapshot = p => f = g /\ i = j

(* A decision the version check lets through records the proposal the caller
   reviewed: the snapshot comes from an earlier read than the check. *)
SnapshotIsReviewed ==
  \A r \in Reviewer :
    LET h == reviewer[r]
    IN /\ h.at = "transition"
       /\ h.action \in ProposalRequired
       /\ ExpectedProposal(h.finding, h.reviewed)
       => h.read = h.reviewed

(* A finding stays closed as verified only on values that match: neither a
   racing re-verify nor a later reconciliation overwrites them. *)
ClosedMeansMatched ==
  \A f \in FindingId :
    findings[f].status = "verified_closed" => findings[f].seen = Matched

(* A proposal that was decided, cleared or replaced never becomes pending
   again, on any finding: each investigation sets its own, once. *)
ProposalNeverReturns ==
  [][\A f, g \in FindingId :
       \A p \in shown[f] :
         findings[f].pending # p => findings'[g].pending # p]_vars

---------------------------------------------------------------------------
(* What the code promises of one finding, and what it keeps only as long as
   no two reviewer requests overlap (Reviewer has one member). *)

(* FindingStatus: no transition is accepted from waived, false_positive or
   verified_closed. *)
TerminalIsFinal ==
  [][\A f \in FindingId :
       findings[f].status \in TerminalStatus =>
         findings'[f].status = findings[f].status]_vars

(* upsert_from_reconciliation: never two active findings for one condition. *)
OneActivePerKey ==
  \A k \in Key : \A f, g \in FindingId :
    ActiveOn(f, k) /\ ActiveOn(g, k) => f = g

(* EngineeringFinding: only a finding in "action_required" has a proposal. *)
ProposalOnlyWhenActionable ==
  \A f \in FindingId :
    findings[f].pending # NoProposal => findings[f].status = "action_required"

(* Seen from outside, every finding follows the one-at-a-time lifecycle. *)
Lifecycle == INSTANCE FindingLifecycle WITH
  life <- [f \in FindingId |-> [status  |-> findings[f].status,
                                pending |-> findings[f].pending]]
LifecycleSpec == Lifecycle!Spec
=============================================================================
