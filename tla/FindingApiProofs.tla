-------------------------- MODULE FindingApiProofs --------------------------
(***************************************************************************)
(* Machine-checked proofs about FindingApi: for any number of findings,    *)
(* keys, proposals, reviewer requests and investigating turns.             *)
(***************************************************************************)
EXTENDS FindingApi, SequenceTheorems, TLAPS

(* Every step is a handler's step; what the proofs below split Next into. *)
LEMMA StepCases ==
  ASSUME Next
  PROVE  \/ \E r \in Reviewer : TransitionRead(r)
         \/ \E r \in Reviewer : TransitionStore(r)
         \/ \E r \in Reviewer : ReverifyRead(r)
         \/ \E r \in Reviewer : ReverifyStore(r)
         \/ \E r \in Reviewer : ReverifyFailed(r)
         \/ \E t \in Turn : InvestigationStarts(t)
         \/ \E t \in Turn : InvestigationProposes(t)
         \/ \E t \in Turn : InvestigationEnds(t)
         \/ ReconciliationItem
         \/ UNCHANGED vars
  BY DEF Next, ReviewerStep, TurnStep, RequestRefused

(* The table leads only to the statuses it names. *)
LEMMA TransitionTyped ==
  \A a, from, to : ValidTransition(a, from, to) =>
    a \in Action /\ from \in ActiveStatus /\ to \in Status
  BY DEF ValidTransition, Transition, Action, ActiveStatus, Status, TerminalStatus

(* Only an action that clears the proposal leads to "resolved". *)
LEMMA ResolvingClears ==
  \A a, from : ValidTransition(a, from, "resolved") => a \in ClearsProposal
  BY DEF ValidTransition, Transition, ClearsProposal, ProposalRequired

(* A re-verify leads to one of two statuses, "verified_closed" on a match. *)
LEMMA ReverifyTyped ==
  \A to : \A m \in BOOLEAN : ReverifyOutcome("resolved", m, to) =>
    /\ to \in {"verified_closed", "action_required"}
    /\ to = "verified_closed" => m
  BY DEF ReverifyOutcome

(* What append_transition does to a well-typed store. *)
LEMMA AppendEffect ==
  ASSUME findings \in [FindingId -> Finding],
         NEW f \in FindingId, NEW to \in Status, NEW snap \in MaybeProposal,
         NEW p \in MaybeProposal, NEW v \in Observation, Exists(f),
         AppendTransition(f, to, snap, p, v)
  PROVE  /\ findings' \in [FindingId -> Finding]
         /\ \A g \in FindingId : g # f => findings'[g] = findings[g]
         /\ findings'[f].key = findings[f].key
         /\ findings'[f].status = to
         /\ findings'[f].pending = p
         /\ findings'[f].seen = v
         /\ findings'[f].history = Append(findings[f].history,
              [from |-> findings[f].status, to |-> to, snapshot |-> snap])
<1> DEFINE e == [from |-> findings[f].status, to |-> to, snapshot |-> snap]
           n == [key |-> findings[f].key, status |-> to, seen |-> v,
                 pending |-> p, history |-> Append(findings[f].history, e)]
<1>1. findings[f] \in Finding
  OBVIOUS
<1>2. e \in Entry
  BY <1>1 DEF Entry, Finding, Exists
<1>3. n \in Finding
  BY <1>1, <1>2 DEF Finding
<1>4. findings' = [findings EXCEPT ![f] = n]
  BY <1>1 DEF AppendTransition, Finding
<1>5. findings'[f] = n /\ \A g \in FindingId : g # f => findings'[g] = findings[g]
  BY <1>4
<1>6. findings' \in [FindingId -> Finding]
  BY <1>3, <1>4
<1> QED
  BY <1>5, <1>6

(* What a reconciliation's upsert does: new values on one active finding, or
   a new open finding with one history entry. *)
LEMMA UpsertEffect ==
  ASSUME findings \in [FindingId -> Finding],
         NEW k \in Key, NEW v \in Mismatch, Upsert(k, v)
  PROVE  \E f \in FindingId :
           /\ findings' \in [FindingId -> Finding]
           /\ \A g \in FindingId : g # f => findings'[g] = findings[g]
           /\ \/ /\ findings[f].status \in ActiveStatus
                 /\ findings'[f].key = findings[f].key
                 /\ findings'[f].status = findings[f].status
                 /\ findings'[f].pending = findings[f].pending
                 /\ findings'[f].history = findings[f].history
              \/ /\ ~Exists(f)
                 /\ \A g \in FindingId : ~ActiveOn(g, findings'[f].key)
                 /\ findings'[f].status = "open"
                 /\ findings'[f].pending = NoProposal
                 /\ findings'[f].history =
                      << [from |-> "none", to |-> "open", snapshot |-> NoProposal] >>
<1>1. CASE UpdateActive(k, v)
  <2>1. PICK f \in FindingId :
          ActiveOn(f, k) /\ findings' = [findings EXCEPT ![f].seen = v]
    BY <1>1 DEF UpdateActive
  <2>2. findings[f] \in Finding
    OBVIOUS
  <2>3. findings'[f] = [findings[f] EXCEPT !.seen = v]
    BY <2>1
  <2>4. findings'[f] \in Finding
    BY <2>2, <2>3 DEF Finding, Observation
  <2>5. findings' \in [FindingId -> Finding]
    BY <2>1, <2>3, <2>4
  <2> QED
    BY <2>1, <2>2, <2>3, <2>5 DEF ActiveOn, Finding
<1>2. CASE CreateOpen(k, v)
  <2> DEFINE e == [from |-> "none", to |-> "open", snapshot |-> NoProposal]
             n == [key |-> k, status |-> "open", seen |-> v,
                   pending |-> NoProposal, history |-> << e >>]
  <2>1. PICK f \in FindingId :
          ~Exists(f) /\ findings' = [findings EXCEPT ![f] = n]
    BY <1>2 DEF CreateOpen
  <2>5. findings'[f].key = k /\ \A g \in FindingId : ~ActiveOn(g, k)
    BY <1>2, <2>1 DEF CreateOpen
  <2>2. e \in Entry
    BY DEF Entry, Status, ActiveStatus, MaybeProposal
  <2>3. n \in Finding
    BY <2>2 DEF Finding, Status, ActiveStatus, Observation, MaybeProposal
  <2>4. findings' \in [FindingId -> Finding]
    BY <2>1, <2>3
  <2> QED
    BY <2>1, <2>4, <2>5
<1> QED
  BY <1>1, <1>2 DEF Upsert

(* What setting a proposal does. *)
LEMMA SetProposalEffect ==
  ASSUME findings \in [FindingId -> Finding],
         NEW f \in FindingId, NEW p \in Proposal, SetPendingProposal(f, p)
  PROVE  /\ findings' \in [FindingId -> Finding]
         /\ \A g \in FindingId : g # f => findings'[g] = findings[g]
         /\ findings'[f].key = findings[f].key
         /\ findings'[f].status = findings[f].status
         /\ findings'[f].seen = findings[f].seen
         /\ findings'[f].pending = p
         /\ findings'[f].history = findings[f].history
<1>1. findings[f] \in Finding
  OBVIOUS
<1>2. findings'[f] = [findings[f] EXCEPT !.pending = p]
  BY DEF SetPendingProposal
<1>3. findings'[f] \in Finding
  BY <1>1, <1>2 DEF Finding, MaybeProposal
<1>4. findings' \in [FindingId -> Finding]
  BY <1>3 DEF SetPendingProposal
<1> QED
  BY <1>1, <1>2, <1>4 DEF SetPendingProposal, Finding

---------------------------------------------------------------------------
(* A handler between its read and its store call holds what its guards let
   through: an existing finding and, for a decision, a proposal that is or was
   pending on it. *)
HandlersInv ==
  \A r \in Reviewer :
    LET h == reviewer[r]
    IN h.at # "idle" =>
         /\ Exists(h.finding)
         /\ h.at = "transition" =>
              /\ h.to = "resolved" => h.action \in ClearsProposal
              /\ h.to # "verified_closed"
              /\ IF h.action \in ProposalRequired
                   THEN h.read \in shown[h.finding] /\ h.reviewed \in shown[h.finding]
                   ELSE h.reviewed = NoProposal

(* Every proposal a finding holds or its history decided was set on it, and no
   proposal was ever set on two findings. *)
ProposalsShown ==
  \A f \in FindingId :
    /\ findings[f].pending # NoProposal => findings[f].pending \in shown[f]
    /\ \A i \in DOMAIN findings[f].history :
         LET p == findings[f].history[i].snapshot
         IN p # NoProposal => p \in shown[f]
    /\ \A g \in FindingId : f # g => shown[f] \cap shown[g] = {}

(* An investigating turn holds a finding that exists. *)
TurnsInv == \A t \in Turn : turn[t] # 0 => Exists(turn[t])

(* The types, and with them everything a step needs to know of a handler. *)
Base == TypeOK /\ HandlersInv /\ ProposalsShown /\ TurnsInv

LEMMA InitBase == Init => Base
<1> SUFFICES ASSUME Init PROVE Base
  OBVIOUS
<1> USE StoreConstants DEF Init, StoreInit
<1>1. Absent \in Finding
  BY DEF Absent, Finding, Observation, MaybeProposal
<1>2. Idle \in Handler
  BY DEF Idle, Handler, FindingId, Action, Status, ActiveStatus, MaybeProposal
<1>3. TypeOK
  BY <1>1, <1>2 DEF TypeOK
<1>4. HandlersInv
  BY DEF HandlersInv, Idle
<1>5. ProposalsShown
  BY DEF ProposalsShown, Absent
<1>6. TurnsInv
  BY DEF TurnsInv
<1> QED
  BY <1>3, <1>4, <1>5, <1>6 DEF Base

(* What the store call of transition_finding does, once its types are known. *)
LEMMA TransitionStoreEffect ==
  ASSUME Base, NEW r \in Reviewer, TransitionStore(r)
  PROVE  LET h == reviewer[r]
             f == h.finding
         IN /\ f \in FindingId /\ Exists(f)
            /\ h.at = "transition" /\ h \in Handler
            /\ reviewer' = [reviewer EXCEPT ![r] = Idle]
            /\ turn' = turn /\ shown' = shown
            /\ \/ findings' = findings
               \/ /\ ExpectedProposal(f, h.reviewed)
                  /\ findings' \in [FindingId -> Finding]
                  /\ \A g \in FindingId : g # f => findings'[g] = findings[g]
                  /\ findings'[f].key = findings[f].key
                  /\ findings'[f].status = h.to
                  /\ findings'[f].pending =
                       IF h.action \in ClearsProposal THEN NoProposal
                                                      ELSE findings[f].pending
                  /\ findings'[f].seen = findings[f].seen
                  /\ findings'[f].history = Append(findings[f].history,
                       [from |-> findings[f].status, to |-> h.to, snapshot |->
                          IF h.action \in ProposalRequired THEN h.read ELSE NoProposal])
<1> DEFINE h == reviewer[r]
           f == h.finding
           snap == IF h.action \in ProposalRequired THEN h.read ELSE NoProposal
           pend == IF h.action \in ClearsProposal THEN NoProposal ELSE findings[f].pending
<1>1. h \in Handler /\ h.at = "transition" /\ f \in FindingId /\ h.to \in Status
  BY DEF Base, TypeOK, TransitionStore, Handler
<1>2. Exists(f)
  BY <1>1 DEF Base, HandlersInv
<1>3. findings \in [FindingId -> Finding] /\ findings[f] \in Finding
  BY <1>1 DEF Base, TypeOK
<1>4. snap \in MaybeProposal /\ pend \in MaybeProposal /\ findings[f].seen \in Observation
  BY <1>1, <1>3 DEF Handler, Finding, MaybeProposal
<1>5. CASE /\ ExpectedProposal(f, h.reviewed)
           /\ AppendTransition(f, h.to, snap, pend, findings[f].seen)
  <2> HIDE DEF h, f, snap, pend
  <2>1. /\ findings' \in [FindingId -> Finding]
        /\ \A g \in FindingId : g # f => findings'[g] = findings[g]
        /\ findings'[f].key = findings[f].key
        /\ findings'[f].status = h.to
        /\ findings'[f].pending = pend
        /\ findings'[f].seen = findings[f].seen
        /\ findings'[f].history = Append(findings[f].history,
             [from |-> findings[f].status, to |-> h.to, snapshot |-> snap])
    BY <1>1, <1>2, <1>3, <1>4, <1>5, AppendEffect
  <2> QED
    BY <1>1, <1>2, <1>5, <2>1 DEF TransitionStore, h, f, snap, pend
<1>6. CASE findings' = findings
  BY <1>1, <1>2, <1>6 DEF TransitionStore
<1> QED
  BY <1>5, <1>6 DEF TransitionStore

(* The same for reverify_finding's. *)
LEMMA ReverifyStoreEffect ==
  ASSUME Base, NEW r \in Reviewer, ReverifyStore(r)
  PROVE  LET f == reviewer[r].finding
         IN /\ f \in FindingId /\ Exists(f)
            /\ reviewer' = [reviewer EXCEPT ![r] = Idle]
            /\ turn' = turn /\ shown' = shown
            /\ findings' \in [FindingId -> Finding]
            /\ \A g \in FindingId : g # f => findings'[g] = findings[g]
            /\ findings'[f].key = findings[f].key
            /\ findings'[f].status \in {"verified_closed", "action_required"}
            /\ findings'[f].status = "verified_closed" => findings'[f].seen = Matched
            /\ findings'[f].pending = findings[f].pending
            /\ findings'[f].history = Append(findings[f].history,
                 [from |-> findings[f].status, to |-> findings'[f].status,
                  snapshot |-> NoProposal])
<1> DEFINE f == reviewer[r].finding
<1>1. f \in FindingId /\ reviewer[r].at = "reverify"
  BY DEF Base, TypeOK, ReverifyStore, Handler
<1>2. Exists(f)
  BY <1>1 DEF Base, HandlersInv
<1>3. PICK fresh \in Observation, to \in Status :
        /\ ReverifyOutcome("resolved", fresh = Matched, to)
        /\ AppendTransition(f, to, NoProposal, findings[f].pending, fresh)
  BY DEF ReverifyStore
<1>4. findings \in [FindingId -> Finding] /\ findings[f].pending \in MaybeProposal
  BY <1>1 DEF Base, TypeOK, Finding
<1>5. NoProposal \in MaybeProposal
  BY DEF MaybeProposal
<1>6. /\ to \in {"verified_closed", "action_required"}
      /\ to = "verified_closed" => fresh = Matched
  BY <1>3, ReverifyTyped
<1> HIDE DEF f
<1>7. /\ findings' \in [FindingId -> Finding]
      /\ \A g \in FindingId : g # f => findings'[g] = findings[g]
      /\ findings'[f].key = findings[f].key
      /\ findings'[f].status = to
      /\ findings'[f].pending = findings[f].pending
      /\ findings'[f].seen = fresh
      /\ findings'[f].history = Append(findings[f].history,
           [from |-> findings[f].status, to |-> to, snapshot |-> NoProposal])
  BY <1>1, <1>2, <1>3, <1>4, <1>5, AppendEffect
<1> QED
  BY <1>1, <1>2, <1>6, <1>7 DEF ReverifyStore, f

(* A finding that exists stays in the store. *)
LEMMA ExistsStays ==
  ASSUME Base, Next
  PROVE  \A f \in FindingId : Exists(f) => Exists(f)'
<1> USE DEF Exists
<1>1. findings \in [FindingId -> Finding]
  BY DEF Base, TypeOK
<1>2. ASSUME NEW r \in Reviewer, TransitionStore(r)
      PROVE  \A f \in FindingId : Exists(f) => Exists(f)'
  <2>1. reviewer[r].to # "absent"
    BY <1>2, TransitionStoreEffect DEF Handler, Status, ActiveStatus, TerminalStatus
  <2> QED
    BY <1>2, <2>1, TransitionStoreEffect
<1>3. ASSUME NEW r \in Reviewer, ReverifyStore(r)
      PROVE  \A f \in FindingId : Exists(f) => Exists(f)'
  BY <1>3, ReverifyStoreEffect
<1>4. ASSUME NEW t \in Turn, InvestigationProposes(t)
      PROVE  \A f \in FindingId : Exists(f) => Exists(f)'
  <2>1. turn[t] \in FindingId
    BY <1>4 DEF InvestigationProposes, Base, TypeOK
  <2> QED
    BY <1>1, <1>4, <2>1, SetProposalEffect DEF InvestigationProposes
<1>5. CASE ReconciliationItem
  BY <1>1, <1>5, UpsertEffect DEF ReconciliationItem
<1> QED
  BY <1>2, <1>3, <1>4, <1>5, StepCases
     DEF vars, TransitionRead, ReverifyRead, ReverifyFailed,
         InvestigationStarts, InvestigationEnds

LEMMA BaseStep == Base /\ [Next]_vars => Base'
<1> SUFFICES ASSUME Base, [Next]_vars PROVE Base'
  OBVIOUS
<1> USE StoreConstants
<1>0. /\ findings \in [FindingId -> Finding]
      /\ reviewer \in [Reviewer -> Handler]
      /\ turn \in [Turn -> FindingId \cup {0}]
      /\ shown \in [FindingId -> SUBSET Proposal]
      /\ Idle \in Handler
      /\ HandlersInv /\ ProposalsShown /\ TurnsInv
  BY DEF Base, TypeOK, Idle, Handler, FindingId, Action, Status, ActiveStatus,
         MaybeProposal
<1>1. ASSUME NEW r \in Reviewer, TransitionRead(r) PROVE Base'
  <2>1. PICK f \in FindingId, a \in Action, to \in Status, p \in MaybeProposal :
          /\ Exists(f)
          /\ ValidTransition(a, findings[f].status, to)
          /\ IF a \in ProposalRequired
               THEN findings[f].pending # NoProposal /\ p \in shown[f]
               ELSE p = NoProposal
          /\ reviewer' = [reviewer EXCEPT ![r] =
               [at |-> "transition", finding |-> f, action |-> a, to |-> to,
                read |-> findings[f].pending, reviewed |-> p]]
          /\ UNCHANGED <<findings, turn, shown>>
    BY <1>1 DEF TransitionRead, Admits
  <2>2. findings[f].pending \in MaybeProposal
    BY <1>0 DEF Finding
  <2>3. TypeOK'
    BY <1>0, <2>1, <2>2 DEF TypeOK, Handler
  <2>4. HandlersInv'
    <3>1. to = "resolved" => a \in ClearsProposal
      BY <2>1, ResolvingClears
    <3>2. to # "verified_closed"
      BY <2>1 DEF ValidTransition, Transition
    <3>3. a \in ProposalRequired => findings[f].pending \in shown[f]
      BY <1>0, <2>1 DEF ProposalsShown
    <3> QED
      BY <1>0, <2>1, <3>1, <3>2, <3>3 DEF HandlersInv, Exists
  <2>5. ProposalsShown' /\ TurnsInv'
    BY <1>0, <2>1 DEF ProposalsShown, TurnsInv, Exists
  <2> QED
    BY <2>3, <2>4, <2>5 DEF Base
<1>2. ASSUME NEW r \in Reviewer, TransitionStore(r) PROVE Base'
  <2> DEFINE h == reviewer[r]
             f == h.finding
  <2>1. TypeOK'
    BY <1>0, <1>2, TransitionStoreEffect DEF TypeOK
  <2>2. \A g \in FindingId : Exists(g) => Exists(g)'
    BY <1>2, ExistsStays DEF Next, ReviewerStep
  <2>3. HandlersInv'
    <3>1. reviewer' = [reviewer EXCEPT ![r] = Idle] /\ shown' = shown
      BY <1>2, TransitionStoreEffect
    <3> QED
      BY <1>0, <2>2, <3>1 DEF HandlersInv, Idle, Handler
  <2>4. TurnsInv'
    BY <1>0, <1>2, <2>2, TransitionStoreEffect DEF TurnsInv
  <2>5. ProposalsShown'
    <3>1. CASE findings' = findings
      BY <1>0, <1>2, <3>1, TransitionStoreEffect DEF ProposalsShown
    <3>2. CASE findings' # findings
      <4> DEFINE snap == IF h.action \in ProposalRequired THEN h.read ELSE NoProposal
                 e == [from |-> findings[f].status, to |-> h.to, snapshot |-> snap]
      <4>1. /\ f \in FindingId /\ h.at = "transition" /\ shown' = shown
            /\ \A g \in FindingId : g # f => findings'[g] = findings[g]
            /\ findings'[f].pending \in {NoProposal, findings[f].pending}
            /\ findings'[f].history = Append(findings[f].history, e)
        BY <1>2, <3>2, TransitionStoreEffect
      <4>2. snap # NoProposal => snap \in shown[f]
        BY <1>0, <4>1 DEF HandlersInv
      <4>3. findings[f].history \in Seq(Entry)
        BY <1>0, <4>1 DEF Finding
      <4>4. \A i \in DOMAIN findings'[f].history :
              \/ i \in DOMAIN findings[f].history
                 /\ findings'[f].history[i] = findings[f].history[i]
              \/ findings'[f].history[i] = e
        <5> HIDE DEF e
        <5> QED
          BY <4>1, <4>3
      <4>5. \A i \in DOMAIN findings'[f].history :
              LET p == findings'[f].history[i].snapshot
              IN p # NoProposal => p \in shown[f]
        BY <1>0, <4>1, <4>2, <4>4 DEF ProposalsShown
      <4> QED
        BY <1>0, <4>1, <4>5 DEF ProposalsShown
    <3> QED
      BY <3>1, <3>2
  <2> QED
    BY <2>1, <2>3, <2>4, <2>5 DEF Base
<1>3. ASSUME NEW r \in Reviewer, ReverifyRead(r) PROVE Base'
  <2>1. PICK f \in FindingId :
          /\ Exists(f)
          /\ reviewer' = [reviewer EXCEPT ![r] =
               [Idle EXCEPT !.at = "reverify", !.finding = f]]
          /\ UNCHANGED <<findings, turn, shown>>
    BY <1>3 DEF ReverifyRead, Admits
  <2>2. [Idle EXCEPT !.at = "reverify", !.finding = f] \in Handler
    BY <1>0 DEF Idle, Handler
  <2>3. TypeOK'
    BY <1>0, <2>1, <2>2 DEF TypeOK
  <2>4. HandlersInv'
    BY <1>0, <2>1 DEF HandlersInv, Idle, Exists
  <2>5. ProposalsShown' /\ TurnsInv'
    BY <1>0, <2>1 DEF ProposalsShown, TurnsInv, Exists
  <2> QED
    BY <2>3, <2>4, <2>5 DEF Base
<1>4. ASSUME NEW r \in Reviewer, ReverifyStore(r) PROVE Base'
  <2> DEFINE f == reviewer[r].finding
             e == [from |-> findings[f].status, to |-> findings'[f].status,
                   snapshot |-> NoProposal]
  <2>1. TypeOK'
    BY <1>0, <1>4, ReverifyStoreEffect DEF TypeOK
  <2>2. \A g \in FindingId : Exists(g) => Exists(g)'
    BY <1>4, ExistsStays DEF Next, ReviewerStep
  <2>3. HandlersInv'
    BY <1>0, <1>4, <2>2, ReverifyStoreEffect DEF HandlersInv, Idle, Handler
  <2>4. TurnsInv'
    BY <1>0, <1>4, <2>2, ReverifyStoreEffect DEF TurnsInv
  <2>5. ProposalsShown'
    <3>1. /\ f \in FindingId /\ shown' = shown
          /\ \A g \in FindingId : g # f => findings'[g] = findings[g]
          /\ findings'[f].pending = findings[f].pending
          /\ findings'[f].history = Append(findings[f].history, e)
      BY <1>4, ReverifyStoreEffect
    <3>2. findings[f].history \in Seq(Entry)
      BY <1>0, <3>1 DEF Finding
    <3>3. \A i \in DOMAIN findings'[f].history :
            \/ i \in DOMAIN findings[f].history
               /\ findings'[f].history[i] = findings[f].history[i]
            \/ findings'[f].history[i] = e
      <4> HIDE DEF e
      <4> QED
        BY <3>1, <3>2
    <3>4. \A i \in DOMAIN findings'[f].history :
            LET p == findings'[f].history[i].snapshot
            IN p # NoProposal => p \in shown[f]
      BY <1>0, <3>1, <3>3 DEF ProposalsShown
    <3> QED
      BY <1>0, <3>1, <3>4 DEF ProposalsShown
  <2> QED
    BY <2>1, <2>3, <2>4, <2>5 DEF Base
<1>5. ASSUME NEW r \in Reviewer, ReverifyFailed(r) PROVE Base'
  BY <1>0, <1>5 DEF ReverifyFailed, Base, TypeOK, HandlersInv, ProposalsShown,
                    TurnsInv, Exists, Idle
<1>6. ASSUME NEW t \in Turn, InvestigationStarts(t) PROVE Base'
  BY <1>0, <1>6 DEF InvestigationStarts, Base, TypeOK, HandlersInv, ProposalsShown,
                    TurnsInv, Exists
<1>7. ASSUME NEW t \in Turn, InvestigationProposes(t) PROVE Base'
  <2>0. UNCHANGED reviewer /\ turn' = [turn EXCEPT ![t] = 0]
    BY <1>7 DEF InvestigationProposes
  <2>1. \A g \in FindingId : Exists(g) => Exists(g)'
    BY <1>7, ExistsStays DEF Next, TurnStep
  <2>2. TurnsInv'
    BY <1>0, <2>0, <2>1 DEF TurnsInv
  <2>3. CASE UNCHANGED <<findings, shown>>
    BY <1>0, <2>0, <2>2, <2>3 DEF Base, TypeOK, HandlersInv, ProposalsShown, Exists
  <2>4. CASE ~UNCHANGED <<findings, shown>>
    <3>1. PICK p \in Proposal :
            /\ turn[t] # 0
            /\ \A f \in FindingId : p \notin shown[f]
            /\ SetPendingProposal(turn[t], p)
            /\ shown' = [shown EXCEPT ![turn[t]] = @ \cup {p}]
      BY <1>7, <2>4 DEF InvestigationProposes
    <3> DEFINE f == turn[t]
    <3>2. f \in FindingId
      BY <1>0, <3>1
    <3>3. /\ findings' \in [FindingId -> Finding]
          /\ \A g \in FindingId : g # f => findings'[g] = findings[g]
          /\ findings'[f].pending = p
          /\ findings'[f].history = findings[f].history
      BY <1>0, <3>1, <3>2, SetProposalEffect
    <3>4. TypeOK'
      BY <1>0, <2>0, <3>1, <3>2, <3>3 DEF TypeOK
    <3>5. HandlersInv'
      BY <1>0, <2>0, <2>1, <3>1, <3>2 DEF HandlersInv, Handler
    <3>6. ProposalsShown'
      BY <1>0, <3>1, <3>2, <3>3 DEF ProposalsShown
    <3> QED
      BY <2>2, <3>4, <3>5, <3>6 DEF Base
  <2> QED
    BY <2>3, <2>4
<1>8. ASSUME NEW t \in Turn, InvestigationEnds(t) PROVE Base'
  BY <1>0, <1>8 DEF InvestigationEnds, Base, TypeOK, HandlersInv, ProposalsShown,
                    TurnsInv, Exists
<1>9. CASE ReconciliationItem
  <2>1. UNCHANGED <<reviewer, turn, shown>>
    BY <1>9 DEF ReconciliationItem
  <2>2. PICK f \in FindingId :
           /\ findings' \in [FindingId -> Finding]
           /\ \A g \in FindingId : g # f => findings'[g] = findings[g]
           /\ \/ /\ findings'[f].pending = findings[f].pending
                 /\ findings'[f].history = findings[f].history
              \/ /\ findings'[f].pending = NoProposal
                 /\ findings'[f].history =
                      << [from |-> "none", to |-> "open", snapshot |-> NoProposal] >>
    BY <1>0, <1>9, UpsertEffect DEF ReconciliationItem
  <2>3. \A g \in FindingId : Exists(g) => Exists(g)'
    BY <1>9, ExistsStays DEF Next
  <2>4. TypeOK'
    BY <1>0, <2>1, <2>2 DEF TypeOK
  <2>5. HandlersInv' /\ TurnsInv'
    BY <1>0, <2>1, <2>3 DEF HandlersInv, TurnsInv, Handler
  <2>6. ProposalsShown'
    BY <1>0, <2>1, <2>2 DEF ProposalsShown
  <2> QED
    BY <2>4, <2>5, <2>6 DEF Base
<1>10. CASE UNCHANGED vars
  BY <1>0, <1>10 DEF vars, Base, TypeOK, HandlersInv, ProposalsShown, TurnsInv, Exists
<1> QED
  BY <1>1, <1>2, <1>3, <1>4, <1>5, <1>6, <1>7, <1>8, <1>9, <1>10, StepCases

(* The store, the handlers and the turns are well typed, always. *)
THEOREM SpecBase == Spec => []Base
  BY InitBase, BaseStep, PTL DEF Spec

(* The type invariant alone: every finding, handler and turn the server can
   reach is one the store's and the handlers' types describe. *)
THEOREM TypeCorrect == Spec => []TypeOK
  BY SpecBase, PTL DEF Base

---------------------------------------------------------------------------
(* The steps that write the store; every other one leaves it alone. *)
LEMMA StoreSteps ==
  ASSUME [Next]_vars
  PROVE  \/ UNCHANGED <<findings, shown>>
         \/ \E r \in Reviewer : TransitionStore(r)
         \/ \E r \in Reviewer : ReverifyStore(r)
         \/ \E t \in Turn : InvestigationProposes(t)
         \/ ReconciliationItem
  BY StepCases DEF vars, TransitionRead, ReverifyRead, ReverifyFailed,
                   InvestigationStarts, InvestigationEnds

(* What the end of an investigation does: nothing, or a fresh proposal on a
   finding that is still "action_required". *)
LEMMA ProposeEffect ==
  ASSUME Base, NEW t \in Turn, InvestigationProposes(t)
  PROVE  \/ UNCHANGED <<findings, shown>>
         \/ \E p \in Proposal, f \in FindingId :
              /\ \A g \in FindingId : p \notin shown[g]
              /\ shown' = [shown EXCEPT ![f] = @ \cup {p}]
              /\ \A g \in FindingId : g # f => findings'[g] = findings[g]
              /\ findings[f].status = "action_required"
              /\ findings'[f].key = findings[f].key
              /\ findings'[f].status = findings[f].status
              /\ findings'[f].seen = findings[f].seen
              /\ findings'[f].pending = p
              /\ findings'[f].history = findings[f].history
<1> SUFFICES ASSUME ~UNCHANGED <<findings, shown>>
             PROVE  \E p \in Proposal, f \in FindingId :
              /\ \A g \in FindingId : p \notin shown[g]
              /\ shown' = [shown EXCEPT ![f] = @ \cup {p}]
              /\ \A g \in FindingId : g # f => findings'[g] = findings[g]
              /\ findings[f].status = "action_required"
              /\ findings'[f].key = findings[f].key
              /\ findings'[f].status = findings[f].status
              /\ findings'[f].seen = findings[f].seen
              /\ findings'[f].pending = p
              /\ findings'[f].history = findings[f].history
  OBVIOUS
<1>1. PICK p \in Proposal :
        /\ turn[t] # 0
        /\ \A g \in FindingId : p \notin shown[g]
        /\ MaySetProposal(turn[t])
        /\ SetPendingProposal(turn[t], p)
        /\ shown' = [shown EXCEPT ![turn[t]] = @ \cup {p}]
  BY DEF InvestigationProposes
<1>2. turn[t] \in FindingId /\ findings \in [FindingId -> Finding]
  BY <1>1 DEF Base, TypeOK
<1> QED
  BY <1>1, <1>2, SetProposalEffect DEF MaySetProposal

LEMMA ReconcileEffect ==
  ASSUME Base, ReconciliationItem
  PROVE  \E f \in FindingId :
           /\ shown' = shown
           /\ \A g \in FindingId : g # f => findings'[g] = findings[g]
           /\ \/ /\ findings[f].status \in ActiveStatus
                 /\ findings'[f].key = findings[f].key
                 /\ findings'[f].status = findings[f].status
                 /\ findings'[f].pending = findings[f].pending
                 /\ findings'[f].history = findings[f].history
              \/ /\ ~Exists(f)
                 /\ \A g \in FindingId : ~ActiveOn(g, findings'[f].key)
                 /\ findings'[f].status = "open"
                 /\ findings'[f].pending = NoProposal
                 /\ findings'[f].history =
                      << [from |-> "none", to |-> "open", snapshot |-> NoProposal] >>
  BY UpsertEffect DEF ReconciliationItem, Base, TypeOK

---------------------------------------------------------------------------
LEMMA ResolvedStep ==
  Base /\ ResolvedHasNoProposal /\ [Next]_vars => ResolvedHasNoProposal'
<1> SUFFICES ASSUME Base, ResolvedHasNoProposal, [Next]_vars
             PROVE  ResolvedHasNoProposal'
  OBVIOUS
<1> USE DEF ResolvedHasNoProposal
<1>1. ASSUME NEW r \in Reviewer, TransitionStore(r) PROVE ResolvedHasNoProposal'
  <2> DEFINE h == reviewer[r]
  <2>1. h.at = "transition" /\ h.to = "resolved" => h.action \in ClearsProposal
    BY DEF Base, HandlersInv
  <2> QED
    BY <1>1, <2>1, TransitionStoreEffect
<1>2. ASSUME NEW r \in Reviewer, ReverifyStore(r) PROVE ResolvedHasNoProposal'
  BY <1>2, ReverifyStoreEffect
<1>3. ASSUME NEW t \in Turn, InvestigationProposes(t) PROVE ResolvedHasNoProposal'
  BY <1>3, ProposeEffect
<1>4. CASE ReconciliationItem
  BY <1>4, ReconcileEffect
<1> QED
  BY <1>1, <1>2, <1>3, <1>4, StoreSteps

(* No interleaving of handlers leaves a pending proposal on a finding in
   "resolved": main.py's clearing actions and set_pending_proposal's status
   check suffice together, whatever was read before the store calls. *)
THEOREM ResolvedSafe == Spec => []ResolvedHasNoProposal
<1>1. Init => ResolvedHasNoProposal
  BY DEF Init, StoreInit, Absent, ResolvedHasNoProposal
<1> QED
  BY <1>1, SpecBase, ResolvedStep, PTL DEF Spec

LEMMA ClosedStep == Base /\ ClosedMeansMatched /\ [Next]_vars => ClosedMeansMatched'
<1> SUFFICES ASSUME Base, ClosedMeansMatched, [Next]_vars PROVE ClosedMeansMatched'
  OBVIOUS
<1> USE DEF ClosedMeansMatched
<1>1. ASSUME NEW r \in Reviewer, TransitionStore(r) PROVE ClosedMeansMatched'
  <2>1. reviewer[r].at = "transition" => reviewer[r].to # "verified_closed"
    BY DEF Base, HandlersInv
  <2> QED
    BY <1>1, <2>1, TransitionStoreEffect
<1>2. ASSUME NEW r \in Reviewer, ReverifyStore(r) PROVE ClosedMeansMatched'
  BY <1>2, ReverifyStoreEffect
<1>3. ASSUME NEW t \in Turn, InvestigationProposes(t) PROVE ClosedMeansMatched'
  BY <1>3, ProposeEffect
<1>4. CASE ReconciliationItem
  BY <1>4, ReconcileEffect DEF ActiveStatus
<1> QED
  BY <1>1, <1>2, <1>3, <1>4, StoreSteps

(* A finding that is closed as verified carries values that match: only a
   re-verify closes it, with the values it read, and a reconciliation updates
   active findings only. *)
THEOREM ClosedSafe == Spec => []ClosedMeansMatched
<1>1. Init => ClosedMeansMatched
  BY DEF Init, StoreInit, Absent, ClosedMeansMatched
<1> QED
  BY <1>1, SpecBase, ClosedStep, PTL DEF Spec

---------------------------------------------------------------------------
(* A pending proposal stays, goes, or is replaced by one never shown before. *)
LEMMA PendingMoves ==
  ASSUME Base, [Next]_vars
  PROVE  \A f \in FindingId :
           \/ findings'[f].pending = findings[f].pending
           \/ findings'[f].pending = NoProposal
           \/ \A g \in FindingId : findings'[f].pending \notin shown[g]
<1>1. ASSUME NEW r \in Reviewer, TransitionStore(r)
      PROVE  \A f \in FindingId : findings'[f].pending \in {findings[f].pending, NoProposal}
  BY <1>1, TransitionStoreEffect
<1>2. ASSUME NEW r \in Reviewer, ReverifyStore(r)
      PROVE  \A f \in FindingId : findings'[f].pending = findings[f].pending
  BY <1>2, ReverifyStoreEffect
<1>3. ASSUME NEW t \in Turn, InvestigationProposes(t)
      PROVE  \A f \in FindingId :
               \/ findings'[f].pending = findings[f].pending
               \/ \A g \in FindingId : findings'[f].pending \notin shown[g]
  BY <1>3, ProposeEffect
<1>4. ASSUME ReconciliationItem
      PROVE  \A f \in FindingId : findings'[f].pending \in {findings[f].pending, NoProposal}
  BY <1>4, ReconcileEffect
<1> QED
  BY <1>1, <1>2, <1>3, <1>4, StoreSteps

LEMMA NeverReturnsStep ==
  Base /\ [Next]_vars =>
    \A f, g \in FindingId : \A p \in shown[f] :
      findings[f].pending # p => findings'[g].pending # p
<1> SUFFICES ASSUME Base, [Next]_vars, NEW f \in FindingId, NEW g \in FindingId,
                    NEW p \in shown[f], findings[f].pending # p
             PROVE  findings'[g].pending # p
  OBVIOUS
<1>1. p # NoProposal
  BY StoreConstants DEF Base, TypeOK
<1>2. findings[g].pending # p
  BY <1>1 DEF Base, ProposalsShown
<1> QED
  BY <1>1, <1>2, PendingMoves

(* A proposal that was decided, cleared or replaced is never pending again. *)
THEOREM NeverReturns == Spec => ProposalNeverReturns
<1>1. Base /\ [Next]_vars =>
        [\A f, g \in FindingId : \A p \in shown[f] :
           findings[f].pending # p => findings'[g].pending # p]_vars
  BY NeverReturnsStep
<1> QED
  BY <1>1, SpecBase, PTL DEF Spec, ProposalNeverReturns

---------------------------------------------------------------------------
LEMMA SnapshotStep == Base /\ SnapshotIsReviewed /\ [Next]_vars => SnapshotIsReviewed'
<1> SUFFICES ASSUME Base, SnapshotIsReviewed, [Next]_vars, NEW r \in Reviewer,
                    (reviewer[r].at = "transition")',
                    (reviewer[r].action \in ProposalRequired)',
                    ExpectedProposal(reviewer[r].finding, reviewer[r].reviewed)'
             PROVE  (reviewer[r].read = reviewer[r].reviewed)'
  BY DEF SnapshotIsReviewed
<1>1. /\ reviewer \in [Reviewer -> Handler]
      /\ \A f \in FindingId : NoProposal \notin shown[f]
      /\ Idle.at = "idle"
  BY StoreConstants DEF Base, TypeOK, Idle
(* The handler was already between its read and its store call ... *)
<1>2. CASE reviewer'[r] = reviewer[r]
  <2> DEFINE h == reviewer[r]
  <2>1. /\ h.at = "transition" /\ h.action \in ProposalRequired
        /\ h.finding \in FindingId /\ h.reviewed \in shown[h.finding]
    BY <1>1, <1>2 DEF Base, HandlersInv, Handler
  <2>2. findings'[h.finding].pending = h.reviewed
    BY <1>1, <1>2, <2>1 DEF ExpectedProposal
  <2>3. findings[h.finding].pending = h.reviewed
    BY <1>1, <2>1, <2>2, PendingMoves
  <2>4. h.read = h.reviewed
    BY <2>1, <2>3 DEF SnapshotIsReviewed, ExpectedProposal
  <2> QED
    BY <1>2, <2>4
(* ... or it has just read the finding. *)
<1>3. CASE reviewer'[r] # reviewer[r]
  <2>1. TransitionRead(r)
    <3>1. ASSUME NEW q \in Reviewer,
                 TransitionStore(q) \/ ReverifyStore(q) \/ ReverifyFailed(q)
          PROVE  FALSE
      BY <1>1, <1>3, <3>1 DEF TransitionStore, ReverifyStore, ReverifyFailed
    <3>2. ASSUME NEW q \in Reviewer, ReverifyRead(q) PROVE FALSE
      BY <1>1, <1>3, <3>2 DEF ReverifyRead, Idle
    <3>3. ASSUME NEW q \in Reviewer, TransitionRead(q) PROVE q = r
      BY <1>1, <1>3, <3>3 DEF TransitionRead
    <3> QED
      BY <1>3, <3>1, <3>2, <3>3, StepCases
         DEF vars, InvestigationStarts, InvestigationProposes, InvestigationEnds,
             ReconciliationItem
  <2>2. PICK f \in FindingId, a \in Action, to \in Status, p \in MaybeProposal :
          /\ IF a \in ProposalRequired
               THEN findings[f].pending # NoProposal /\ p \in shown[f]
               ELSE p = NoProposal
          /\ reviewer' = [reviewer EXCEPT ![r] =
               [at |-> "transition", finding |-> f, action |-> a, to |-> to,
                read |-> findings[f].pending, reviewed |-> p]]
          /\ UNCHANGED findings
    BY <2>1 DEF TransitionRead
  <2>3. a \in ProposalRequired /\ p # NoProposal
    BY <1>1, <2>2
  <2>4. findings[f].pending = p
    BY <1>1, <2>2, <2>3 DEF ExpectedProposal
  <2> QED
    BY <1>1, <2>2, <2>4
<1> QED
  BY <1>2, <1>3

(* A decision that passes the store's version check is recorded with the very
   proposal its caller reviewed, although the snapshot was read earlier. *)
THEOREM SnapshotSafe == Spec => []SnapshotIsReviewed
<1>1. Init => SnapshotIsReviewed
  BY DEF Init, SnapshotIsReviewed, Idle
<1> QED
  BY <1>1, SpecBase, SnapshotStep, PTL DEF Spec

---------------------------------------------------------------------------
(* Reading an appended sequence. *)
LEMMA AppendIndex ==
  ASSUME NEW S, NEW s \in Seq(S), NEW x \in S, NEW i \in DOMAIN Append(s, x)
  PROVE  \/ i \in DOMAIN s /\ Append(s, x)[i] = s[i]
         \/ i = Len(s) + 1 /\ i \notin DOMAIN s /\ Append(s, x)[i] = x
  OBVIOUS

LEMMA DecidedStep ==
  Base /\ SnapshotIsReviewed /\ DecidedOnce /\ [Next]_vars => DecidedOnce'
<1> SUFFICES ASSUME Base, SnapshotIsReviewed, DecidedOnce, [Next]_vars
             PROVE  DecidedOnce'
  OBVIOUS
<1>0. \A f \in FindingId : /\ NoProposal \notin shown[f]
                           /\ findings[f].history \in Seq(Entry)
                           /\ findings[f].status \in Status \cup {"absent"}
  BY StoreConstants DEF Base, TypeOK, Finding
(* A step that only drops or adds pending proposals, and starts histories. *)
<1>1. ASSUME NEW f0 \in FindingId,
             \A g \in FindingId : g # f0 => findings'[g] = findings[g],
             \/ /\ findings'[f0].history = findings[f0].history
                /\ \/ findings'[f0].pending = findings[f0].pending
                   \/ \A g \in FindingId : findings'[f0].pending \notin shown[g]
             \/ /\ findings'[f0].pending = NoProposal
                /\ findings'[f0].history =
                      << [from |-> "none", to |-> "open", snapshot |-> NoProposal] >>
      PROVE  DecidedOnce'
  <2>1. \A f \in FindingId : \A i \in DOMAIN findings'[f].history :
          findings'[f].history[i].snapshot # NoProposal =>
            /\ i \in DOMAIN findings[f].history
            /\ findings'[f].history[i] = findings[f].history[i]
    BY <1>1
  <2>2. \A f \in FindingId : \A i \in DOMAIN findings[f].history :
          findings[f].history[i].snapshot # NoProposal =>
            findings[f].history[i].snapshot \in shown[f]
    BY DEF Base, ProposalsShown
  <2>3. \A f \in FindingId : \A i \in DOMAIN findings[f].history :
          findings[f].history[i].snapshot # NoProposal =>
            \A g \in FindingId : findings'[g].pending # findings[f].history[i].snapshot
    BY <1>1, <2>2 DEF DecidedOnce
  <2> QED
    BY <2>1, <2>3 DEF DecidedOnce
<1>2. ASSUME NEW f0 \in FindingId, NEW e \in Entry,
             e.snapshot # NoProposal => findings[f0].pending = e.snapshot
                                        /\ findings'[f0].pending = NoProposal,
             \A g \in FindingId : g # f0 => findings'[g] = findings[g],
             findings'[f0].pending \in {NoProposal, findings[f0].pending},
             findings'[f0].history = Append(findings[f0].history, e)
      PROVE  DecidedOnce'
  <2>1. \A i \in DOMAIN findings'[f0].history :
          \/ /\ i \in DOMAIN findings[f0].history
             /\ findings'[f0].history[i] = findings[f0].history[i]
          \/ /\ i = Len(findings[f0].history) + 1
             /\ findings'[f0].history[i] = e
    BY <1>0, <1>2, AppendIndex
  <2>2. e.snapshot # NoProposal =>
          \A g \in FindingId :
            /\ findings'[g].pending # e.snapshot
            /\ \A j \in DOMAIN findings[g].history :
                 findings[g].history[j].snapshot # e.snapshot
    <3> SUFFICES ASSUME e.snapshot # NoProposal, NEW g \in FindingId
                 PROVE  /\ findings'[g].pending # e.snapshot
                        /\ \A j \in DOMAIN findings[g].history :
                             findings[g].history[j].snapshot # e.snapshot
      OBVIOUS
    <3>1. findings[f0].pending = e.snapshot /\ e.snapshot \in shown[f0]
      BY <1>2 DEF Base, ProposalsShown
    <3>2. g # f0 => findings[g].pending # e.snapshot
      BY <3>1 DEF Base, ProposalsShown
    <3> QED
      BY <1>2, <3>1, <3>2 DEF DecidedOnce
  <2>3. \A g \in FindingId : findings'[g].pending \in {NoProposal, findings[g].pending}
    BY <1>2
  <2> SUFFICES ASSUME NEW f \in FindingId, NEW g \in FindingId,
                      NEW i \in DOMAIN findings'[f].history,
                      findings'[f].history[i].snapshot # NoProposal
               PROVE  /\ findings'[g].pending # findings'[f].history[i].snapshot
                      /\ \A j \in DOMAIN findings'[g].history :
                           findings'[g].history[j].snapshot
                             = findings'[f].history[i].snapshot => f = g /\ i = j
    BY DEF DecidedOnce
  <2>4. CASE i \in DOMAIN findings[f].history
             /\ findings'[f].history[i] = findings[f].history[i]
    <3> DEFINE p == findings[f].history[i].snapshot
    <3>1. p # NoProposal /\ p = findings'[f].history[i].snapshot
      BY <2>4
    <3>2. /\ findings[g].pending # p
          /\ \A j \in DOMAIN findings[g].history :
               findings[g].history[j].snapshot = p => f = g /\ i = j
      BY <2>4, <3>1 DEF DecidedOnce
    <3>3. e.snapshot # p
      BY <2>2, <2>4, <3>1
    <3>4. \A j \in DOMAIN findings'[g].history :
            \/ /\ j \in DOMAIN findings[g].history
               /\ findings'[g].history[j] = findings[g].history[j]
            \/ findings'[g].history[j] = e
      BY <1>2, <2>1
    <3> HIDE DEF p
    <3> QED
      BY <2>3, <3>1, <3>2, <3>3, <3>4
  <2>5. CASE f = f0 /\ i = Len(findings[f0].history) + 1 /\ findings'[f].history[i] = e
    BY <1>2, <2>1, <2>2, <2>5
  <2> QED
    BY <1>2, <2>1, <2>4, <2>5
<1>3. ASSUME NEW r \in Reviewer, TransitionStore(r) PROVE DecidedOnce'
  <2> DEFINE h == reviewer[r]
             f == h.finding
             snap == IF h.action \in ProposalRequired THEN h.read ELSE NoProposal
             e == [from |-> findings[f].status, to |-> h.to, snapshot |-> snap]
  <2>1. /\ f \in FindingId /\ h.at = "transition" /\ h \in Handler /\ Exists(f)
    BY <1>3, TransitionStoreEffect
  <2>2. CASE findings' = findings
    BY <2>2 DEF DecidedOnce
  <2>3. CASE findings' # findings
    <3>1. /\ ExpectedProposal(f, h.reviewed)
          /\ \A g \in FindingId : g # f => findings'[g] = findings[g]
          /\ findings'[f].pending = IF h.action \in ClearsProposal THEN NoProposal
                                                                  ELSE findings[f].pending
          /\ findings'[f].history = Append(findings[f].history, e)
      BY <1>3, <2>3, TransitionStoreEffect
    <3>2. e \in Entry
      BY <1>0, <2>1 DEF Entry, Handler, Exists, MaybeProposal
    <3>3. snap # NoProposal => findings[f].pending = snap /\ findings'[f].pending = NoProposal
      <4> SUFFICES ASSUME snap # NoProposal
                   PROVE  findings[f].pending = snap /\ findings'[f].pending = NoProposal
        OBVIOUS
      <4>1. h.action \in ProposalRequired /\ h.reviewed \in shown[f] /\ snap = h.read
        BY <2>1 DEF Base, HandlersInv
      <4>2. h.reviewed # NoProposal
        BY <1>0, <2>1, <4>1
      <4>3. h.read = h.reviewed
        BY <2>1, <3>1, <4>1 DEF SnapshotIsReviewed
      <4> QED
        BY <3>1, <4>1, <4>2, <4>3 DEF ExpectedProposal, ClearsProposal
    <3>4. findings'[f].pending \in {NoProposal, findings[f].pending}
      BY <3>1
    <3>5. e.snapshot = snap
      OBVIOUS
    <3> HIDE DEF e, snap
    <3> QED
      BY <1>2, <2>1, <3>1, <3>2, <3>3, <3>4, <3>5
  <2> QED
    BY <2>2, <2>3
<1>4. ASSUME NEW r \in Reviewer, ReverifyStore(r) PROVE DecidedOnce'
  <2> DEFINE f == reviewer[r].finding
             e == [from |-> findings[f].status, to |-> findings'[f].status,
                   snapshot |-> NoProposal]
  <2>1. /\ f \in FindingId /\ Exists(f)
        /\ \A g \in FindingId : g # f => findings'[g] = findings[g]
        /\ findings'[f].pending = findings[f].pending
        /\ findings'[f].history = Append(findings[f].history, e)
        /\ findings'[f].status \in {"verified_closed", "action_required"}
    BY <1>4, ReverifyStoreEffect
  <2>2. e \in Entry
    BY <1>0, <2>1 DEF Entry, Exists, MaybeProposal, Status, ActiveStatus, TerminalStatus
  <2>3. e.snapshot = NoProposal
    OBVIOUS
  <2> HIDE DEF e, f
  <2> QED
    BY <1>2, <2>1, <2>2, <2>3
<1>5. ASSUME NEW t \in Turn, InvestigationProposes(t) PROVE DecidedOnce'
  <2>1. CASE UNCHANGED <<findings, shown>>
    BY <2>1 DEF DecidedOnce
  <2>2. CASE ~UNCHANGED <<findings, shown>>
    BY <1>1, <1>5, <2>2, ProposeEffect
  <2> QED
    BY <2>1, <2>2
<1>6. CASE ReconciliationItem
  BY <1>1, <1>6, ReconcileEffect
<1>7. CASE UNCHANGED <<findings, shown>>
  BY <1>7 DEF DecidedOnce
<1> QED
  BY <1>3, <1>4, <1>5, <1>6, <1>7, StoreSteps

(* However many reviewers race, each proposal is approved or rejected at most
   once, and a decided proposal is pending on no finding. *)
THEOREM DecidedSafe == Spec => []DecidedOnce
<1>1. Init => DecidedOnce
  BY DEF Init, StoreInit, Absent, DecidedOnce
<1> QED
  BY <1>1, SpecBase, SnapshotSafe, DecidedStep, PTL DEF Spec

---------------------------------------------------------------------------
(* A sequence of entries that is an unbroken chain ending in a status. *)
Chain(h, status) ==
  /\ Len(h) > 0
  /\ h[1].from = "none"
  /\ h[Len(h)].to = status
  /\ \A i \in 2 .. Len(h) : h[i].from = h[i - 1].to

LEMMA ChainGrows ==
  ASSUME NEW h \in Seq(Entry), NEW s, Chain(h, s), NEW e \in Entry, e.from = s
  PROVE  Chain(Append(h, e), e.to)
<1> DEFINE n == Len(h)
           k == Append(h, e)
<1>1. /\ n \in Nat /\ n > 0 /\ Len(k) = n + 1 /\ k[n + 1] = e
      /\ \A i \in 1 .. n : k[i] = h[i]
  BY DEF Chain
<1>2. k[1].from = "none" /\ k[Len(k)].to = e.to
  BY <1>1 DEF Chain
<1>3. ASSUME NEW i \in 2 .. Len(k) PROVE k[i].from = k[i - 1].to
  <2>1. CASE i \in 2 .. n
    BY <1>1, <2>1 DEF Chain
  <2>2. CASE i = n + 1
    BY <1>1, <2>2 DEF Chain
  <2> QED
    BY <1>1, <2>1, <2>2
<1> HIDE DEF k, n
<1>4. Chain(k, e.to)
  BY <1>1, <1>2, <1>3 DEF Chain
<1> QED
  BY <1>4 DEF k

LEMMA ChainIs ==
  HistoryIsChain <=> \A f \in FindingId :
                       Exists(f) => Chain(findings[f].history, findings[f].status)
  BY DEF HistoryIsChain, Chain

LEMMA ChainIsNext ==
  HistoryIsChain' <=> \A f \in FindingId :
                        Exists(f)' => Chain(findings'[f].history, findings'[f].status)
  BY DEF HistoryIsChain, Chain

LEMMA ChainStep == Base /\ HistoryIsChain /\ [Next]_vars => HistoryIsChain'
<1> SUFFICES ASSUME Base, HistoryIsChain, [Next]_vars,
                    NEW f \in FindingId, Exists(f)'
             PROVE  Chain(findings'[f].history, findings'[f].status)
  BY ChainIsNext
<1>0. /\ findings[f].history \in Seq(Entry)
      /\ findings[f].status \in Status \cup {"absent"}
      /\ Exists(f) => Chain(findings[f].history, findings[f].status)
      /\ NoProposal \in MaybeProposal
  BY ChainIs DEF Base, TypeOK, Finding, MaybeProposal
<1>1. ASSUME findings'[f].history = findings[f].history,
             findings'[f].status = findings[f].status
      PROVE  Chain(findings'[f].history, findings'[f].status)
  BY <1>0, <1>1 DEF Exists
<1>2. ASSUME NEW e \in Entry, Exists(f), e.from = findings[f].status,
             findings'[f].status = e.to,
             findings'[f].history = Append(findings[f].history, e)
      PROVE  Chain(findings'[f].history, findings'[f].status)
  BY <1>0, <1>2, ChainGrows
<1>3. ASSUME NEW r \in Reviewer, TransitionStore(r)
      PROVE  Chain(findings'[f].history, findings'[f].status)
  <2> DEFINE h == reviewer[r]
             snap == IF h.action \in ProposalRequired THEN h.read ELSE NoProposal
             e == [from |-> findings[f].status, to |-> h.to, snapshot |-> snap]
  <2>1. CASE f = h.finding /\ findings' # findings
    <3>1. /\ h \in Handler /\ Exists(f)
          /\ findings'[f].status = h.to
          /\ findings'[f].history = Append(findings[f].history, e)
      BY <1>3, <2>1, TransitionStoreEffect
    <3>2. e \in Entry
      BY <1>0, <3>1 DEF Entry, Handler, Exists
    <3>3. e.from = findings[f].status /\ e.to = h.to
      OBVIOUS
    <3> HIDE DEF e
    <3> QED
      BY <1>2, <3>1, <3>2, <3>3
  <2>2. CASE ~(f = h.finding /\ findings' # findings)
    BY <1>1, <1>3, <2>2, TransitionStoreEffect
  <2> QED
    BY <2>1, <2>2
<1>4. ASSUME NEW r \in Reviewer, ReverifyStore(r)
      PROVE  Chain(findings'[f].history, findings'[f].status)
  <2> DEFINE e == [from |-> findings[f].status, to |-> findings'[f].status,
                   snapshot |-> NoProposal]
  <2>1. CASE f = reviewer[r].finding
    <3>1. /\ Exists(f)
          /\ findings'[f].status \in {"verified_closed", "action_required"}
          /\ findings'[f].history = Append(findings[f].history, e)
      BY <1>4, <2>1, ReverifyStoreEffect
    <3>2. e \in Entry
      BY <1>0, <3>1 DEF Entry, Exists, Status, ActiveStatus, TerminalStatus
    <3>3. e.from = findings[f].status /\ e.to = findings'[f].status
      OBVIOUS
    <3> HIDE DEF e
    <3> QED
      BY <1>2, <3>1, <3>2, <3>3
  <2>2. CASE f # reviewer[r].finding
    BY <1>1, <1>4, <2>2, ReverifyStoreEffect
  <2> QED
    BY <2>1, <2>2
<1>5. ASSUME NEW t \in Turn, InvestigationProposes(t)
      PROVE  Chain(findings'[f].history, findings'[f].status)
  BY <1>1, <1>5, ProposeEffect
<1>6. ASSUME ReconciliationItem
      PROVE  Chain(findings'[f].history, findings'[f].status)
  <2>1. \/ /\ findings'[f].history = findings[f].history
           /\ findings'[f].status = findings[f].status
        \/ /\ findings'[f].status = "open"
           /\ findings'[f].history =
                << [from |-> "none", to |-> "open", snapshot |-> NoProposal] >>
    BY <1>6, ReconcileEffect
  <2>2. Chain(<< [from |-> "none", to |-> "open", snapshot |-> NoProposal] >>, "open")
    BY DEF Chain
  <2> QED
    BY <1>1, <2>1, <2>2
<1>7. CASE UNCHANGED <<findings, shown>>
  BY <1>1, <1>7
<1> QED
  BY <1>3, <1>4, <1>5, <1>6, <1>7, StoreSteps

(* The audit trail has no gap: each entry starts where the one before it ended
   and the last one ends in the finding's status, also under races that make
   an entry's step itself illegal. *)
THEOREM ChainSafe == Spec => []HistoryIsChain
<1>1. Init => HistoryIsChain
  BY DEF Init, StoreInit, Absent, HistoryIsChain, Exists
<1> QED
  BY <1>1, SpecBase, ChainStep, PTL DEF Spec

---------------------------------------------------------------------------
(* One reviewer request at a time.  As long as no two overlap, FindingApi    *)
(* implements the lifecycle of FindingLifecycle, whatever investigations and *)
(* reconciliations run beside the reviewer.  Without the assumption this is  *)
(* false: the handlers decide on a status they read before the store's lock. *)
OneAtATime == \A r, q \in Reviewer : r = q

(* What a handler read still holds when it calls the store. *)
ReadsHold ==
  \A r \in Reviewer :
    LET h == reviewer[r]
    IN /\ h.at = "transition" =>
            ValidTransition(h.action, findings[h.finding].status, h.to)
       /\ h.at = "reverify" => findings[h.finding].status = "resolved"

LEMMA ReadsHoldStep ==
  ASSUME OneAtATime
  PROVE  Base /\ ReadsHold /\ [Next]_vars => ReadsHold'
<1> SUFFICES ASSUME Base, ReadsHold, [Next]_vars, NEW r \in Reviewer
             PROVE
    /\ (reviewer[r].at = "transition")' =>
         ValidTransition(reviewer[r].action, findings[reviewer[r].finding].status,
                         reviewer[r].to)'
    /\ (reviewer[r].at = "reverify")' =>
         (findings[reviewer[r].finding].status = "resolved")'
  BY DEF ReadsHold
<1> DEFINE Goal ==
    /\ (reviewer[r].at = "transition")' =>
         ValidTransition(reviewer[r].action, findings[reviewer[r].finding].status,
                         reviewer[r].to)'
    /\ (reviewer[r].at = "reverify")' =>
         (findings[reviewer[r].finding].status = "resolved")'
<1>0. /\ reviewer \in [Reviewer -> Handler] /\ Idle.at = "idle"
      /\ HandlersInv
      /\ \A q \in Reviewer : q = r
  BY DEF Base, TypeOK, Idle, OneAtATime
<1>1. ASSUME reviewer'[r].at = "idle" PROVE Goal
  BY <1>1
<1>2. ASSUME reviewer' = reviewer,
             \A f \in FindingId : Exists(f) => findings'[f].status = findings[f].status
      PROVE  Goal
  <2>1. reviewer[r].at # "idle" =>
          reviewer[r].finding \in FindingId /\ Exists(reviewer[r].finding)
    BY <1>0 DEF HandlersInv, Handler
  <2> QED
    BY <1>2, <2>1 DEF ReadsHold
<1>3. ASSUME TransitionRead(r) PROVE Goal
  BY <1>0, <1>3 DEF TransitionRead
<1>4. ASSUME ReverifyRead(r) PROVE Goal
  BY <1>0, <1>4 DEF ReverifyRead, Idle
<1>5. ASSUME TransitionStore(r) \/ ReverifyStore(r) \/ ReverifyFailed(r) PROVE Goal
  <2>1. reviewer'[r] = Idle
    BY <1>0, <1>5 DEF TransitionStore, ReverifyStore, ReverifyFailed
  <2> QED
    BY <1>0, <1>1, <2>1
<1>6. ASSUME NEW t \in Turn, InvestigationProposes(t) PROVE Goal
  BY <1>2, <1>6, ProposeEffect DEF InvestigationProposes
<1>7. ASSUME ReconciliationItem PROVE Goal
  <2>1. reviewer' = reviewer
    BY <1>7 DEF ReconciliationItem
  <2>2. \A f \in FindingId : Exists(f) => findings'[f].status = findings[f].status
    BY <1>7, ReconcileEffect
  <2> QED
    BY <1>2, <2>1, <2>2
<1>8. ASSUME UNCHANGED <<findings, reviewer>> PROVE Goal
  BY <1>2, <1>8
<1>9. Goal
  <2> HIDE DEF Goal
  <2>1. ASSUME NEW q \in Reviewer,
               \/ TransitionRead(q) \/ TransitionStore(q)
               \/ ReverifyRead(q) \/ ReverifyStore(q) \/ ReverifyFailed(q)
        PROVE  Goal
    <3>1. q = r
      BY <1>0
    <3> QED
      BY <1>3, <1>4, <1>5, <2>1, <3>1
  <2>2. ASSUME NEW t \in Turn, InvestigationStarts(t) \/ InvestigationEnds(t)
        PROVE  Goal
    BY <1>8, <2>2 DEF InvestigationStarts, InvestigationEnds
  <2>3. CASE UNCHANGED vars
    BY <1>8, <2>3 DEF vars
  <2> QED
    BY <1>6, <1>7, <2>1, <2>2, <2>3, StepCases
<1> QED
  BY <1>9

LEMMA ReadsHoldAlways ==
  ASSUME OneAtATime
  PROVE  Spec => []ReadsHold
<1>1. Init => ReadsHold
  BY DEF Init, ReadsHold, Idle
<1>2. Base /\ ReadsHold /\ [Next]_vars => ReadsHold'
  BY ReadsHoldStep
<1> QED
  BY <1>1, <1>2, SpecBase, PTL DEF Spec

(* A proposal only ever sits on a finding that is "action_required". *)
LEMMA ActionableStep ==
  Base /\ ReadsHold /\ ProposalOnlyWhenActionable /\ [Next]_vars
    => ProposalOnlyWhenActionable'
<1> SUFFICES ASSUME Base, ReadsHold, ProposalOnlyWhenActionable, [Next]_vars
             PROVE  ProposalOnlyWhenActionable'
  OBVIOUS
<1> USE DEF ProposalOnlyWhenActionable
<1>1. ASSUME NEW r \in Reviewer, TransitionStore(r) PROVE ProposalOnlyWhenActionable'
  <2> DEFINE h == reviewer[r]
             f == h.finding
  <2>1. ValidTransition(h.action, findings[f].status, h.to)
    BY <1>1, TransitionStoreEffect DEF ReadsHold
  <2>2. h.action \notin ClearsProposal => findings[f].status # "action_required"
    BY <2>1 DEF ValidTransition, Transition, ClearsProposal, ProposalRequired
  <2> HIDE DEF h, f
  <2> QED
    BY <1>1, <2>2, TransitionStoreEffect DEF h, f
<1>2. ASSUME NEW r \in Reviewer, ReverifyStore(r) PROVE ProposalOnlyWhenActionable'
  <2>1. findings[reviewer[r].finding].status = "resolved"
    BY <1>2 DEF ReverifyStore, ReadsHold
  <2> QED
    BY <1>2, <2>1, ReverifyStoreEffect
<1>3. ASSUME NEW t \in Turn, InvestigationProposes(t) PROVE ProposalOnlyWhenActionable'
  BY <1>3, ProposeEffect
<1>4. CASE ReconciliationItem
  BY <1>4, ReconcileEffect
<1> QED
  BY <1>1, <1>2, <1>3, <1>4, StoreSteps

(* EngineeringFinding's rule, "either action_required with no proposal yet or
   action_required with one pending", for one reviewer request at a time. *)
THEOREM OneReviewerActionable ==
  ASSUME OneAtATime
  PROVE  Spec => []ProposalOnlyWhenActionable
<1>1. Init => ProposalOnlyWhenActionable
  BY DEF Init, StoreInit, Absent, ProposalOnlyWhenActionable
<1>2. Spec => []ReadsHold
  BY ReadsHoldAlways
<1> QED
  BY <1>1, <1>2, SpecBase, ActionableStep, PTL DEF Spec

---------------------------------------------------------------------------
(* A step that makes no finding active leaves the active ones their keys. *)
LEMMA KeysKept ==
  ASSUME OneActivePerKey,
         \A f \in FindingId : findings'[f].status \in ActiveStatus =>
           findings[f].status \in ActiveStatus /\ findings'[f].key = findings[f].key
  PROVE  OneActivePerKey'
BY DEF OneActivePerKey, ActiveOn

LEMMA OneActiveStep ==
  Base /\ ReadsHold /\ OneActivePerKey /\ [Next]_vars => OneActivePerKey'
<1> SUFFICES ASSUME Base, ReadsHold, OneActivePerKey, [Next]_vars
             PROVE  OneActivePerKey'
  OBVIOUS
<1>1. ASSUME NEW r \in Reviewer, TransitionStore(r) PROVE OneActivePerKey'
  <2> DEFINE h == reviewer[r]
             f == h.finding
  <2>1. ValidTransition(h.action, findings[f].status, h.to)
    BY <1>1, TransitionStoreEffect DEF ReadsHold
  <2>2. findings[f].status \in ActiveStatus
    BY <2>1, TransitionTyped
  <2> HIDE DEF h, f
  <2> QED
    BY <1>1, <2>2, TransitionStoreEffect, KeysKept DEF h, f
<1>2. ASSUME NEW r \in Reviewer, ReverifyStore(r) PROVE OneActivePerKey'
  <2>1. findings[reviewer[r].finding].status \in ActiveStatus
    BY <1>2 DEF ReverifyStore, ReadsHold, ActiveStatus
  <2> QED
    BY <1>2, <2>1, ReverifyStoreEffect, KeysKept
<1>3. ASSUME NEW t \in Turn, InvestigationProposes(t) PROVE OneActivePerKey'
  BY <1>3, ProposeEffect, KeysKept
<1>4. CASE ReconciliationItem
  <2>1. PICK f \in FindingId :
          /\ \A g \in FindingId : g # f => findings'[g] = findings[g]
          /\ \/ /\ findings[f].status \in ActiveStatus
                /\ findings'[f].key = findings[f].key
             \/ \A g \in FindingId : ~ActiveOn(g, findings'[f].key)
    BY <1>4, ReconcileEffect
  <2>2. CASE findings[f].status \in ActiveStatus /\ findings'[f].key = findings[f].key
    BY <2>1, <2>2, KeysKept
  <2>3. CASE \A g \in FindingId : ~ActiveOn(g, findings'[f].key)
    BY <2>1, <2>3 DEF OneActivePerKey, ActiveOn
  <2> QED
    BY <2>1, <2>2, <2>3
<1>5. CASE findings' = findings
  BY <1>5, KeysKept
<1> QED
  BY <1>1, <1>2, <1>3, <1>4, <1>5, StoreSteps

(* upsert_from_reconciliation looks for the one active finding of a condition:
   one reviewer request at a time, there are never two, whatever is
   reconciled, reopened, closed and proposed beside it. *)
THEOREM OneReviewerOneActive ==
  ASSUME OneAtATime
  PROVE  Spec => []OneActivePerKey
<1>1. Init => OneActivePerKey
  BY DEF Init, StoreInit, Absent, OneActivePerKey, ActiveOn, ActiveStatus
<1>2. Spec => []ReadsHold
  BY ReadsHoldAlways
<1> QED
  BY <1>1, <1>2, SpecBase, OneActiveStep, PTL DEF Spec

LEMMA TerminalStep ==
  Base /\ ReadsHold /\ [Next]_vars
    => \A f \in FindingId : findings[f].status \in TerminalStatus =>
         findings'[f].status = findings[f].status
<1> SUFFICES ASSUME Base, ReadsHold, [Next]_vars, NEW f \in FindingId,
                    findings[f].status \in TerminalStatus
             PROVE  findings'[f].status = findings[f].status
  OBVIOUS
<1>0. findings[f].status \notin ActiveStatus /\ Exists(f)
  BY DEF ActiveStatus, TerminalStatus, Exists
<1>1. ASSUME NEW r \in Reviewer, TransitionStore(r)
      PROVE  findings'[f].status = findings[f].status
  <2> DEFINE h == reviewer[r]
  <2>1. ValidTransition(h.action, findings[h.finding].status, h.to)
    BY <1>1, TransitionStoreEffect DEF ReadsHold
  <2>2. h.finding # f
    BY <1>0, <2>1, TransitionTyped
  <2> QED
    BY <1>1, <2>2, TransitionStoreEffect
<1>2. ASSUME NEW r \in Reviewer, ReverifyStore(r)
      PROVE  findings'[f].status = findings[f].status
  <2>1. reviewer[r].finding # f
    BY <1>0, <1>2 DEF ReverifyStore, ReadsHold, ActiveStatus
  <2> QED
    BY <1>2, <2>1, ReverifyStoreEffect
<1>3. ASSUME NEW t \in Turn, InvestigationProposes(t)
      PROVE  findings'[f].status = findings[f].status
  BY <1>3, ProposeEffect
<1>4. CASE ReconciliationItem
  BY <1>0, <1>4, ReconcileEffect
<1>5. CASE findings' = findings
  BY <1>5
<1> QED
  BY <1>1, <1>2, <1>3, <1>4, <1>5, StoreSteps

(* FindingStatus: nothing is accepted from waived, false_positive or
   verified_closed.  True for one reviewer request at a time, and only then. *)
THEOREM OneReviewerTerminal ==
  ASSUME OneAtATime
  PROVE  Spec => TerminalIsFinal
<1>1. Spec => []ReadsHold
  BY ReadsHoldAlways
<1>2. Base /\ ReadsHold /\ [Next]_vars
        => [\A f \in FindingId : findings[f].status \in TerminalStatus =>
              findings'[f].status = findings[f].status]_vars
  BY TerminalStep
<1> QED
  BY <1>1, <1>2, SpecBase, PTL DEF Spec, TerminalIsFinal

---------------------------------------------------------------------------
(* What the rest of the world sees of one finding. *)
Seen(f) == [status |-> findings[f].status, pending |-> findings[f].pending]

LEMMA RefineStep ==
  Base /\ ReadsHold /\ ProposalOnlyWhenActionable /\ [Next]_vars
    => [Lifecycle!Next]_([f \in FindingId |-> Seen(f)])
<1> SUFFICES ASSUME Base, ReadsHold, ProposalOnlyWhenActionable, [Next]_vars
             PROVE  \/ Lifecycle!Next
                    \/ \A f \in FindingId : Seen(f)' = Seen(f)
  OBVIOUS
<1>1. ASSUME NEW r \in Reviewer, TransitionStore(r), findings' # findings
      PROVE  Lifecycle!Next
  <2> DEFINE h == reviewer[r]
             f == h.finding
  <2>1. /\ f \in FindingId /\ h \in Handler /\ h.at = "transition"
        /\ ExpectedProposal(f, h.reviewed)
        /\ \A g \in FindingId : g # f => findings'[g] = findings[g]
        /\ findings'[f].status = h.to
        /\ findings'[f].pending = IF h.action \in ClearsProposal THEN NoProposal
                                                                ELSE findings[f].pending
    BY <1>1, TransitionStoreEffect
  <2>2. ValidTransition(h.action, findings[f].status, h.to)
    BY <1>1, <2>1 DEF ReadsHold
  <2>4. h.action \in Action /\ h.to \in Status
    BY <2>1 DEF Handler
  <2>7. /\ Lifecycle!ValidTransition(h.action, findings[f].status, h.to)
        /\ h.to \in Lifecycle!Status
    BY <2>2, <2>4 DEF Lifecycle!ValidTransition, ValidTransition,
         Lifecycle!Transition, Transition, Lifecycle!Status, Lifecycle!ActiveStatus,
         Lifecycle!TerminalStatus, Status, ActiveStatus, TerminalStatus
  <2> HIDE DEF h, f
  <2>5. CASE h.action \in ProposalRequired
    <3>1. h.reviewed \in shown[f] /\ NoProposal \notin shown[f]
      BY <1>1, <2>1, <2>5, StoreConstants DEF Base, HandlersInv, TypeOK, h, f
    <3>2. findings[f].pending # NoProposal
      BY <2>1, <3>1 DEF ExpectedProposal
    <3>3. findings'[f].pending = NoProposal
      BY <2>1, <2>5 DEF ClearsProposal
    <3>4. Lifecycle!Become(f, h.to, NoProposal)
      BY <2>1, <3>3 DEF Lifecycle!Become
    <3>5. h.action \in Lifecycle!ProposalRequired
      BY <2>5 DEF Lifecycle!ProposalRequired, ProposalRequired
    <3>6. Lifecycle!Decide(f)
      BY <2>1, <2>7, <3>2, <3>4, <3>5 DEF Lifecycle!Decide
    <3> QED
      BY <2>1, <3>6 DEF Lifecycle!Next
  <2>6. CASE h.action \notin ProposalRequired
    <3>1. h.action \in Lifecycle!Action \ Lifecycle!ProposalRequired
      BY <2>4, <2>6 DEF Lifecycle!Action, Action, Lifecycle!ProposalRequired,
                        ProposalRequired
    <3>2. h.action \in ClearsProposal <=> h.action \in Lifecycle!ClearsProposal
      BY DEF Lifecycle!ClearsProposal, ClearsProposal, Lifecycle!ProposalRequired,
             ProposalRequired
    <3>3. Lifecycle!Become(f, h.to, IF h.action \in Lifecycle!ClearsProposal
                                     THEN NoProposal ELSE findings[f].pending)
      BY <2>1, <3>2 DEF Lifecycle!Become
    <3>4. Lifecycle!Move(f)
      BY <2>1, <2>7, <3>1, <3>3 DEF Lifecycle!Move, Lifecycle!Become
    <3> QED
      BY <2>1, <3>4 DEF Lifecycle!Next
  <2> QED
    BY <2>5, <2>6
<1>2. ASSUME NEW r \in Reviewer, ReverifyStore(r) PROVE Lifecycle!Next
  <2> DEFINE f == reviewer[r].finding
  <2>1. findings[f].status = "resolved" /\ reviewer[r].at = "reverify"
    BY <1>2 DEF ReverifyStore, ReadsHold
  <2>2. /\ f \in FindingId
        /\ \A g \in FindingId : g # f => findings'[g] = findings[g]
        /\ findings'[f].status \in {"verified_closed", "action_required"}
        /\ findings'[f].pending = findings[f].pending
    BY <1>2, ReverifyStoreEffect
  <2>3. findings'[f].pending = NoProposal
    BY <2>1, <2>2 DEF ProposalOnlyWhenActionable
  <2>4. Lifecycle!Become(f, findings'[f].status, NoProposal)
    BY <2>2, <2>3 DEF Lifecycle!Become
  <2>5. \E m \in BOOLEAN :
          Lifecycle!ReverifyOutcome("resolved", m, findings'[f].status)
    BY <2>2 DEF Lifecycle!ReverifyOutcome
  <2>6. findings'[f].status \in Lifecycle!Status
    BY <2>2 DEF Lifecycle!Status, Lifecycle!ActiveStatus, Lifecycle!TerminalStatus
  <2>7. Lifecycle!Reverify(f)
    BY <2>1, <2>2, <2>4, <2>5, <2>6 DEF Lifecycle!Reverify
  <2> QED
    BY <2>2, <2>7 DEF Lifecycle!Next
<1>3. ASSUME NEW t \in Turn, InvestigationProposes(t), findings' # findings
      PROVE  Lifecycle!Next
  <2>1. PICK p \in Proposal, f \in FindingId :
          /\ \A g \in FindingId : g # f => findings'[g] = findings[g]
          /\ findings[f].status = "action_required"
          /\ findings'[f].status = findings[f].status
          /\ findings'[f].pending = p
    BY <1>3, ProposeEffect
  <2>2. Lifecycle!Become(f, findings[f].status, p)
    BY <2>1 DEF Lifecycle!Become
  <2>3. Lifecycle!Propose(f)
    BY <2>1, <2>2 DEF Lifecycle!Propose, Lifecycle!Investigable
  <2> QED
    BY <2>1, <2>3 DEF Lifecycle!Next
<1>4. ASSUME ReconciliationItem
      PROVE  Lifecycle!Next \/ \A f \in FindingId : Seen(f)' = Seen(f)
  <2>1. PICK f \in FindingId :
          /\ \A g \in FindingId : g # f => findings'[g] = findings[g]
          /\ \/ /\ findings'[f].status = findings[f].status
                /\ findings'[f].pending = findings[f].pending
             \/ /\ ~Exists(f)
                /\ findings'[f].status = "open"
                /\ findings'[f].pending = NoProposal
    BY <1>4, ReconcileEffect
  <2>2. CASE findings[f].status = "absent" /\ findings'[f].status = "open"
             /\ findings'[f].pending = NoProposal
    <3>1. Lifecycle!Become(f, "open", NoProposal)
      BY <2>1, <2>2 DEF Lifecycle!Become
    <3>2. Lifecycle!Detect(f)
      BY <2>2, <3>1 DEF Lifecycle!Detect
    <3> QED
      BY <3>2 DEF Lifecycle!Next
  <2>3. CASE findings'[f].status = findings[f].status
             /\ findings'[f].pending = findings[f].pending
    BY <2>1, <2>3 DEF Seen
  <2> QED
    BY <2>1, <2>2, <2>3 DEF Exists
<1>5. CASE findings' = findings
  BY <1>5 DEF Seen
<1> QED
  BY <1>1, <1>2, <1>3, <1>4, <1>5, StoreSteps

(* One reviewer request at a time: the handlers implement the lifecycle. *)
THEOREM OneReviewerLifecycle ==
  ASSUME OneAtATime
  PROVE  Spec => LifecycleSpec
<1>1. Init => Lifecycle!Init
  BY DEF Init, StoreInit, Absent, Lifecycle!Init, Lifecycle!Absent
<1>2. Spec => []ReadsHold
  BY ReadsHoldAlways
<1>3. Spec => []ProposalOnlyWhenActionable
  BY OneReviewerActionable
<1>4. Base /\ ReadsHold /\ ProposalOnlyWhenActionable /\ [Next]_vars
        => [Lifecycle!Next]_([f \in FindingId |-> [status  |-> findings[f].status,
                                                   pending |-> findings[f].pending]])
  BY RefineStep DEF Seen
<1> QED
  BY <1>1, <1>2, <1>3, <1>4, SpecBase, PTL DEF Spec, LifecycleSpec, Lifecycle!Spec
=============================================================================
