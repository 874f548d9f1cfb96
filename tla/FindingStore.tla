---------------------------- MODULE FindingStore ----------------------------
(***************************************************************************)
(* InMemoryFindingStore (apps/api/app/persistence/finding_store.py): every *)
(* operation runs under one lock, so each operator below is one step.      *)
(*                                                                         *)
(* A finding_id is a fresh uuid; here findings are numbered in the order   *)
(* they are created, which is the order the store's dict iterates in.  The *)
(* key stands for the triple (project_id, tag, finding_type).  `seen` is   *)
(* what the sources said when the finding's values were last written:      *)
(* Matched, or one of the disagreements.                                   *)
(***************************************************************************)
EXTENDS Naturals, Sequences, FindingWorkflow

CONSTANTS MaxFindings,   \* bound: finding_ids ever handed out
          Key,           \* (project_id, tag, finding_type)
          Proposal,      \* proposal ids (uuid4)
          NoProposal,    \* pending_proposal is None
          Matched,       \* a comparison result with status "matched"
          Mismatch       \* the comparison results that are not

ASSUME StoreConstants ==
  /\ MaxFindings \in Nat \ {0}
  /\ Key # {}
  /\ NoProposal \notin Proposal
  /\ Matched \notin Mismatch

VARIABLE findings        \* finding_id -> EngineeringFinding, or absent

FindingId   == 1 .. MaxFindings
Observation == Mismatch \cup {Matched}
MaybeProposal == Proposal \cup {NoProposal}

(* FindingHistoryEntry; from = "none" is the entry of the creation. *)
Entry == [from : Status \cup {"none"}, to : Status, snapshot : MaybeProposal]

Finding == [key : Key, status : Status \cup {"absent"}, seen : Observation,
            pending : MaybeProposal, history : Seq(Entry)]

Absent == [key |-> CHOOSE k \in Key : TRUE, status |-> "absent",
           seen |-> Matched, pending |-> NoProposal, history |-> << >>]

StoreInit == findings = [f \in FindingId |-> Absent]

Exists(f)     == findings[f].status # "absent"
ClosedIsActive(f, k) ==           \* mutant: the status is not looked at
  findings[f].key = k /\ Exists(f)
ResolvedIsInactive(f, k) ==       \* mutant: "resolved" does not count as active
  findings[f].key = k /\ findings[f].status \in ActiveStatus \ {"resolved"}
ActiveOn(f, k) == findings[f].key = k /\ findings[f].status \in ActiveStatus

ReopenActive(k, v) ==             \* mutant: the upsert also resets the status
  \E f \in FindingId :
    ActiveOn(f, k) /\ findings' = [findings EXCEPT ![f].seen = v, ![f].status = "open"]

(* upsert_from_reconciliation: the first active finding of the key gets the
   new values, and keeps its status, proposal and history ... *)
UpdateActive(k, v) ==
  \E f \in FindingId :
    /\ ActiveOn(f, k)
    /\ \A g \in FindingId : ActiveOn(g, k) => f <= g
    /\ findings' = [findings EXCEPT ![f].seen = v]

(* ... or, when the key has none, a new finding is created, "open". *)
CreateOpen(k, v) ==
  /\ \A f \in FindingId : ~ActiveOn(f, k)
  /\ \E f \in FindingId :
       /\ ~Exists(f)
       /\ \A g \in FindingId : g < f => Exists(g)
       /\ findings' = [findings EXCEPT ![f] =
            [key |-> k, status |-> "open", seen |-> v, pending |-> NoProposal,
             history |-> << [from |-> "none", to |-> "open",
                             snapshot |-> NoProposal] >>]]

Upsert(k, v) == UpdateActive(k, v) \/ CreateOpen(k, v)

NoVersionCheck(f, expected) == TRUE   \* mutant
SomeProposal(f, expected) ==      \* mutant: only asks that one is pending
  expected = NoProposal \/ findings[f].pending # NoProposal

(* The version check of append_transition: FindingVersionConflict when it is
   false.  A caller that names no proposal is never refused. *)
ExpectedProposal(f, expected) ==
  expected = NoProposal \/ findings[f].pending = expected

AppendNoSnapshot(f, to, snapshot, pending, seen) ==   \* mutant: field forgotten
  findings' = [findings EXCEPT
    ![f].status  = to,
    ![f].pending = pending,
    ![f].seen    = seen,
    ![f].history = Append(@, [from |-> findings[f].status, to |-> to])]

(* append_transition once the check passed: one history entry, the new status
   and the caller's updates.  It does not look at the status it overwrites. *)
AppendTransition(f, to, snapshot, pending, seen) ==
  findings' = [findings EXCEPT
    ![f].status  = to,
    ![f].pending = pending,
    ![f].seen    = seen,
    ![f].history = Append(@, [from |-> findings[f].status, to |-> to,
                              snapshot |-> snapshot])]

AnyStatusMaySet(f) == Exists(f)   \* mutant: expected_status not checked

(* set_pending_proposal with expected_status = "action_required". *)
MaySetProposal(f) == findings[f].status = "action_required"
SetPendingProposal(f, p) == findings' = [findings EXCEPT ![f].pending = p]
=============================================================================
