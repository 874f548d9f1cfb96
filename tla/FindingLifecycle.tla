-------------------------- MODULE FindingLifecycle --------------------------
(***************************************************************************)
(* The lifecycle of findings as a reviewer understands it: each action     *)
(* happens at once, from the status it is legal in, and a decision is      *)
(* about the proposal that is pending at that moment.                      *)
(***************************************************************************)
EXTENDS FindingWorkflow

CONSTANTS FindingId, Proposal, NoProposal

VARIABLE life            \* finding_id -> its status and pending proposal

Absent == [status |-> "absent", pending |-> NoProposal]

Init == life = [f \in FindingId |-> Absent]

Become(f, status, pending) ==
  life' = [life EXCEPT ![f] = [status |-> status, pending |-> pending]]

(* Reconciliation detects a disagreement for the first time. *)
Detect(f) == life[f].status = "absent" /\ Become(f, "open", NoProposal)

(* A reviewer moves the finding along, deciding about no proposal. *)
Move(f) ==
  \E a \in Action \ ProposalRequired, to \in Status :
    /\ ValidTransition(a, life[f].status, to)
    /\ Become(f, to, IF a \in ClearsProposal THEN NoProposal ELSE life[f].pending)

(* A reviewer approves or rejects the pending proposal. *)
Decide(f) ==
  \E a \in ProposalRequired, to \in Status :
    /\ life[f].pending # NoProposal
    /\ ValidTransition(a, life[f].status, to)
    /\ Become(f, to, NoProposal)

(* An investigation ends with a proposal. *)
Propose(f) ==
  \E p \in Proposal :
    /\ Investigable(life[f].status)
    /\ Become(f, life[f].status, p)

(* The sources are read again. *)
Reverify(f) ==
  \E matches \in BOOLEAN, to \in Status :
    /\ ReverifyOutcome(life[f].status, matches, to)
    /\ Become(f, to, NoProposal)

Next == \E f \in FindingId :
          Detect(f) \/ Move(f) \/ Decide(f) \/ Propose(f) \/ Reverify(f)

Spec == Init /\ [][Next]_life
=============================================================================
