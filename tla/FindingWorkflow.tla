-------------------------- MODULE FindingWorkflow --------------------------
(***************************************************************************)
(* The lifecycle tables of an engineering finding                          *)
(* (apps/api/app/finding_workflow.py, FindingStatus in schemas/models.py). *)
(* Constant-level: no state, only who may go where.                        *)
(***************************************************************************)

ActiveStatus   == {"open", "acknowledged", "action_required", "resolved"}
TerminalStatus == {"verified_closed", "waived", "false_positive"}
Status         == ActiveStatus \cup TerminalStatus

(* The table _TRANSITIONS, as a relation <<action, from, to>>. *)
Transition ==
  { <<"acknowledge",         "open",            "acknowledged">>,
    <<"start_action",        "acknowledged",    "action_required">>,
    <<"waive",               "acknowledged",    "waived">>,
    <<"mark_false_positive", "acknowledged",    "false_positive">>,
    <<"resolve",             "action_required", "resolved">>,
    <<"approve_proposal",    "action_required", "resolved">>,
    <<"reject_proposal",     "action_required", "action_required">> }

Action == { "acknowledge", "start_action", "waive", "mark_false_positive",
            "resolve", "approve_proposal", "reject_proposal" }

(* Decisions about one specific proposal, and the actions that clear it. *)
ProposalRequired == {"approve_proposal", "reject_proposal"}
ResolveKeepsProposal == ProposalRequired   \* mutant: "resolve" left out
ClearsProposal   == ProposalRequired \cup {"resolve"}

(* validate_transition: `to` is where `action` leads from `from`. *)
ValidTransition(action, from, to) == <<action, from, to>> \in Transition

(* resolve_reverify_outcome: legal only from "resolved", decided by the fresh
   read of the sources and not by the caller. *)
ReverifyOutcome(from, matches, to) ==
  /\ from = "resolved"
  /\ to = IF matches THEN "verified_closed" ELSE "action_required"

(* A finding that may be investigated by an agent turn: every finding type is
   investigable, so only the status decides. *)
Investigable(status) == status = "action_required"
=============================================================================
