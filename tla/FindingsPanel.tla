--------------------------- MODULE FindingsPanel ---------------------------
(***************************************************************************)
(* The findings tab (apps/web/src/Findings.tsx): a list that is loaded and *)
(* reloaded, cards with buttons chosen from a mirror of the server's table,*)
(* and clicks whose requests overlap with other reviewers.  The server is  *)
(* the lifecycle as a reviewer understands it (FindingLifecycle); what its *)
(* handlers do when they overlap is FindingApi.                            *)
(***************************************************************************)
EXTENDS BrowserTab, FindingWorkflow, Naturals

CONSTANTS Finding, Proposal, NoProposal,
          OwnerOf          \* the project of each finding

ASSUME PanelConstants == OwnerOf \in [Finding -> Project] /\ None \notin Finding

VARIABLES
  life,                    \* the server's findings
  panel,                   \* projectId of the mounted panel, or None
  cards,                   \* findings: None, or the records on display
  lists,                   \* load(): requests in flight
  posts,                   \* act() and reverify(): requests in flight
  busyId

panelVars == <<panel, cards, lists, posts, busyId>>

Server == INSTANCE FindingLifecycle WITH FindingId <- Finding

Record == [status : Status \cup {"absent"}, pending : Proposal \cup {NoProposal}]
ListOf(p) == {f \in Finding : OwnerOf[f] = p /\ life[f].status # "absent"}

PanelInit ==
  panel = None /\ cards = None /\ lists = {} /\ posts = {} /\ busyId = None

(* load(): on mount, on a change of project or refreshToken, or by "Refresh";
   n tells requests apart. *)
RequestList(p, n) == lists' = lists \cup {[n |-> n, project |-> p, content |-> None]}

MountPanel(p, n) ==
  /\ panel' = p /\ cards' = None /\ busyId' = None
  /\ RequestList(p, n)
  /\ UNCHANGED posts

(* The cards of the project before stay until the new list is there. *)
PanelProject(p, n) ==
  /\ panel' = p
  /\ RequestList(p, n)
  /\ UNCHANGED <<cards, posts, busyId>>

Reload(n) ==
  /\ panel # None
  /\ RequestList(panel, n)
  /\ UNCHANGED <<panel, cards, posts, busyId>>

(* What is in flight goes on at the server; nobody waits for its result. *)
UnmountPanel ==
  /\ panel' = None /\ cards' = None /\ busyId' = None
  /\ lists' = {}
  /\ posts' = {[k EXCEPT !.awaited = FALSE] : k \in posts}

ListIsRead(l) ==
  /\ l \in lists /\ l.content = None
  /\ lists' = (lists \ {l}) \cup
       {[l EXCEPT !.content = [f \in ListOf(l.project) |-> life[f]]]}
  /\ UNCHANGED <<life, panel, cards, posts, busyId>>

ListLands(l) ==
  /\ l \in lists /\ l.content # None
  /\ lists' = lists \ {l}
  /\ cards' = l.content
  /\ UNCHANGED <<life, panel, posts, busyId>>

ListFails(l) ==
  /\ l \in lists
  /\ lists' = lists \ {l}
  /\ UNCHANGED <<life, panel, cards, posts, busyId>>

---------------------------------------------------------------------------
(* LEGAL_ACTIONS, the mirror of _TRANSITIONS, and the buttons of a card. *)
LegalActions(status) ==
  CASE status = "open"            -> {"acknowledge"}
    [] status = "acknowledged"    -> {"start_action", "waive", "mark_false_positive"}
    [] status = "action_required" -> {"resolve"}
    [] OTHER                      -> {}

RecheckAnywhere(card) ==          \* mutant: Re-check offered before it is resolved
  LegalActions(card.status)
    \cup (IF card.status \in {"action_required", "resolved"} THEN {"reverify"} ELSE {})
    \cup (IF card.pending # NoProposal THEN ProposalRequired ELSE {})

Buttons(card) ==
  LegalActions(card.status)
    \cup (IF card.status = "resolved" THEN {"reverify"} ELSE {})
    \cup (IF card.pending # NoProposal THEN ProposalRequired ELSE {})

(* A click sends the id of the proposal on the card, for a decision. *)
Click(f, n) ==
  /\ cards # None /\ f \in DOMAIN cards
  /\ busyId # f
  /\ \E a \in Buttons(cards[f]) :
       posts' = posts \cup
         {[n |-> n, finding |-> f, action |-> a, shown |-> cards[f],
           proposal |-> IF a \in ProposalRequired THEN cards[f].pending
                        ELSE NoProposal,
           reply |-> "none", met |-> cards[f], result |-> cards[f],
           awaited |-> TRUE]}
  /\ busyId' = f
  /\ UNCHANGED <<panel, cards, lists>>

(* The server's answer: the transition its tables allow, of the proposal the
   click named, or a refusal. *)
UncheckedOutcomes(k) ==           \* mutant: the proposal's id not compared
  LET now == life[k.finding]
  IN {to \in Status :
       IF k.action = "reverify"
         THEN \E matches \in BOOLEAN : ReverifyOutcome(now.status, matches, to)
         ELSE /\ ValidTransition(k.action, now.status, to)
              /\ k.action \in ProposalRequired => now.pending # NoProposal}

Outcomes(k) ==
  LET now == life[k.finding]
  IN {to \in Status :
       IF k.action = "reverify"
         THEN \E matches \in BOOLEAN : ReverifyOutcome(now.status, matches, to)
         ELSE /\ ValidTransition(k.action, now.status, to)
              /\ k.action \in ProposalRequired =>
                   now.pending # NoProposal /\ now.pending = k.proposal}

After(k, to) ==
  [status |-> to,
   pending |-> IF k.action \in ClearsProposal \cup {"reverify"} THEN NoProposal
               ELSE life[k.finding].pending]

PostArrives(k) ==
  /\ k \in posts /\ k.reply = "none"
  /\ IF Outcomes(k) = {}
       THEN /\ posts' = (posts \ {k}) \cup
                 {[k EXCEPT !.reply = "refused", !.met = life[k.finding]]}
            /\ UNCHANGED life
       ELSE \E to \in Outcomes(k) :
              /\ life' = [life EXCEPT ![k.finding] = After(k, to)]
              /\ posts' = (posts \ {k}) \cup
                   {[k EXCEPT !.reply = "accepted", !.met = life[k.finding],
                              !.result = After(k, to)]}
  /\ UNCHANGED <<panel, cards, lists, busyId>>

(* The connection fails while the request is under way: the card is free again, and
   the server may still be reached. *)
PostIsLost(k) ==
  /\ k \in posts /\ k.awaited /\ k.reply = "none"
  /\ posts' = (posts \ {k}) \cup {[k EXCEPT !.awaited = FALSE]}
  /\ busyId' = None
  /\ UNCHANGED <<life, panel, cards, lists>>

(* The answer, or a failure of the connection before or after the server acted:
   busyId is cleared whichever card it names by then. *)
PostLands(k) ==
  /\ k \in posts
  /\ posts' = posts \ {k}
  /\ IF k.awaited
       THEN /\ busyId' = None
            /\ \/ UNCHANGED cards
               \/ /\ k.reply = "accepted"
                  /\ cards' = [f \in DOMAIN cards |->
                       IF f = k.finding THEN k.result ELSE cards[f]]
       ELSE UNCHANGED <<cards, busyId>>
  /\ UNCHANGED <<life, panel, lists>>

(* Other reviewers, agent turns and reconciliations. *)
OthersAct == Server!Next /\ UNCHANGED panelVars

ClickRecord == [n : Nat, finding : Finding, action : Action \cup {"reverify"},
           shown : Record, proposal : Proposal \cup {NoProposal},
           reply : {"none", "accepted", "refused"}, met : Record,
           result : Record, awaited : BOOLEAN]

PanelTypeOK ==
  /\ life \in [Finding -> Record]
  /\ panel \in Project \cup {None}
  /\ cards = None \/ \E fs \in SUBSET Finding : cards \in [fs -> Record]
  /\ posts \subseteq ClickRecord
  /\ busyId \in Finding \cup {None}

(* A button is refused only because the server has moved on since the card was
   rendered: the mirror offers nothing the tables do not allow, and a decision
   always names its proposal ("a stale copy here just risks an extra 409"). *)
FreshClickAccepted ==
  \A k \in posts : k.reply = "refused" => k.met # k.shown

(* A decision that goes through is about the proposal that was on the card when
   the reviewer clicked, whatever proposals came and went meanwhile. *)
DecisionIsOfShown ==
  \A k \in posts :
    k.reply = "accepted" /\ k.action \in ProposalRequired =>
      k.met.pending = k.shown.pending
=============================================================================
