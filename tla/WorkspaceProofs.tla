-------------------------- MODULE WorkspaceProofs --------------------------
(***************************************************************************)
(* Machine-checked proofs about Workspace: for any number of projects,     *)
(* elements, findings, pages, scenes and moves.  The viewer, the image and *)
(* the findings panel each have an invariant of their own, kept by every   *)
(* step that the page lets them take.                                      *)
(***************************************************************************)
EXTENDS Workspace, TLAPS

---------------------------------------------------------------------------
(* The image.  Its own effect is the only one whose object URL is alive. *)
ImageInv == ImageTypeOK /\ PageIsCurrent

ImageMove ==
  \/ UNCHANGED pageImage
  \/ \E s \in Source : ShowSource(s)
  \/ UnmountImage
  \/ \E n \in fetches : BlobArrives(n) \/ BlobFails(n)

LEMMA ImageStep == ImageInv /\ ImageMove => ImageInv'
<1> SUFFICES ASSUME ImageInv, ImageMove PROVE ImageInv'
  OBVIOUS
<1> USE DEF ImageInv, ImageTypeOK, PageIsCurrent
<1>1. CASE UNCHANGED pageImage
  BY <1>1 DEF pageImage
<1>2. ASSUME NEW s \in Source, ShowSource(s)
      PROVE  ImageInv'
  BY <1>2, NoneIsNoSource DEF ShowSource
<1>3. CASE UnmountImage
  BY <1>3 DEF UnmountImage
<1>4. ASSUME NEW n \in fetches, BlobArrives(n)
      PROVE  ImageInv'
  <2>1. fetches' = fetches \ {n} /\ n \in 1..effect /\ UNCHANGED <<src, effect>>
    BY <1>4 DEF BlobArrives
  <2>2. CASE Cancelled(n)
    <3>1. UNCHANGED <<urls, image>>
      BY <1>4, <2>2 DEF BlobArrives
    <3> QED
      BY <2>1, <2>2, <3>1 DEF Cancelled
  <2>3. CASE ~Cancelled(n)
    <3>1. n = effect /\ src # None /\ urls' = urls \cup {n} /\ image' = n
      BY <1>4, <2>3 DEF BlobArrives, Cancelled
    <3> QED
      BY <2>1, <3>1
  <2> QED
    BY <2>2, <2>3
<1>5. ASSUME NEW n \in fetches, BlobFails(n)
      PROVE  ImageInv'
  BY <1>5 DEF BlobFails, Cancelled
<1> QED
  BY <1>1, <1>2, <1>3, <1>4, <1>5 DEF ImageMove

---------------------------------------------------------------------------
(* The viewer.  The scene that is rendered belongs to the current mount, whose
   map is empty while nothing is mounted. *)
SceneInv ==
  /\ \A s \in Scene : loads[s].pc # "none" => loads[s].project \in Project
  /\ live # 0 => loads[live].pc # "none" /\ loads[live].mount = mounts
  /\ live = 0 => \A e \in Element : meshes[e].scene = 0
  /\ mounts <= scenes
ViewerInv == ViewerTypeOK /\ SceneInv /\ MapIsLit

Highlights(ids) ==
  SetHighlighted(ids) /\ UNCHANGED <<mounts, scenes, live, loads, viewerStatus>>
HighlightsAtMount(ids, p) ==
  /\ live = 0
  /\ highlighted' = ids
  /\ mounts' = mounts + 1
  /\ BeginScene(p, mounts')
  /\ UNCHANGED meshes

ViewerMove ==
  \/ UNCHANGED viewer
  \/ UnmountViewer
  \/ \E p \in Project : ReplaceScene(p) \/ MountViewer(p)
  \/ \E s \in Scene : ViewerProceeds(s)
  \/ \E ids \in SUBSET Element :
       Highlights(ids) \/ \E p \in Project : HighlightsAtMount(ids, p)

LEMMA PaintEffect ==
  ASSUME NEW map \in [Element -> Mesh], NEW ids \in SUBSET Element
  PROVE  /\ Paint(map, ids) \in [Element -> Mesh]
         /\ \A e \in Element :
              /\ Paint(map, ids)[e].scene = map[e].scene
              /\ map[e].scene # 0 => (Paint(map, ids)[e].lit <=> e \in ids)
<1>1. NoMesh \in Mesh /\ NoMesh.scene = 0
  BY ViewerConstants DEF NoMesh, Mesh
<1>2. ASSUME NEW e \in Element
      PROVE  /\ Paint(map, ids)[e] \in Mesh
             /\ Paint(map, ids)[e].scene = map[e].scene
             /\ map[e].scene # 0 => (Paint(map, ids)[e].lit <=> e \in ids)
  <2>1. Paint(map, ids)[e] = IF map[e].scene = 0 THEN NoMesh
                             ELSE [map[e] EXCEPT !.lit = e \in ids]
    BY DEF Paint
  <2> DEFINE lit == e \in ids
  <2>2. map[e] \in Mesh /\ lit \in BOOLEAN
    OBVIOUS
  <2>3. CASE map[e].scene = 0
    BY <1>1, <2>1, <2>3
  <2>4. CASE map[e].scene # 0
    <3>1. Paint(map, ids)[e] = [map[e] EXCEPT !.lit = lit]
      BY <2>1, <2>4
    <3> HIDE DEF lit
    <3>2. /\ Paint(map, ids)[e] \in Mesh /\ Paint(map, ids)[e].scene = map[e].scene
          /\ Paint(map, ids)[e].lit = lit
      BY <2>2, <3>1 DEF Mesh
    <3> QED
      BY <3>2 DEF lit
  <2> QED
    BY <2>3, <2>4
<1>3. Paint(map, ids) = [e \in Element |-> Paint(map, ids)[e]]
  BY DEF Paint
<1> QED
  BY <1>2, <1>3

LEMMA NoMeshesTyped ==
  NoMeshes \in [Element -> Mesh] /\ \A e \in Element : NoMeshes[e].scene = 0
BY ViewerConstants DEF NoMeshes, NoMesh, Mesh

LEMMA BeginSceneEffect ==
  ASSUME ViewerInv, NEW p \in Project, NEW mount \in 0..MaxScenes, BeginScene(p, mount)
  PROVE  /\ scenes' = scenes + 1 /\ scenes' \in Scene /\ live' = scenes'
         /\ loads' \in [Scene -> Load]
         /\ \A s \in Scene : s # scenes' => loads'[s] = loads[s]
         /\ loads'[scenes'] = [pc |-> "fetch", project |-> p, mount |-> mount]
         /\ viewerStatus' = [phase |-> "loading", scene |-> scenes']
<1>1. scenes' = scenes + 1 /\ scenes' \in Scene /\ live' = scenes'
  BY ViewerConstants DEF BeginScene, ViewerInv, ViewerTypeOK, Scene
<1>2. [pc |-> "fetch", project |-> p, mount |-> mount] \in Load
  BY DEF Load
<1> QED
  BY <1>1, <1>2 DEF BeginScene, ViewerInv, ViewerTypeOK, Publish

(* A new scene, whatever its mount, with an empty map. *)
LEMMA NewScene ==
  ASSUME ViewerInv, NEW p \in Project, NEW mount \in 0..MaxScenes,
         mounts' = mount, mount <= scenes + 1, BeginScene(p, mount),
         meshes' \in [Element -> Mesh], \A e \in Element : meshes'[e].scene = 0,
         highlighted' \subseteq Element
  PROVE  ViewerInv'
<1> DEFINE new == [pc |-> "fetch", project |-> p, mount |-> mount]
<1>1. /\ scenes' = scenes + 1 /\ scenes' \in Scene /\ live' = scenes'
      /\ loads' \in [Scene -> Load]
      /\ \A s \in Scene : s # scenes' => loads'[s] = loads[s]
      /\ loads'[scenes'] = new
      /\ viewerStatus' = [phase |-> "loading", scene |-> scenes']
  BY BeginSceneEffect
<1>2. scenes' \in 0..MaxScenes /\ scenes' # 0
  BY <1>1, ViewerConstants DEF Scene
<1>3. viewerStatus' \in [phase : {"loading", "parsing", "ready", "failed"}, scene : Scene]
  BY <1>1
<1>4. ViewerTypeOK'
  BY <1>1, <1>2, <1>3 DEF ViewerTypeOK
<1>5. SceneInv'
  <2>1. \A s \in Scene : loads'[s].pc # "none" => loads'[s].project \in Project
    BY <1>1 DEF ViewerInv, SceneInv
  <2>2. loads'[live'].pc # "none" /\ loads'[live'].mount = mounts'
    BY <1>1
  <2> QED
    BY <1>1, <1>2, <2>1, <2>2 DEF SceneInv
<1>6. MapIsLit'
  BY <1>1 DEF MapIsLit, SceneBuilt
<1> QED
  BY <1>4, <1>5, <1>6 DEF ViewerInv

LEMMA ViewerStep == ViewerInv /\ ViewerMove => ViewerInv'
<1> SUFFICES ASSUME ViewerInv, ViewerMove PROVE ViewerInv'
  OBVIOUS
<1>1. CASE UNCHANGED viewer
  BY <1>1 DEF viewer, ViewerInv, ViewerTypeOK, SceneInv, MapIsLit, SceneBuilt
<1>2. CASE UnmountViewer
  BY <1>2, NoMeshesTyped, ViewerConstants
  DEF UnmountViewer, ViewerInv, ViewerTypeOK, SceneInv, MapIsLit, SceneBuilt
<1>0. /\ mounts \in 0..MaxScenes /\ mounts <= scenes + 1 /\ meshes \in [Element -> Mesh]
      /\ highlighted \subseteq Element
      /\ scenes < MaxScenes => mounts + 1 \in 0..MaxScenes /\ mounts + 1 <= scenes + 1
  BY ViewerConstants DEF ViewerInv, ViewerTypeOK, SceneInv
<1>3. ASSUME NEW p \in Project, ReplaceScene(p)
      PROVE  ViewerInv'
  BY <1>3, <1>0, NewScene, NoMeshesTyped DEF ReplaceScene
<1>4. ASSUME NEW p \in Project, MountViewer(p)
      PROVE  ViewerInv'
  <2>1. /\ live = 0 /\ mounts' = mounts + 1 /\ BeginScene(p, mounts + 1)
        /\ UNCHANGED <<meshes, highlighted>>
    BY <1>4 DEF MountViewer
  <2>2. scenes < MaxScenes /\ \A e \in Element : meshes[e].scene = 0
    BY <2>1 DEF BeginScene, ViewerInv, SceneInv
  <2> QED
    BY <1>0, <2>1, <2>2, NewScene
<1>5. ASSUME NEW ids \in SUBSET Element, NEW p \in Project, HighlightsAtMount(ids, p)
      PROVE  ViewerInv'
  <2>1. /\ live = 0 /\ mounts' = mounts + 1 /\ BeginScene(p, mounts + 1)
        /\ UNCHANGED meshes /\ highlighted' = ids
    BY <1>5 DEF HighlightsAtMount
  <2>2. scenes < MaxScenes /\ \A e \in Element : meshes[e].scene = 0
    BY <2>1 DEF BeginScene, ViewerInv, SceneInv
  <2> QED
    BY <1>0, <2>1, <2>2, NewScene
<1>6. ASSUME NEW ids \in SUBSET Element, Highlights(ids)
      PROVE  ViewerInv'
  <2>1. /\ meshes' = Paint(meshes, ids) /\ highlighted' = ids
        /\ UNCHANGED <<mounts, scenes, live, loads, viewerStatus>>
    BY <1>6 DEF Highlights, SetHighlighted
  <2>2. /\ meshes' \in [Element -> Mesh]
        /\ \A e \in Element :
             /\ meshes'[e].scene = meshes[e].scene
             /\ meshes[e].scene # 0 => (meshes'[e].lit <=> e \in ids)
    BY <2>1, PaintEffect DEF ViewerInv, ViewerTypeOK
  <2>3. ViewerTypeOK' /\ SceneInv'
    BY <2>1, <2>2 DEF ViewerInv, ViewerTypeOK, SceneInv
  <2>4. MapIsLit'
    <3>1. \A e \in Element : meshes'[e].scene # 0 => (meshes'[e].lit <=> e \in highlighted')
      BY <2>1, <2>2
    <3>2. SceneBuilt => ElementsOf[loads[live].project] \subseteq Element
      BY ViewerConstants DEF SceneBuilt, ViewerInv, SceneInv, ViewerTypeOK, Scene
    <3>3. SceneBuilt' = SceneBuilt /\ loads'[live'] = loads[live]
      BY <2>1 DEF SceneBuilt
    <3> QED
      BY <2>2, <3>1, <3>2, <3>3 DEF MapIsLit, ViewerInv
  <2> QED
    BY <2>3, <2>4 DEF ViewerInv
<1>7. ASSUME NEW s \in Scene, ViewerProceeds(s)
      PROVE  ViewerInv'
  <2>1. \A q \in Scene : /\ loads[q] \in Load
                         /\ loads[q].pc \in {"none", "fetch", "json", "done", "failed"}
    BY DEF ViewerInv, ViewerTypeOK, Load
  <2>2. ASSUME NEW pc \in {"json", "done", "failed"}, SetPc(s, pc)
        PROVE  /\ loads' \in [Scene -> Load]
               /\ \A q \in Scene : /\ loads'[q].project = loads[q].project
                                   /\ loads'[q].mount = loads[q].mount
                                   /\ loads'[q].pc = IF q = s THEN pc ELSE loads[q].pc
    BY <2>2 DEF SetPc, ViewerInv, ViewerTypeOK, Load
  <2>3. live # 0 => live \in Scene
    BY DEF ViewerInv, ViewerTypeOK, Scene
  <2>4. CASE ProjectionResponds(s)
    BY <2>1, <2>2, <2>3, <2>4
    DEF ProjectionResponds, Publish, ViewerInv, ViewerTypeOK, SceneInv, MapIsLit,
        SceneBuilt
  <2>5. CASE ProjectionFails(s)
    BY <2>1, <2>2, <2>3, <2>5
    DEF ProjectionFails, Publish, ViewerInv, ViewerTypeOK, SceneInv, MapIsLit,
        SceneBuilt
  <2>6. CASE ProjectionReady(s)
    <3>1. /\ loads[s].pc = "json" /\ SetPc(s, "done")
          /\ viewerStatus' = [phase |-> "ready", scene |-> s]
          /\ UNCHANGED <<mounts, scenes, live, highlighted>>
      BY <2>6 DEF ProjectionReady, Publish
    <3>2. CASE ~OwnsMap(s)
      <4>1. UNCHANGED meshes
        BY <2>6, <3>2 DEF ProjectionReady
      <4>2. live # s
        BY <3>2 DEF OwnsMap, ViewerInv, SceneInv, Scene
      <4> QED
        BY <2>1, <2>2, <2>3, <3>1, <4>1, <4>2
        DEF ViewerInv, ViewerTypeOK, SceneInv, MapIsLit, SceneBuilt
    <3>3. CASE OwnsMap(s)
      <4>1. meshes' = Paint(WithMeshes(s), highlighted)
        BY <2>6, <3>3 DEF ProjectionReady
      <4>2. /\ WithMeshes(s) \in [Element -> Mesh]
            /\ \A e \in Element :
                 WithMeshes(s)[e].scene =
                   IF e \in ElementsOf[loads[s].project] THEN s ELSE meshes[e].scene
        BY DEF WithMeshes, Mesh, Scene, ViewerInv, ViewerTypeOK
      <4>3. /\ meshes' \in [Element -> Mesh]
            /\ \A e \in Element :
                 /\ meshes'[e].scene = WithMeshes(s)[e].scene
                 /\ meshes'[e].scene # 0 => (meshes'[e].lit <=> e \in highlighted)
        BY <4>1, <4>2, PaintEffect DEF ViewerInv, ViewerTypeOK
      <4>4. ViewerTypeOK' /\ SceneInv'
        BY <2>1, <2>2, <2>3, <3>1, <3>3, <4>3
        DEF OwnsMap, ViewerInv, ViewerTypeOK, SceneInv
      <4>5. ASSUME SceneBuilt', NEW e \in ElementsOf[loads[live].project]
            PROVE  e \in Element /\ meshes'[e].scene # 0
        <5>1. live \in Scene /\ loads[live].project \in Project
          BY <2>3, <3>3 DEF OwnsMap, ViewerInv, SceneInv
        <5>2. e \in Element
          BY <5>1, ViewerConstants
        <5>3. CASE live = s
          BY <4>2, <4>3, <5>2, <5>3 DEF Scene
        <5>4. CASE live # s
          <6>1. SceneBuilt
            BY <2>2, <3>1, <4>5, <5>1, <5>4 DEF SceneBuilt
          <6>2. meshes[e].scene # 0
            BY <6>1 DEF ViewerInv, MapIsLit
          <6> QED
            BY <4>2, <4>3, <5>2, <6>2 DEF Scene
        <5> QED
          BY <5>3, <5>4
      <4>6. MapIsLit'
        BY <2>2, <2>3, <3>1, <4>3, <4>5 DEF MapIsLit, SceneBuilt
      <4> QED
        BY <4>4, <4>6 DEF ViewerInv
    <3> QED
      BY <3>2, <3>3
  <2> QED
    BY <1>7, <2>4, <2>5, <2>6 DEF ViewerProceeds
<1> QED
  BY <1>1, <1>2, <1>3, <1>4, <1>5, <1>6, <1>7 DEF ViewerMove

---------------------------------------------------------------------------
(* The findings.  A proposal is pending only where action is required, on the
   server and therefore on every card. *)
Good     == {r \in Record : r.pending # NoProposal => r.status = "action_required"}
Lists    == UNION {[fs -> Good] : fs \in SUBSET Finding}
Contents == {None} \cup Lists
ListRequest == [n : Nat, project : Project, content : Contents]
GoodClick ==
  [n : Nat, finding : Finding, action : Action \cup {"reverify"}, shown : Good,
   proposal : Proposal \cup {NoProposal}, reply : {"none", "accepted", "refused"},
   met : Good, result : Good, awaited : BOOLEAN]

Sound(k) ==
  /\ k.action \in Buttons(k.shown)
  /\ k.action \in ProposalRequired => k.proposal = k.shown.pending
  /\ k.reply = "refused" => k.met # k.shown
  /\ k.reply = "accepted" /\ k.action \in ProposalRequired =>
       k.met.pending = k.proposal

PanelInv ==
  /\ life \in [Finding -> Good]
  /\ panel \in Project \cup {None}
  /\ cards \in Contents
  /\ lists \subseteq ListRequest
  /\ posts \subseteq GoodClick
  /\ \A k \in posts : Sound(k)
  /\ \A k \in posts : k.awaited => cards \in Lists
  /\ panel = None =>
       cards = None /\ lists = {} /\ \A k \in posts : ~k.awaited
  /\ busyId \in Finding \cup {None}

PanelMove ==
  \/ UNCHANGED <<panelVars, life>>
  \/ /\ UNCHANGED life
     /\ \/ \E p \in Project, n \in Nat : panel = None /\ MountPanel(p, n)
        \/ \E p \in Project, n \in Nat : panel # None /\ PanelProject(p, n)
        \/ \E n \in Nat : Reload(n)
        \/ UnmountPanel
        \/ \E f \in Finding, n \in Nat : Click(f, n)
  \/ \E l \in lists : ListIsRead(l) \/ ListLands(l) \/ ListFails(l)
  \/ \E k \in posts : PostArrives(k) \/ PostIsLost(k) \/ PostLands(k)
  \/ OthersAct

LEMMA ContentsTyped ==
  /\ None \in Contents
  /\ \A fs \in SUBSET Finding : \A c \in [fs -> Good] : c \in Lists
  /\ \A c \in Lists : DOMAIN c \in SUBSET Finding /\ c \in [DOMAIN c -> Good]
  /\ \A c : c \in Contents <=> c = None \/ c \in Lists
BY DEF Contents, Lists

(* The tables of the server are the ones this page mirrors. *)
LEMMA SameTables ==
  /\ Server!Status = Status /\ Server!Action = Action
  /\ Server!ProposalRequired = ProposalRequired
  /\ Server!ClearsProposal = ClearsProposal
  /\ Server!Transition = Transition
BY DEF Server!Status, Server!ActiveStatus, Server!TerminalStatus, Server!Action,
       Server!ProposalRequired, Server!ClearsProposal, Server!Transition, Status,
       ActiveStatus, TerminalStatus, Action, ProposalRequired, ClearsProposal,
       Transition

(* What the server may do with a finding leaves it good. *)
LEMMA OthersKeepGood ==
  ASSUME life \in [Finding -> Good], Server!Next
  PROVE  life' \in [Finding -> Good]
<1>1. PICK f \in Finding : \/ Server!Detect(f) \/ Server!Move(f) \/ Server!Decide(f)
                           \/ Server!Propose(f) \/ Server!Reverify(f)
  BY DEF Server!Next
<1>2. ASSUME NEW status \in Status, NEW pending \in Proposal \cup {NoProposal},
             pending # NoProposal => status = "action_required",
             life' = [life EXCEPT ![f] = [status |-> status, pending |-> pending]]
      PROVE  life' \in [Finding -> Good]
  <2>1. [status |-> status, pending |-> pending] \in Good
    BY <1>2 DEF Good, Record
  <2> QED
    BY <1>2, <2>1
<1>3. life[f].pending \in Proposal \cup {NoProposal}
      /\ (life[f].pending # NoProposal => life[f].status = "action_required")
  BY DEF Good, Record
<1>4. CASE Server!Detect(f)
  <2>1. life' = [life EXCEPT ![f] = [status |-> "open", pending |-> NoProposal]]
    BY <1>4 DEF Server!Detect, Server!Become
  <2> QED
    BY <1>2, <2>1 DEF Status, ActiveStatus
<1>5. CASE Server!Move(f)
  <2>1. PICK a \in Action \ ProposalRequired, to \in Status :
          /\ <<a, life[f].status, to>> \in Transition
          /\ Server!Become(f, to, IF a \in ClearsProposal THEN NoProposal
                                  ELSE life[f].pending)
    BY <1>5, SameTables DEF Server!Move, Server!ValidTransition
  <2>2. a \notin ClearsProposal => life[f].status # "action_required"
    BY <2>1 DEF Transition, ClearsProposal, ProposalRequired
  <2>3. life' = [life EXCEPT ![f] = [status |-> to, pending |-> NoProposal]]
    BY <1>3, <2>1, <2>2 DEF Server!Become
  <2> QED
    BY <1>2, <2>3
<1>6. CASE Server!Decide(f)
  <2>1. PICK to \in Status :
          life' = [life EXCEPT ![f] = [status |-> to, pending |-> NoProposal]]
    BY <1>6, SameTables DEF Server!Decide, Server!Become
  <2> QED
    BY <1>2, <2>1
<1>7. CASE Server!Propose(f)
  <2>1. PICK p \in Proposal :
          life' = [life EXCEPT ![f] = [status |-> "action_required", pending |-> p]]
    BY <1>7 DEF Server!Propose, Server!Become, Server!Investigable
  <2> QED
    BY <1>2, <2>1 DEF Status, ActiveStatus
<1>8. CASE Server!Reverify(f)
  <2>1. PICK to \in Status :
          life' = [life EXCEPT ![f] = [status |-> to, pending |-> NoProposal]]
    BY <1>8, SameTables DEF Server!Reverify, Server!Become
  <2> QED
    BY <1>2, <2>1
<1> QED
  BY <1>1, <1>4, <1>5, <1>6, <1>7, <1>8

(* The server of a card that is still true accepts every button of the card. *)
LEMMA FreshAccepted ==
  ASSUME NEW k \in GoodClick, Sound(k), life[k.finding] = k.shown
  PROVE  Outcomes(k) # {}
<1> DEFINE card == k.shown
<1>1. card \in Good /\ k.action \in Buttons(card)
  BY DEF Sound, GoodClick
<1>2. \A a \in LegalActions(card.status) :
        a \notin ProposalRequired /\ a # "reverify"
        /\ \E to \in Status : ValidTransition(a, card.status, to)
  <2>1. CASE card.status = "open"
    BY <2>1 DEF LegalActions, ProposalRequired, ValidTransition, Transition, Status,
                ActiveStatus, TerminalStatus
  <2>2. CASE card.status = "acknowledged"
    BY <2>2 DEF LegalActions, ProposalRequired, ValidTransition, Transition, Status,
                ActiveStatus, TerminalStatus
  <2>3. CASE card.status = "action_required"
    BY <2>3 DEF LegalActions, ProposalRequired, ValidTransition, Transition, Status,
                ActiveStatus, TerminalStatus
  <2>4. CASE card.status \notin {"open", "acknowledged", "action_required"}
    BY <2>4 DEF LegalActions
  <2> QED
    BY <2>1, <2>2, <2>3, <2>4
<1>3. CASE k.action = "reverify"
  <2>1. card.status = "resolved"
    BY <1>1, <1>2, <1>3 DEF Buttons, ProposalRequired
  <2>2. ReverifyOutcome(card.status, TRUE, "verified_closed")
    BY <2>1 DEF ReverifyOutcome
  <2>3. "verified_closed" \in Outcomes(k)
    BY <1>3, <2>2 DEF Outcomes, Status, TerminalStatus
  <2> QED
    BY <2>3
<1>4. CASE k.action \in ProposalRequired
  <2>1. card.pending # NoProposal /\ card.status = "action_required"
    BY <1>1, <1>2, <1>4 DEF Buttons, ProposalRequired, Good
  <2>2. PICK to \in Status : ValidTransition(k.action, card.status, to)
    BY <1>4, <2>1 DEF ProposalRequired, ValidTransition, Transition, Status, ActiveStatus
  <2>3. to \in Outcomes(k)
    BY <1>4, <2>1, <2>2 DEF Outcomes, Sound, ProposalRequired
  <2> QED
    BY <2>3
<1>5. CASE k.action # "reverify" /\ k.action \notin ProposalRequired
  <2>1. k.action \in LegalActions(card.status)
    BY <1>1, <1>5 DEF Buttons
  <2>2. PICK to \in Status : ValidTransition(k.action, card.status, to)
    BY <1>2, <2>1
  <2>3. to \in Outcomes(k)
    BY <1>5, <2>2 DEF Outcomes
  <2> QED
    BY <2>3
<1> QED
  BY <1>3, <1>4, <1>5

LEMMA AfterGood ==
  ASSUME life \in [Finding -> Good], NEW k \in GoodClick, NEW to \in Outcomes(k)
  PROVE  /\ to \in Status /\ After(k, to) \in Good
         /\ k.action \in ProposalRequired => life[k.finding].pending = k.proposal
<1> DEFINE now == life[k.finding]
<1>1. now \in Good /\ k.finding \in Finding
  BY DEF GoodClick
<1>2. to \in Status
  BY DEF Outcomes
<1>3. k.action # "reverify" =>
        /\ ValidTransition(k.action, now.status, to)
        /\ k.action \in ProposalRequired => now.pending = k.proposal
  BY DEF Outcomes
<1>4. k.action \notin ClearsProposal \cup {"reverify"} => now.pending = NoProposal
  <2> SUFFICES ASSUME k.action \notin ClearsProposal \cup {"reverify"}
               PROVE  now.status # "action_required"
    BY <1>1 DEF Good
  <2> QED
    BY <1>3 DEF ValidTransition, Transition, ClearsProposal, ProposalRequired
<1>5. After(k, to) \in Good
  BY <1>2, <1>4 DEF After, Good, Record
<1>6. "reverify" \notin ProposalRequired
  BY DEF ProposalRequired
<1> QED
  BY <1>2, <1>3, <1>5, <1>6

(* A list that is read holds the findings of its project as they are. *)
LEMMA ListStep ==
  ASSUME PanelInv, NEW l \in lists, ListIsRead(l) \/ ListLands(l) \/ ListFails(l)
  PROVE  PanelInv'
<1>1. l \in ListRequest /\ UNCHANGED <<life, panel, posts, busyId>>
  BY DEF PanelInv, ListIsRead, ListLands, ListFails
<1>2. CASE ListIsRead(l)
  <2> DEFINE c == [f \in ListOf(l.project) |-> life[f]]
  <2>1. c \in Contents
    <3>1. ListOf(l.project) \in SUBSET Finding
      BY DEF ListOf
    <3>2. c \in [ListOf(l.project) -> Good]
      BY <3>1 DEF PanelInv
    <3> QED
      BY <3>1, <3>2, ContentsTyped
  <2> HIDE DEF c
  <2>2. [l EXCEPT !.content = c] \in ListRequest
    BY <1>1, <2>1 DEF ListRequest
  <2>3. lists' = (lists \ {l}) \cup {[l EXCEPT !.content = c]} /\ UNCHANGED cards
    BY <1>2 DEF ListIsRead, c
  <2> QED
    BY <1>1, <2>2, <2>3 DEF PanelInv
<1>3. CASE ListLands(l)
  <2>1. cards' = l.content /\ l.content # None /\ lists' = lists \ {l}
    BY <1>3 DEF ListLands
  <2>2. l.content \in Contents
    BY <1>1 DEF ListRequest
  <2>3. cards' \in Lists /\ cards' \in Contents
    BY <2>1, <2>2, ContentsTyped
  <2>4. panel # None
    BY DEF PanelInv
  <2> QED
    BY <1>1, <2>1, <2>3, <2>4 DEF PanelInv
<1>4. CASE ListFails(l)
  BY <1>1, <1>4 DEF ListFails, PanelInv
<1> QED
  BY <1>2, <1>3, <1>4

LEMMA ClickStep ==
  ASSUME PanelInv, NEW f \in Finding, NEW n \in Nat, Click(f, n), UNCHANGED life
  PROVE  PanelInv'
<1>1. PICK a \in Buttons(cards[f]) :
        posts' = posts \cup
          {[n |-> n, finding |-> f, action |-> a, shown |-> cards[f],
            proposal |-> IF a \in ProposalRequired THEN cards[f].pending
                         ELSE NoProposal,
            reply |-> "none", met |-> cards[f], result |-> cards[f],
            awaited |-> TRUE]}
  BY DEF Click
<1> DEFINE pr == IF a \in ProposalRequired THEN cards[f].pending ELSE NoProposal
           k  == [n |-> n, finding |-> f, action |-> a, shown |-> cards[f],
                  proposal |-> pr, reply |-> "none", met |-> cards[f],
                  result |-> cards[f], awaited |-> TRUE]
<1>2. /\ cards # None /\ f \in DOMAIN cards /\ busyId' = f
      /\ UNCHANGED <<panel, cards, lists>>
  BY DEF Click
<1>3. cards[f] \in Good
  BY <1>2, ContentsTyped DEF PanelInv
<1>4. a \in Action \cup {"reverify"}
  <2>1. LegalActions(cards[f].status) \subseteq Action
    <3>1. CASE cards[f].status = "open"
      BY <3>1 DEF LegalActions, Action
    <3>2. CASE cards[f].status = "acknowledged"
      BY <3>2 DEF LegalActions, Action
    <3>3. CASE cards[f].status = "action_required"
      BY <3>3 DEF LegalActions, Action
    <3>4. CASE cards[f].status \notin {"open", "acknowledged", "action_required"}
      BY <3>4 DEF LegalActions
    <3> QED
      BY <3>1, <3>2, <3>3, <3>4
  <2> QED
    BY <1>1, <2>1 DEF Buttons, ProposalRequired, Action
<1>5. pr \in Proposal \cup {NoProposal}
  BY <1>3 DEF Good, Record
<1>6. k \in GoodClick
  <2> HIDE DEF pr
  <2> QED
    BY <1>3, <1>4, <1>5 DEF GoodClick
<1>7. Sound(k)
  BY <1>1 DEF Sound
<1>8. cards \in Lists /\ panel # None
  BY <1>2, ContentsTyped DEF PanelInv
<1>9. posts' = posts \cup {k}
  BY <1>1
<1> HIDE DEF k
<1> QED
  BY <1>2, <1>6, <1>7, <1>8, <1>9 DEF PanelInv

(* A click answered or refused: what it met is remembered as it was. *)
LEMMA PostArrivesStep ==
  ASSUME PanelInv, NEW k \in posts, PostArrives(k)
  PROVE  PanelInv'
<1>1. /\ k \in GoodClick /\ Sound(k) /\ life[k.finding] \in Good
      /\ UNCHANGED <<panel, cards, lists, busyId>>
  BY DEF PanelInv, PostArrives, GoodClick
<1>2. ASSUME NEW j \in GoodClick, Sound(j), j.awaited = k.awaited,
             life' \in [Finding -> Good], posts' = (posts \ {k}) \cup {j}
      PROVE  PanelInv'
  BY <1>1, <1>2 DEF PanelInv
<1>3. CASE Outcomes(k) = {}
  <2> DEFINE now == life[k.finding]
             j   == [k EXCEPT !.reply = "refused", !.met = now]
  <2>1. posts' = (posts \ {k}) \cup {j} /\ UNCHANGED life
    BY <1>3 DEF PostArrives
  <2>2. now # k.shown
    BY <1>1, <1>3, FreshAccepted
  <2> HIDE DEF now
  <2>3. /\ j \in GoodClick /\ j.reply = "refused" /\ j.met = now
        /\ j.shown = k.shown /\ j.action = k.action /\ j.proposal = k.proposal
        /\ j.awaited = k.awaited
    BY <1>1 DEF GoodClick, now
  <2>4. Sound(j)
    BY <1>1, <2>2, <2>3 DEF Sound
  <2>5. life' \in [Finding -> Good]
    BY <2>1 DEF PanelInv
  <2> QED
    BY <1>2, <2>1, <2>3, <2>4, <2>5
<1>4. CASE Outcomes(k) # {}
  <2>1. PICK to \in Outcomes(k) :
          /\ life' = [life EXCEPT ![k.finding] = After(k, to)]
          /\ posts' = (posts \ {k}) \cup
               {[k EXCEPT !.reply = "accepted", !.met = life[k.finding],
                          !.result = After(k, to)]}
    BY <1>4 DEF PostArrives
  <2> DEFINE now == life[k.finding]
             r   == After(k, to)
             j   == [k EXCEPT !.reply = "accepted", !.met = now, !.result = r]
  <2>2. /\ r \in Good /\ k.finding \in Finding
        /\ k.action \in ProposalRequired => now.pending = k.proposal
    BY <1>1, AfterGood DEF PanelInv, GoodClick
  <2>3. life' \in [Finding -> Good]
    BY <2>1, <2>2 DEF PanelInv
  <2>4. now \in Good /\ posts' = (posts \ {k}) \cup {j}
    BY <1>1, <2>1
  <2> HIDE DEF now, r
  <2>5. /\ j \in GoodClick /\ j.reply = "accepted" /\ j.met = now
        /\ j.shown = k.shown /\ j.action = k.action /\ j.proposal = k.proposal
        /\ j.awaited = k.awaited
    BY <1>1, <2>2, <2>4 DEF GoodClick
  <2>6. Sound(j)
    BY <1>1, <2>2, <2>5 DEF Sound
  <2> QED
    BY <1>2, <2>3, <2>4, <2>5, <2>6
<1> QED
  BY <1>3, <1>4

LEMMA PostIsLostStep ==
  ASSUME PanelInv, NEW k \in posts, PostIsLost(k)
  PROVE  PanelInv'
<1> DEFINE j == [k EXCEPT !.awaited = FALSE]
<1>1. /\ k \in GoodClick /\ Sound(k) /\ posts' = (posts \ {k}) \cup {j}
      /\ busyId' = None /\ UNCHANGED <<life, panel, cards, lists>>
  BY DEF PanelInv, PostIsLost
<1>2. /\ j \in GoodClick /\ j.awaited = FALSE /\ j.action = k.action
      /\ j.shown = k.shown /\ j.proposal = k.proposal /\ j.reply = k.reply
      /\ j.met = k.met
  BY <1>1 DEF GoodClick
<1>3. Sound(j)
  BY <1>1, <1>2 DEF Sound
<1> HIDE DEF j
<1> QED
  BY <1>1, <1>2, <1>3 DEF PanelInv

LEMMA PostLandsStep ==
  ASSUME PanelInv, NEW k \in posts, PostLands(k)
  PROVE  PanelInv'
<1>1. /\ k \in GoodClick /\ posts' = posts \ {k}
      /\ UNCHANGED <<life, panel, lists>>
  BY DEF PanelInv, PostLands
<1>2. CASE UNCHANGED cards
  BY <1>1, <1>2 DEF PostLands, PanelInv
<1>3. CASE ~UNCHANGED cards
  <2>1. /\ k.awaited /\ busyId' = None
        /\ cards' = [f \in DOMAIN cards |-> IF f = k.finding THEN k.result ELSE cards[f]]
    BY <1>3 DEF PostLands
  <2>2. cards \in Lists /\ panel # None
    BY <2>1 DEF PanelInv
  <2>3. DOMAIN cards \in SUBSET Finding /\ cards \in [DOMAIN cards -> Good]
    BY <2>2, ContentsTyped
  <2>4. k.result \in Good
    BY <1>1 DEF GoodClick
  <2>5. cards' \in [DOMAIN cards -> Good]
    BY <2>1, <2>3, <2>4
  <2>6. cards' \in Lists /\ cards' \in Contents
    BY <2>3, <2>5, ContentsTyped
  <2> QED
    BY <1>1, <2>1, <2>2, <2>6 DEF PanelInv
<1> QED
  BY <1>2, <1>3

LEMMA PanelStep == PanelInv /\ PanelMove => PanelInv'
<1> SUFFICES ASSUME PanelInv, PanelMove PROVE PanelInv'
  OBVIOUS
<1>1. CASE UNCHANGED <<panelVars, life>>
  BY <1>1 DEF panelVars, PanelInv
<1>2. ASSUME NEW p \in Project, NEW n \in Nat,
             lists' = lists \cup {[n |-> n, project |-> p, content |-> None]}
      PROVE  lists' \subseteq ListRequest
  BY <1>2, ContentsTyped DEF PanelInv, ListRequest
<1>3. ASSUME NEW p \in Project, NEW n \in Nat, panel = None, MountPanel(p, n),
             UNCHANGED life
      PROVE  PanelInv'
  BY <1>2, <1>3, NoneIsNoProject, ContentsTyped DEF MountPanel, RequestList, PanelInv
<1>4. ASSUME NEW p \in Project, NEW n \in Nat, panel # None, PanelProject(p, n),
             UNCHANGED life
      PROVE  PanelInv'
  BY <1>2, <1>4, NoneIsNoProject DEF PanelProject, RequestList, PanelInv
<1>5. ASSUME NEW n \in Nat, Reload(n), UNCHANGED life
      PROVE  PanelInv'
  BY <1>2, <1>5 DEF Reload, RequestList, PanelInv
<1>6. CASE UnmountPanel /\ UNCHANGED life
  <2>1. /\ panel' = None /\ cards' = None /\ busyId' = None /\ lists' = {}
        /\ posts' = {[k EXCEPT !.awaited = FALSE] : k \in posts}
    BY <1>6 DEF UnmountPanel
  <2>2. ASSUME NEW k \in posts
        PROVE  LET j == [k EXCEPT !.awaited = FALSE]
               IN j \in GoodClick /\ Sound(j) /\ ~j.awaited
    <3> DEFINE j == [k EXCEPT !.awaited = FALSE]
    <3>1. k \in GoodClick /\ Sound(k)
      BY DEF PanelInv
    <3>2. /\ j \in GoodClick /\ j.awaited = FALSE /\ j.action = k.action
          /\ j.shown = k.shown /\ j.proposal = k.proposal /\ j.reply = k.reply
          /\ j.met = k.met
      BY <3>1 DEF GoodClick
    <3> QED
      BY <3>1, <3>2 DEF Sound
  <2>3. /\ posts' \subseteq GoodClick
        /\ \A k \in posts' : Sound(k) /\ ~k.awaited
    BY <2>1, <2>2
  <2> QED
    BY <1>6, <2>1, <2>3, ContentsTyped DEF PanelInv
<1>7. CASE OthersAct
  BY <1>7, OthersKeepGood DEF OthersAct, panelVars, PanelInv
<1> QED
  BY <1>1, <1>3, <1>4, <1>5, <1>6, <1>7, ClickStep, ListStep, PostArrivesStep,
     PostIsLostStep, PostLandsStep DEF PanelMove

---------------------------------------------------------------------------
(* The page.  Only the component of the open tab is mounted. *)
AppInv ==
  /\ project \in Project /\ tab \in Tab
  /\ metadata \in Project \cup {None}
  /\ metadataLoads \subseteq [n : 0..MaxMoves, project : Project]
  /\ evidence \in Focus \cup {None} /\ moves \in 0..MaxMoves
  /\ live # 0 <=> tab = "bim"
  /\ src # None <=> tab = "drawing"
  /\ panel # None <=> tab = "findings"

Inv == ImageInv /\ ViewerInv /\ PanelInv /\ AppInv

LEMMA SourceTyped ==
  ASSUME NEW p \in Project, NEW m \in Project \cup {None}, NEW ev \in Focus \cup {None}
  PROVE  /\ DocumentOf(ev, m) \in Project \cup {None} /\ PageOf(ev) \in 1..Pages
         /\ SourceOf(p, m, ev) \in Source /\ SourceOf(p, m, ev) # None
<1>1. DocumentOf(ev, m) \in Project \cup {None}
  BY DEF DocumentOf, Focus
<1>2. PageOf(ev) \in 1..Pages
  BY WorkspaceConstants DEF PageOf, Focus
<1>3. SourceOf(p, m, ev) \in [project : Project, document : Project \cup {None},
                              page : 1..Pages]
  BY <1>1, <1>2 DEF SourceOf
<1> QED
  BY <1>1, <1>2, <1>3, WorkspaceConstants, NoneIsNoSource

(* What a step keeps, if its parts move as they may. *)
LEMMA PartsStep ==
  ASSUME Inv, ImageMove, ViewerMove, PanelMove, AppInv'
  PROVE  Inv'
BY ImageStep, ViewerStep, PanelStep DEF Inv

LEMMA DrawingMoves ==
  ASSUME Inv, NEW p \in Project, NEW m \in Project \cup {None},
         NEW ev \in Focus \cup {None}, DrawingShows(p, m, ev)
  PROVE  ImageMove /\ (src' # None <=> src # None)
<1>1. CASE UNCHANGED pageImage
  BY <1>1 DEF ImageMove, pageImage
<1>2. CASE tab = "drawing" /\ ShowSource(SourceOf(p, m, ev))
  BY <1>2, SourceTyped DEF ImageMove, ShowSource, Inv, AppInv
<1> QED
  BY <1>1, <1>2 DEF DrawingShows

LEMMA MountsLive ==
  ASSUME Inv, NEW p, NEW mount, BeginScene(p, mount)
  PROVE  live' # 0
BY ViewerConstants DEF BeginScene, Inv, ViewerInv, ViewerTypeOK

LEMMA ReachesMoves ==
  ASSUME Inv, NEW t \in Tab, NEW ev \in Focus \cup {None}, Reaches(t, ev),
         moves \in Nat, UNCHANGED life
  PROVE  /\ ImageMove /\ ViewerMove /\ PanelMove /\ tab' = t
         /\ live' # 0 <=> t = "bim"
         /\ src' # None <=> t = "drawing"
         /\ panel' # None <=> t = "findings"
<1>0. /\ t # tab /\ tab' = t /\ tab \in Tab /\ project \in Project
      /\ live # 0 <=> tab = "bim"
      /\ src # None <=> tab = "drawing"
      /\ panel # None <=> tab = "findings"
  BY DEF Reaches, Inv, AppInv
<1>1. ViewerMove /\ (live' # 0 <=> t = "bim")
  <2>1. CASE tab = "bim"
    BY <1>0, <2>1 DEF Reaches, ViewerMove, UnmountViewer
  <2>2. CASE t = "bim"
    <3>1. MountViewer(project)
      BY <1>0, <2>2 DEF Reaches
    <3>2. live' # 0
      BY <3>1, ViewerConstants
      DEF MountViewer, BeginScene, Inv, ViewerInv, ViewerTypeOK
    <3> QED
      BY <1>0, <2>2, <3>1, <3>2 DEF ViewerMove
  <2>3. CASE tab # "bim" /\ t # "bim"
    <3>1. UNCHANGED viewer
      BY <2>3 DEF Reaches
    <3> QED
      BY <1>0, <2>3, <3>1 DEF ViewerMove, viewer
  <2> QED
    BY <2>1, <2>2, <2>3
<1>2. ImageMove /\ (src' # None <=> t = "drawing")
  <2>1. CASE tab = "drawing"
    BY <1>0, <2>1 DEF Reaches, ImageMove, UnmountImage
  <2>2. CASE t = "drawing"
    <3>1. ShowSource(SourceOf(project, metadata, ev))
      BY <1>0, <2>2 DEF Reaches
    <3>2. /\ SourceOf(project, metadata, ev) \in Source
          /\ SourceOf(project, metadata, ev) # None
      BY SourceTyped DEF Inv, AppInv
    <3> QED
      BY <2>2, <3>1, <3>2 DEF ImageMove, ShowSource
  <2>3. CASE tab # "drawing" /\ t # "drawing"
    <3>1. UNCHANGED pageImage
      BY <2>3 DEF Reaches
    <3> QED
      BY <1>0, <2>3, <3>1 DEF ImageMove, pageImage
  <2> QED
    BY <2>1, <2>2, <2>3
<1>3. PanelMove /\ (panel' # None <=> t = "findings")
  <2>1. CASE tab = "findings"
    BY <1>0, <2>1 DEF Reaches, PanelMove, UnmountPanel
  <2>2. CASE t = "findings"
    <3>1. MountPanel(project, moves) /\ panel = None
      BY <1>0, <2>2 DEF Reaches
    <3> QED
      BY <1>0, <2>2, <3>1, NoneIsNoProject DEF PanelMove, MountPanel
  <2>3. CASE tab # "findings" /\ t # "findings"
    <3>1. UNCHANGED panelVars
      BY <2>3 DEF Reaches
    <3> QED
      BY <1>0, <2>3, <3>1 DEF PanelMove, panelVars
  <2> QED
    BY <2>1, <2>2, <2>3
<1> QED
  BY <1>0, <1>1, <1>2, <1>3

(* The invariant, and the steps of the page one at a time. *)
MovesOn == moves' \in 0..MaxMoves /\ moves \in Nat /\ moves' \in Nat

LEMMA MoveTyped ==
  ASSUME Inv
  PROVE  moves \in Nat /\ (Move => MovesOn) /\ (UNCHANGED moves => MovesOn)
BY WorkspaceConstants DEF Inv, AppInv, Move, MovesOn

(* What stays mounted as long as the tab does. *)
LEMMA StillMounted ==
  ASSUME Inv
  PROVE  /\ UNCHANGED viewer => ViewerMove /\ live' = live
         /\ UNCHANGED pageImage => ImageMove /\ src' = src
         /\ UNCHANGED <<panelVars, life>> => PanelMove /\ panel' = panel
BY DEF viewer, pageImage, panelVars, ViewerMove, ImageMove, PanelMove

LEMMA OpenTabStep ==
  ASSUME Inv, NEW t \in Tab, OpenTab(t)
  PROVE  Inv'
<1>1. /\ Move /\ Reaches(t, evidence)
      /\ UNCHANGED <<project, metadata, metadataLoads, evidence, life>>
  BY DEF OpenTab
<1>2. evidence \in Focus \cup {None} /\ MovesOn
  BY <1>1, MoveTyped DEF Inv, AppInv
<1>3. /\ ImageMove /\ ViewerMove /\ PanelMove /\ tab' = t
      /\ live' # 0 <=> t = "bim"
      /\ src' # None <=> t = "drawing"
      /\ panel' # None <=> t = "findings"
  BY <1>1, <1>2, ReachesMoves DEF MovesOn
<1>4. AppInv'
  BY <1>1, <1>2, <1>3 DEF Inv, AppInv, MovesOn
<1> QED
  BY <1>3, <1>4, PartsStep

LEMMA SwitchProjectStep ==
  ASSUME Inv, NEW p \in Project, SwitchProject(p)
  PROVE  Inv'
<1>1. /\ Move /\ project' = p /\ evidence' = None
      /\ metadataLoads' = metadataLoads \cup {[n |-> moves', project |-> p]}
      /\ DrawingShows(p, metadata, None)
      /\ UNCHANGED <<tab, metadata, life>>
  BY DEF SwitchProject
<1>2. MovesOn
  BY <1>1, MoveTyped
<1>3. ImageMove /\ (src' # None <=> src # None)
  BY <1>1, DrawingMoves DEF Inv, AppInv
<1>4. ViewerMove /\ (live' # 0 <=> live # 0)
  <2>1. CASE tab = "bim"
    <3>1. ReplaceScene(p)
      BY <2>1 DEF SwitchProject
    <3>2. live # 0 /\ live' # 0
      BY <3>1, MountsLive DEF ReplaceScene
    <3> QED
      BY <3>1, <3>2 DEF ViewerMove
  <2>2. CASE tab # "bim"
    BY <2>2, StillMounted DEF SwitchProject
  <2> QED
    BY <2>1, <2>2
<1>5. PanelMove /\ (panel' # None <=> panel # None)
  <2>1. CASE tab = "findings"
    <3>1. PanelProject(p, moves) /\ panel # None
      BY <2>1 DEF SwitchProject, Inv, AppInv
    <3> QED
      BY <1>1, <1>2, <3>1, NoneIsNoProject DEF PanelMove, PanelProject, MovesOn
  <2>2. CASE tab # "findings"
    BY <1>1, <2>2, StillMounted DEF SwitchProject
  <2> QED
    BY <2>1, <2>2
<1>6. AppInv'
  <2>1. metadataLoads' \subseteq [n : 0..MaxMoves, project : Project]
    BY <1>1, <1>2 DEF Inv, AppInv, MovesOn
  <2> QED
    BY <1>1, <1>2, <1>3, <1>4, <1>5, <2>1 DEF Inv, AppInv, MovesOn
<1> QED
  BY <1>3, <1>4, <1>5, <1>6, PartsStep

LEMMA MetadataStep ==
  ASSUME Inv, NEW l \in metadataLoads, MetadataArrives(l) \/ MetadataFails(l)
  PROVE  Inv'
<1>1. /\ metadataLoads' = metadataLoads \ {l}
      /\ UNCHANGED <<project, tab, evidence, viewer, panelVars, life, moves>>
  BY DEF MetadataArrives, MetadataFails
<1>2. /\ l.project \in Project /\ project \in Project
      /\ evidence \in Focus \cup {None}
  BY DEF Inv, AppInv
<1>3. /\ metadata' \in Project \cup {None}
      /\ ImageMove /\ (src' # None <=> src # None)
  <2>1. CASE MetadataArrives(l)
    BY <1>2, <2>1, DrawingMoves DEF MetadataArrives
  <2>2. CASE MetadataFails(l)
    BY <2>2, StillMounted DEF MetadataFails, Inv, AppInv
  <2> QED
    BY <2>1, <2>2
<1>4. ViewerMove /\ live' = live /\ PanelMove /\ panel' = panel
  BY <1>1, StillMounted
<1>5. AppInv'
  BY <1>1, <1>3, <1>4 DEF Inv, AppInv
<1> QED
  BY <1>3, <1>4, <1>5, PartsStep

(* The focus of the drawing moves, and nothing else but its image. *)
LEMMA FocusStep ==
  ASSUME Inv, Move, evidence' \in Focus \cup {None},
         DrawingShows(project, metadata, evidence'),
         UNCHANGED <<project, tab, metadata, metadataLoads, viewer, panelVars, life>>
  PROVE  Inv'
<1> DEFINE ev == evidence'
<1>1. ev \in Focus \cup {None} /\ DrawingShows(project, metadata, ev)
  OBVIOUS
<1>2. MovesOn /\ evidence' \in Focus \cup {None}
  BY MoveTyped
<1> HIDE DEF ev
<1>3. ImageMove /\ (src' # None <=> src # None)
  BY <1>1, DrawingMoves DEF Inv, AppInv
<1>4. ViewerMove /\ live' = live /\ PanelMove /\ panel' = panel
  BY StillMounted
<1>5. AppInv'
  BY <1>2, <1>3, <1>4 DEF Inv, AppInv, MovesOn
<1> QED
  BY <1>3, <1>4, <1>5, PartsStep

LEMMA TurnPageStep ==
  ASSUME Inv, TurnPage
  PROVE  Inv'
<1>1. /\ Move /\ DrawingShows(project, metadata, evidence')
      /\ UNCHANGED <<project, tab, metadata, metadataLoads, viewer, panelVars, life>>
  BY DEF TurnPage
<1>2. PICK n \in {PageOf(evidence) - 1, PageOf(evidence) + 1} :
        /\ n >= 1 /\ (n > PageOf(evidence) => n <= PageCount)
        /\ evidence' = [document |-> DocumentOf(evidence, metadata),
                        page |-> IF n <= PageCount THEN n ELSE PageCount]
  BY DEF TurnPage
<1>3. /\ PageOf(evidence) \in 1..Pages
      /\ DocumentOf(evidence, metadata) \in Project \cup {None}
  BY SourceTyped DEF Inv, AppInv
<1>4. PageCount \in 1..Pages /\ Pages \in Nat
  BY WorkspaceConstants DEF PageCount
<1> DEFINE q == IF n <= PageCount THEN n ELSE PageCount
<1>5. q \in 1..Pages
  BY <1>2, <1>3, <1>4
<1> HIDE DEF q
<1>6. evidence' = [document |-> DocumentOf(evidence, metadata), page |-> q]
  BY <1>2 DEF q
<1>7. evidence' \in Focus \cup {None}
  BY <1>3, <1>5, <1>6 DEF Focus
<1> QED
  BY <1>1, <1>7, FocusStep

LEMMA NewConversationStep ==
  ASSUME Inv, NewConversation
  PROVE  Inv'
BY FocusStep DEF NewConversation

LEMMA OpenPdfCitationStep ==
  ASSUME Inv, NEW n \in 1..Pages, OpenPdfCitation(n)
  PROVE  Inv'
<1>1. /\ Move /\ evidence' = [document |-> project, page |-> n]
      /\ UNCHANGED <<project, metadata, metadataLoads, life>>
  BY DEF OpenPdfCitation
<1>2. evidence' \in Focus \cup {None} /\ MovesOn
  BY <1>1, MoveTyped DEF Focus, Inv, AppInv
<1>3. CASE tab = "drawing"
  BY <1>1, <1>2, <1>3, FocusStep DEF OpenPdfCitation
<1>4. CASE tab # "drawing"
  <2> DEFINE ev == evidence'
  <2>1. ev \in Focus \cup {None} /\ Reaches("drawing", ev)
    BY <1>2, <1>4 DEF OpenPdfCitation
  <2> HIDE DEF ev
  <2>2. /\ ImageMove /\ ViewerMove /\ PanelMove /\ tab' = "drawing"
        /\ live' # 0 <=> "drawing" = "bim"
        /\ src' # None <=> "drawing" = "drawing"
        /\ panel' # None <=> "drawing" = "findings"
    BY <1>1, <1>2, <2>1, ReachesMoves DEF MovesOn, Tab
  <2>3. AppInv'
    BY <1>1, <1>2, <2>2 DEF Inv, AppInv, MovesOn, Tab
  <2> QED
    BY <2>2, <2>3, PartsStep
<1> QED
  BY <1>3, <1>4

LEMMA OpenIfcCitationStep ==
  ASSUME Inv, NEW e \in Element, OpenIfcCitation(e)
  PROVE  Inv'
<1>1. /\ Move /\ tab' = "bim" /\ highlighted' = Toggled(e)
      /\ UNCHANGED <<project, metadata, metadataLoads, evidence, life>>
  BY DEF OpenIfcCitation
<1>2. Toggled(e) \in SUBSET Element /\ project \in Project /\ MovesOn
  BY <1>1, MoveTyped DEF Toggled, Inv, ViewerInv, ViewerTypeOK, AppInv
<1>3. CASE tab = "bim"
  <2>1. Highlights(Toggled(e)) /\ UNCHANGED <<pageImage, panelVars>>
    BY <1>1, <1>3 DEF OpenIfcCitation, Highlights, SetHighlighted
  <2>2. ViewerMove /\ live' = live
    BY <1>2, <2>1 DEF ViewerMove, Highlights
  <2>3. ImageMove /\ src' = src /\ PanelMove /\ panel' = panel
    BY <1>1, <2>1, StillMounted
  <2>4. AppInv'
    BY <1>1, <1>2, <1>3, <2>2, <2>3 DEF Inv, AppInv, MovesOn
  <2> QED
    BY <2>2, <2>3, <2>4, PartsStep
<1>4. CASE tab # "bim"
  <2>1. /\ mounts' = mounts + 1 /\ BeginScene(project, mounts') /\ UNCHANGED meshes
        /\ IF tab = "drawing" THEN UnmountImage ELSE UNCHANGED pageImage
        /\ IF tab = "findings" THEN UnmountPanel ELSE UNCHANGED panelVars
    BY <1>4 DEF OpenIfcCitation
  <2>2. ViewerMove /\ live' # 0
    <3>1. live = 0
      BY <1>4 DEF Inv, AppInv
    <3>2. live' # 0
      BY <2>1, MountsLive
    <3> QED
      BY <1>1, <1>2, <2>1, <3>1, <3>2 DEF ViewerMove, HighlightsAtMount
  <2>3. ImageMove /\ src' = None
    BY <2>1, StillMounted DEF ImageMove, UnmountImage, Inv, AppInv
  <2>4. PanelMove /\ panel' = None
    BY <1>1, <2>1, StillMounted DEF PanelMove, UnmountPanel, Inv, AppInv
  <2>5. AppInv'
    BY <1>1, <1>2, <2>2, <2>3, <2>4 DEF Inv, AppInv, MovesOn, Tab
  <2> QED
    BY <2>2, <2>3, <2>4, <2>5, PartsStep
<1> QED
  BY <1>3, <1>4

LEMMA HighlightStep ==
  ASSUME Inv, (\E e \in Element : Pick(e)) \/ ClearSelection
  PROVE  Inv'
<1>1. Move /\ UNCHANGED <<app, pageImage, panelVars, life>> /\ MovesOn
  BY MoveTyped DEF Pick, ClearSelection
<1>2. PICK ids \in SUBSET Element : Highlights(ids)
  BY DEF Pick, PickElement, ClearSelection, Toggled, Highlights, Inv, ViewerInv,
         ViewerTypeOK
<1>3. ViewerMove /\ live' = live
  BY <1>2 DEF ViewerMove, Highlights
<1>4. ImageMove /\ src' = src /\ PanelMove /\ panel' = panel
  BY <1>1, StillMounted
<1>5. AppInv'
  BY <1>1, <1>3, <1>4 DEF app, Inv, AppInv, MovesOn
<1> QED
  BY <1>3, <1>4, <1>5, PartsStep

(* What is in flight goes on, whatever is mounted. *)
LEMMA InFlightStep ==
  ASSUME Inv, ViewerLoads \/ ImageLoads \/ PanelProceeds
  PROVE  Inv'
<1>1. UNCHANGED <<app, moves>> /\ MovesOn
  BY MoveTyped DEF ViewerLoads, ImageLoads, PanelProceeds
<1>2. CASE ViewerLoads
  <2>1. PICK s \in Scene : ViewerProceeds(s)
    BY <1>2 DEF ViewerLoads
  <2>2. ViewerMove /\ live' = live
    BY <2>1 DEF ViewerMove, ViewerProceeds, ProjectionResponds, ProjectionReady,
                ProjectionFails
  <2>3. ImageMove /\ src' = src /\ PanelMove /\ panel' = panel
    BY <1>2, StillMounted DEF ViewerLoads
  <2>4. AppInv'
    BY <1>1, <2>2, <2>3 DEF app, Inv, AppInv, MovesOn
  <2> QED
    BY <2>2, <2>3, <2>4, PartsStep
<1>3. CASE ImageLoads
  <2>1. ImageMove /\ src' = src
    BY <1>3 DEF ImageLoads, ImageMove, BlobArrives, BlobFails
  <2>2. ViewerMove /\ live' = live /\ PanelMove /\ panel' = panel
    BY <1>3, StillMounted DEF ImageLoads
  <2>3. AppInv'
    BY <1>1, <2>1, <2>2 DEF app, Inv, AppInv, MovesOn
  <2> QED
    BY <2>1, <2>2, <2>3, PartsStep
<1>4. CASE PanelProceeds
  <2>1. PanelMove /\ panel' = panel
    BY <1>4 DEF PanelProceeds, PanelMove, ListIsRead, ListLands, ListFails,
                PostArrives, PostIsLost, PostLands
  <2>2. ImageMove /\ src' = src /\ ViewerMove /\ live' = live
    BY <1>4, StillMounted DEF PanelProceeds
  <2>3. AppInv'
    BY <1>1, <2>1, <2>2 DEF app, Inv, AppInv, MovesOn
  <2> QED
    BY <2>1, <2>2, <2>3, PartsStep
<1> QED
  BY <1>2, <1>3, <1>4

LEMMA FindingsStep ==
  ASSUME Inv, \/ ReloadsFindings
              \/ \E f \in Finding : ClicksFinding(f)
              \/ Others
  PROVE  Inv'
<1>1. Move /\ UNCHANGED <<app, viewer, pageImage>> /\ MovesOn
  BY MoveTyped DEF ReloadsFindings, ClicksFinding, Others
<1>2. PanelMove /\ panel' = panel
  <2>1. CASE ReloadsFindings
    BY <1>1, <2>1 DEF ReloadsFindings, Reload, PanelMove, MovesOn
  <2>2. ASSUME NEW f \in Finding, ClicksFinding(f)
        PROVE  PanelMove /\ panel' = panel
    BY <1>1, <2>2 DEF ClicksFinding, Click, PanelMove, MovesOn
  <2>3. CASE Others
    BY <2>3 DEF Others, OthersAct, PanelMove, panelVars
  <2> QED
    BY <2>1, <2>2, <2>3
<1>3. ImageMove /\ src' = src /\ ViewerMove /\ live' = live
  BY <1>1, StillMounted
<1>4. AppInv'
  BY <1>1, <1>2, <1>3 DEF app, Inv, AppInv, MovesOn
<1> QED
  BY <1>2, <1>3, <1>4, PartsStep

LEMMA InitInv == Init => Inv
<1> SUFFICES ASSUME Init PROVE Inv
  OBVIOUS
<1>1. ImageInv
  BY DEF Init, ImageInit, ImageInv, ImageTypeOK, PageIsCurrent
<1>2. ViewerInv
  <2>1. /\ mounts = 1 /\ scenes = 1 /\ live = 1 /\ highlighted = {} /\ meshes = NoMeshes
        /\ loads = [s \in Scene |->
             IF s = 1 THEN [pc |-> "fetch", project |-> FirstProject, mount |-> 1]
             ELSE [pc |-> "none", project |-> None, mount |-> 0]]
        /\ viewerStatus = [phase |-> "loading", scene |-> 1]
    BY DEF Init, ViewerInit
  <2>2. 1 \in Scene /\ 1 \in 0..MaxScenes /\ 0 \in 0..MaxScenes
    BY ViewerConstants DEF Scene
  <2>3. loads \in [Scene -> Load]
    BY <2>1, <2>2, WorkspaceConstants DEF Load
  <2>4. loads[1] = [pc |-> "fetch", project |-> FirstProject, mount |-> 1]
    BY <2>1, <2>2
  <2>5. ViewerTypeOK
    BY <2>1, <2>2, <2>3, NoMeshesTyped DEF ViewerTypeOK
  <2>6. SceneInv
    BY <2>1, <2>4, WorkspaceConstants DEF SceneInv
  <2>7. MapIsLit
    BY <2>1, <2>4, NoMeshesTyped DEF MapIsLit, SceneBuilt
  <2> QED
    BY <2>5, <2>6, <2>7 DEF ViewerInv
<1>3. PanelInv
  <2>1. life \in [Finding -> Good]
    <3>1. life \in [Finding -> Record]
      BY WorkspaceConstants DEF Init
    <3>2. \A f \in Finding : life[f].pending # NoProposal => life[f].status = "action_required"
      BY WorkspaceConstants DEF Init
    <3> QED
      BY <3>1, <3>2 DEF Good
  <2> QED
    BY <2>1, ContentsTyped DEF Init, PanelInit, PanelInv
<1>4. AppInv
  <2>1. metadataLoads \subseteq [n : 0..MaxMoves, project : Project]
    BY WorkspaceConstants DEF Init
  <2> QED
    BY <2>1, WorkspaceConstants
    DEF Init, ViewerInit, ImageInit, PanelInit, AppInv, Tab
<1> QED
  BY <1>1, <1>2, <1>3, <1>4 DEF Inv

LEMMA NextInv == Inv /\ [Next]_vars => Inv'
<1> SUFFICES ASSUME Inv, [Next]_vars PROVE Inv'
  OBVIOUS
<1>1. CASE UNCHANGED vars
  <2>1. /\ UNCHANGED <<viewer, pageImage, panelVars, life>>
        /\ UNCHANGED <<app, moves>>
    BY <1>1 DEF vars
  <2>2. /\ ViewerMove /\ live' = live /\ ImageMove /\ src' = src
        /\ PanelMove /\ panel' = panel
    BY <2>1, StillMounted
  <2>3. AppInv'
    BY <2>1, <2>2 DEF app, Inv, AppInv
  <2> QED
    BY <2>2, <2>3, PartsStep
<1>2. ASSUME NEW t \in Tab, OpenTab(t)
      PROVE  Inv'
  BY <1>2, OpenTabStep
<1>3. ASSUME NEW p \in Project, SwitchProject(p)
      PROVE  Inv'
  BY <1>3, SwitchProjectStep
<1>4. ASSUME NEW l \in metadataLoads, MetadataArrives(l) \/ MetadataFails(l)
      PROVE  Inv'
  BY <1>4, MetadataStep
<1>5. CASE TurnPage \/ NewConversation
  BY <1>5, TurnPageStep, NewConversationStep
<1>6. ASSUME NEW n \in 1..Pages, OpenPdfCitation(n)
      PROVE  Inv'
  BY <1>6, OpenPdfCitationStep
<1>7. ASSUME NEW e \in Element, OpenIfcCitation(e)
      PROVE  Inv'
  BY <1>7, OpenIfcCitationStep
<1>8. CASE (\E e \in Element : Pick(e)) \/ ClearSelection
  BY <1>8, HighlightStep
<1>9. CASE ViewerLoads \/ ImageLoads \/ PanelProceeds
  BY <1>9, InFlightStep
<1>10. CASE ReloadsFindings \/ (\E f \in Finding : ClicksFinding(f)) \/ Others
  BY <1>10, FindingsStep
<1> QED
  BY <1>1, <1>2, <1>3, <1>4, <1>5, <1>6, <1>7, <1>8, <1>9, <1>10 DEF Next

THEOREM InvAlways == Spec => []Inv
BY InitInv, NextInv, PTL DEF Spec

---------------------------------------------------------------------------
(* The types, and that only the component of the open tab is mounted, however
   tabs, projects and loads overlap. *)
THEOREM TypeCorrect == Spec => []TypeOK
<1>1. Inv => TypeOK
  <2> SUFFICES ASSUME Inv PROVE TypeOK
    OBVIOUS
  <2>1. Good \subseteq Record
    BY DEF Good
  <2>2. life \in [Finding -> Record] /\ posts \subseteq ClickRecord
    BY <2>1 DEF Inv, PanelInv, GoodClick, ClickRecord
  <2>3. cards = None \/ \E fs \in SUBSET Finding : cards \in [fs -> Record]
    <3>1. CASE cards = None
      BY <3>1
    <3>2. CASE cards \in Lists
      BY <2>1, <3>2, ContentsTyped
    <3> QED
      BY <3>1, <3>2, ContentsTyped DEF Inv, PanelInv
  <2>4. PanelTypeOK
    BY <2>2, <2>3 DEF Inv, PanelInv, PanelTypeOK
  <2> QED
    BY <2>4 DEF Inv, ImageInv, ViewerInv, AppInv, TypeOK
<1> QED
  BY <1>1, InvAlways, PTL

(* Highlights toggled while projections load are never lost, for any number of
   scenes and mounts. *)
THEOREM HighlightsArePainted == Spec => []MapIsLit
<1>1. Inv => MapIsLit
  BY DEF Inv, ViewerInv
<1> QED
  BY <1>1, InvAlways, PTL

(* No object URL outlives its page, and no page shows the image of another one
   once its own fetch has ended, in whatever order the fetches end. *)
THEOREM PageShownIsCurrent == Spec => []PageIsCurrent
<1>1. Inv => PageIsCurrent
  BY DEF Inv, ImageInv
<1> QED
  BY <1>1, InvAlways, PTL

(* A button is refused only if the server has moved on since its card. *)
THEOREM RefusedIsStale == Spec => []FreshClickAccepted
<1>1. Inv => FreshClickAccepted
  BY DEF Inv, PanelInv, Sound, FreshClickAccepted
<1> QED
  BY <1>1, InvAlways, PTL

(* A decision that goes through is about the proposal the reviewer was shown. *)
THEOREM DecisionAsShown == Spec => []DecisionIsOfShown
<1>1. Inv => DecisionIsOfShown
  BY DEF Inv, PanelInv, Sound, DecisionIsOfShown
<1> QED
  BY <1>1, InvAlways, PTL
=============================================================================
