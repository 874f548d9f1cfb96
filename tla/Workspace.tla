----------------------------- MODULE Workspace -----------------------------
(***************************************************************************)
(* The left half of the page (App in apps/web/src/main.tsx): a project, and *)
(* four tabs of which only the open one is mounted.  It composes the IFC   *)
(* viewer (Viewer), the drawing's page image (PageImage) and the findings  *)
(* (FindingsPanel), whose loads and requests go on while tabs and projects *)
(* change under them.  The conversation half is Conversation.              *)
(***************************************************************************)
EXTENDS Viewer, PageImage, FindingsPanel

CONSTANTS Pages,           \* pages of a document; a project has one document
          FirstProject,    \* the project the page opens with
          FirstFindings,   \* bound: what the findings may be at that moment
          MaxMoves         \* bound: steps begun by the user or by other reviewers

(* The findings the page meets at first are as FindingLifecycle leaves them: a
   proposal is pending only where action is required. *)
ASSUME WorkspaceConstants ==
  /\ Pages \in Nat \ {0} /\ MaxMoves \in Nat
  /\ FirstProject \in Project
  /\ FirstFindings \subseteq [Finding -> Record]
  /\ \A l \in FirstFindings, f \in Finding :
       l[f].pending # NoProposal => l[f].status = "action_required"
  /\ [project : Project, document : Project \cup {None}, page : 1..Pages]
       \subseteq Source

VARIABLES
  project,                 \* projectId
  tab,
  metadata,                \* the project whose metadata is displayed, or None
  metadataLoads,           \* loadMetadata: requests in flight
  evidence,                \* drawingEvidence: a document and a page, or None
  moves

app  == <<project, tab, metadata, metadataLoads, evidence>>
vars == <<viewer, pageImage, panelVars, life, app, moves>>

Tab   == {"bim", "drawing", "snapshot", "findings"}
Focus == [document : Project \cup {None}, page : 1..Pages]

Init ==
  /\ project = FirstProject /\ tab = "bim"
  /\ ViewerInit(FirstProject)
  /\ ImageInit
  /\ PanelInit
  /\ life \in FirstFindings
  /\ metadata = None
  /\ metadataLoads = {[n |-> 0, project |-> FirstProject]}
  /\ evidence = None
  /\ moves = 0

Move == moves < MaxMoves /\ moves' = moves + 1

(* drawingDocument: the one in focus, or else the first of the metadata on
   display, which may still be another project's; and its page count, known if
   it is in that metadata. *)
DocumentOf(ev, m) == IF ev # None /\ ev.document # None THEN ev.document ELSE m
PageOf(ev)        == IF ev = None THEN 1 ELSE ev.page
PageCount         == IF DocumentOf(evidence, metadata) = metadata /\ metadata # None
                       THEN Pages ELSE 1
SourceOf(p, m, ev) ==
  [project |-> p, document |-> DocumentOf(ev, m), page |-> PageOf(ev)]

(* The drawing's image, while the tab stays: its effect runs if the url changes. *)
DrawingShows(p, m, ev) ==
  LET s == SourceOf(p, m, ev)
  IN IF tab = "drawing" /\ s # src THEN ShowSource(s) ELSE UNCHANGED pageImage

---------------------------------------------------------------------------
(* Tabs: the component of the old one is unmounted, that of the new mounted. *)
KeepsMounted(t, ev) ==            \* mutant: the findings stay mounted behind
  /\ t # tab
  /\ tab' = t
  /\ CASE tab = "bim" -> UnmountViewer
       [] t = "bim"   -> MountViewer(project)
       [] OTHER       -> UNCHANGED viewer
  /\ CASE tab = "drawing" -> UnmountImage
       [] t = "drawing"   -> ShowSource(SourceOf(project, metadata, ev))
       [] OTHER           -> UNCHANGED pageImage
  /\ IF t = "findings" THEN MountPanel(project, moves) ELSE UNCHANGED panelVars

Reaches(t, ev) ==                 \* the tab t, with ev in focus
  /\ t # tab
  /\ tab' = t
  /\ CASE tab = "bim" -> UnmountViewer
       [] t = "bim"   -> MountViewer(project)
       [] OTHER       -> UNCHANGED viewer
  /\ CASE tab = "drawing" -> UnmountImage
       [] t = "drawing"   -> ShowSource(SourceOf(project, metadata, ev))
       [] OTHER           -> UNCHANGED pageImage
  /\ CASE tab = "findings" -> UnmountPanel
       [] t = "findings"   -> MountPanel(project, moves)
       [] OTHER            -> UNCHANGED panelVars

OpenTab(t) ==
  /\ Move
  /\ Reaches(t, evidence)
  /\ UNCHANGED <<project, metadata, metadataLoads, evidence, life>>

(* switchProject, as far as this half goes: the new project reaches the mounted
   component, the metadata is loaded again and the evidence focus is dropped;
   the highlights and the metadata on display stay. *)
SwitchProject(p) ==
  /\ Move
  /\ p # project
  /\ project' = p
  /\ evidence' = None
  /\ metadataLoads' = metadataLoads \cup {[n |-> moves', project |-> p]}
  /\ IF tab = "bim" THEN ReplaceScene(p) ELSE UNCHANGED viewer
  /\ IF tab = "findings" THEN PanelProject(p, moves) ELSE UNCHANGED panelVars
  /\ DrawingShows(p, metadata, None)
  /\ UNCHANGED <<tab, metadata, life>>

(* The metadata arrives, whichever project it is of. *)
MetadataArrives(l) ==
  /\ l \in metadataLoads
  /\ metadataLoads' = metadataLoads \ {l}
  /\ metadata' = l.project
  /\ DrawingShows(project, l.project, evidence)
  /\ UNCHANGED <<project, tab, evidence, viewer, panelVars, life, moves>>

MetadataFails(l) ==
  /\ l \in metadataLoads
  /\ metadataLoads' = metadataLoads \ {l}
  /\ UNCHANGED <<project, tab, metadata, evidence, viewer, pageImage, panelVars, life,
                 moves>>

(* changeDrawingPage, by "Prev" and "Next": the document shown is in focus from
   then on. *)
TurnPage ==
  /\ Move
  /\ tab = "drawing"
  /\ \E n \in {PageOf(evidence) - 1, PageOf(evidence) + 1} :
       /\ n >= 1 /\ (n > PageOf(evidence) => n <= PageCount)
       /\ evidence' = [document |-> DocumentOf(evidence, metadata),
                       page |-> IF n <= PageCount THEN n ELSE PageCount]
  /\ DrawingShows(project, metadata, evidence')
  /\ UNCHANGED <<project, tab, metadata, metadataLoads, viewer, panelVars, life>>

(* openCitation: an element is shown and its highlight toggled, ... *)
OpenIfcCitation(e) ==
  /\ Move
  /\ e \in ElementsOf[project]
  /\ tab' = "bim"
  /\ highlighted' = Toggled(e)
  /\ IF tab = "bim"
       THEN /\ meshes' = Paint(meshes, highlighted')
            /\ UNCHANGED <<mounts, scenes, live, loads, viewerStatus,
                           pageImage, panelVars>>
       ELSE /\ mounts' = mounts + 1
            /\ BeginScene(project, mounts')
            /\ UNCHANGED meshes
            /\ IF tab = "drawing" THEN UnmountImage ELSE UNCHANGED pageImage
            /\ IF tab = "findings" THEN UnmountPanel ELSE UNCHANGED panelVars
  /\ UNCHANGED <<project, metadata, metadataLoads, evidence, life>>

(* ... or the page it cites. *)
OpenPdfCitation(n) ==
  /\ Move
  /\ evidence' = [document |-> project, page |-> n]
  /\ IF tab = "drawing"
       THEN DrawingShows(project, metadata, evidence')
            /\ UNCHANGED <<tab, viewer, panelVars>>
       ELSE Reaches("drawing", evidence')
  /\ UNCHANGED <<project, metadata, metadataLoads, life>>

(* A click in the viewer, and the "Clear selection" button. *)
Pick(e) ==
  /\ Move
  /\ PickElement(e)
  /\ UNCHANGED <<app, pageImage, panelVars, life>>

ClearSelection ==
  /\ Move
  /\ SetHighlighted({})
  /\ UNCHANGED <<mounts, scenes, live, loads, viewerStatus, app, pageImage,
                 panelVars, life>>

(* newConversation, or "Clear evidence focus". *)
NewConversation ==
  /\ Move
  /\ evidence' = None
  /\ DrawingShows(project, metadata, None)
  /\ UNCHANGED <<project, tab, metadata, metadataLoads, viewer, panelVars, life>>

---------------------------------------------------------------------------
ViewerLoads ==
  /\ \E s \in Scene : ViewerProceeds(s)
  /\ UNCHANGED <<app, pageImage, panelVars, life, moves>>

ImageLoads ==
  /\ \E n \in fetches : BlobArrives(n) \/ BlobFails(n)
  /\ UNCHANGED <<app, viewer, panelVars, life, moves>>

PanelProceeds ==
  /\ \/ \E l \in lists : ListIsRead(l) \/ ListLands(l) \/ ListFails(l)
     \/ \E k \in posts : PostArrives(k) \/ PostIsLost(k) \/ PostLands(k)
  /\ UNCHANGED <<app, viewer, pageImage, moves>>

ReloadsFindings ==                \* "Refresh", or an investigation that landed
  /\ Move
  /\ Reload(moves)
  /\ UNCHANGED <<app, viewer, pageImage, life>>

ClicksFinding(f) ==
  /\ Move
  /\ Click(f, moves)
  /\ UNCHANGED <<app, viewer, pageImage, life>>

Others ==
  /\ Move
  /\ OthersAct
  /\ UNCHANGED <<app, viewer, pageImage>>

Next ==
  \/ \E t \in Tab : OpenTab(t)
  \/ \E p \in Project : SwitchProject(p)
  \/ \E l \in metadataLoads : MetadataArrives(l) \/ MetadataFails(l)
  \/ TurnPage \/ \E n \in 1..Pages : OpenPdfCitation(n)
  \/ \E e \in Element : OpenIfcCitation(e) \/ Pick(e)
  \/ ClearSelection \/ NewConversation
  \/ ViewerLoads \/ ImageLoads \/ PanelProceeds
  \/ ReloadsFindings \/ (\E f \in Finding : ClicksFinding(f)) \/ Others

Spec == Init /\ [][Next]_vars

---------------------------------------------------------------------------
(* Type invariant: the parts', and that only the open tab is mounted. *)
TypeOK ==
  /\ ViewerTypeOK /\ ImageTypeOK /\ PanelTypeOK
  /\ project \in Project /\ tab \in Tab
  /\ metadata \in Project \cup {None}
  /\ metadataLoads \subseteq [n : 0..MaxMoves, project : Project]
  /\ evidence \in Focus \cup {None} /\ moves \in 0..MaxMoves
  /\ live # 0 <=> tab = "bim"
  /\ src # None <=> tab = "drawing"
  /\ panel # None <=> tab = "findings"
=============================================================================
