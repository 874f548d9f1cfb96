------------------------------- MODULE Viewer -------------------------------
(***************************************************************************)
(* The IFC viewer (apps/web/src/IfcViewer.tsx): one scene per project and  *)
(* mount, filled by an asynchronous load that a torn-down scene does not   *)
(* stop; the map of the mount's meshes, which the loads of all its scenes  *)
(* write; and the highlights, which App owns.  Picking by ray, camera and  *)
(* materials are left out, and so is an element of the payload that the    *)
(* building of its mesh throws on: a load's meshes all land or none.       *)
(***************************************************************************)
EXTENDS BrowserTab, Naturals

CONSTANTS Element,
          ElementsOf,      \* external: the elements of each project's IFC file
          MaxScenes        \* bound: scenes begun

ASSUME ViewerConstants ==
  /\ ElementsOf \in [Project -> SUBSET Element]
  /\ MaxScenes \in Nat \ {0}

VARIABLES
  mounts, scenes,          \* how many have begun
  live,                    \* the scene that is rendered, 0 while not mounted
  loads,                   \* loadProjection, for each scene
  meshes,                  \* elementMeshesRef of the mount: the scene of each
                           \* element's mesh (0 if none), and whether it is lit
  highlighted,             \* highlightedIds of App
  viewerStatus             \* what was last published, by the load of a scene

viewer == <<mounts, scenes, live, loads, meshes, highlighted, viewerStatus>>

Scene  == 1..MaxScenes
Load   == [pc : {"none", "fetch", "json", "done", "failed"},
           project : Project \cup {None}, mount : 0..MaxScenes]
Mesh   == [scene : 0..MaxScenes, lit : BOOLEAN]
NoMesh == [scene |-> 0, lit |-> FALSE]
NoMeshes == [e \in Element |-> NoMesh]

ViewerInit(p) ==
  /\ mounts = 1 /\ scenes = 1 /\ live = 1
  /\ loads = [s \in Scene |->
       IF s = 1 THEN [pc |-> "fetch", project |-> p, mount |-> 1]
       ELSE [pc |-> "none", project |-> None, mount |-> 0]]
  /\ meshes = NoMeshes
  /\ highlighted = {}
  /\ viewerStatus = [phase |-> "loading", scene |-> 1]

Publish(phase, s) == viewerStatus' = [phase |-> phase, scene |-> s]

(* applyHighlightSet, over a map of meshes. *)
Paint(map, ids) ==
  [e \in Element |-> IF map[e].scene = 0 THEN NoMesh
                     ELSE [map[e] EXCEPT !.lit = e \in ids]]

(* The scene effect: a new scene, whose load has announced itself. *)
BeginScene(p, mount) ==
  /\ scenes < MaxScenes
  /\ scenes' = scenes + 1
  /\ live' = scenes'
  /\ loads' = [loads EXCEPT ![scenes'] =
       [pc |-> "fetch", project |-> p, mount |-> mount]]
  /\ Publish("loading", scenes')

(* Its cleanup clears the map; nothing stops the load. *)
ReplaceScene(p) ==
  /\ live # 0
  /\ BeginScene(p, mounts)
  /\ meshes' = NoMeshes
  /\ UNCHANGED <<mounts, highlighted>>

MountViewer(p) ==
  /\ live = 0
  /\ mounts' = mounts + 1
  /\ BeginScene(p, mounts')
  /\ UNCHANGED <<meshes, highlighted>>

UnmountViewer ==
  /\ live' = 0
  /\ meshes' = NoMeshes
  /\ UNCHANGED <<mounts, scenes, loads, highlighted, viewerStatus>>

SetPc(s, pc) == loads' = [loads EXCEPT ![s].pc = pc]

(* The response, then its body: neither step asks whether the scene was torn
   down, and both publish. *)
ProjectionResponds(s) ==
  /\ loads[s].pc = "fetch"
  /\ SetPc(s, "json")
  /\ Publish("parsing", s)
  /\ UNCHANGED <<mounts, scenes, live, meshes, highlighted>>

(* The map the load of s writes: that of its mount, if it is still there. *)
OwnsMap(s) == live # 0 /\ loads[s].mount = mounts
WithMeshes(s) ==
  [e \in Element |-> IF e \in ElementsOf[loads[s].project]
                       THEN [scene |-> s, lit |-> FALSE] ELSE meshes[e]]

ReadyUnpainted(s) ==              \* mutant: applyHighlightSet left out at the end
  /\ loads[s].pc = "json"
  /\ SetPc(s, "done")
  /\ Publish("ready", s)
  /\ meshes' = IF OwnsMap(s) THEN WithMeshes(s) ELSE meshes
  /\ UNCHANGED <<mounts, scenes, live, highlighted>>

ProjectionReady(s) ==
  /\ loads[s].pc = "json"
  /\ SetPc(s, "done")
  /\ Publish("ready", s)
  /\ meshes' = IF OwnsMap(s) THEN Paint(WithMeshes(s), highlighted) ELSE meshes
  /\ UNCHANGED <<mounts, scenes, live, highlighted>>

(* Only a failure is kept from publishing after the scene is gone. *)
ProjectionFails(s) ==
  /\ loads[s].pc \in {"fetch", "json"}
  /\ SetPc(s, "failed")
  /\ IF s = live THEN Publish("failed", s) ELSE UNCHANGED viewerStatus
  /\ UNCHANGED <<mounts, scenes, live, meshes, highlighted>>

ViewerProceeds(s) ==
  ProjectionResponds(s) \/ ProjectionReady(s) \/ ProjectionFails(s)

(* App changes the set, and the highlight effect of a mounted viewer paints. *)
SetHighlighted(ids) ==
  /\ highlighted' = ids
  /\ meshes' = Paint(meshes, ids)
Toggled(e) == IF e \in highlighted THEN highlighted \ {e} ELSE highlighted \cup {e}

SceneBuilt == live # 0 /\ loads[live].pc = "done"

(* A click on an element of the rendered scene. *)
PickElement(e) ==
  /\ SceneBuilt /\ e \in ElementsOf[loads[live].project]
  /\ SetHighlighted(Toggled(e))
  /\ UNCHANGED <<mounts, scenes, live, loads, viewerStatus>>

ViewerTypeOK ==
  /\ mounts \in 0..MaxScenes /\ scenes \in 0..MaxScenes /\ live \in 0..MaxScenes
  /\ loads \in [Scene -> Load]
  /\ meshes \in [Element -> Mesh]
  /\ highlighted \subseteq Element
  /\ viewerStatus \in [phase : {"loading", "parsing", "ready", "failed"},
                       scene : Scene]

(* Whatever was toggled while loads were pending, each mesh the viewer can
   paint is lit exactly if its element is highlighted, and once the scene is
   built every element of its project has one (applyHighlightSet at the end of
   loadProjection and in the highlight effect). *)
MapIsLit ==
  /\ \A e \in Element :
       meshes[e].scene # 0 => (meshes[e].lit <=> e \in highlighted)
  /\ SceneBuilt =>
       \A e \in ElementsOf[loads[live].project] : meshes[e].scene # 0

(* The meshes that highlights paint are those on screen: a load that was
   overtaken by a project switch does not touch the viewer of the project that
   is now active. *)
MapIsLive ==
  SceneBuilt =>
    \A e \in ElementsOf[loads[live].project] : meshes[e].scene = live
=============================================================================
