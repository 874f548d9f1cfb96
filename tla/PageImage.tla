----------------------------- MODULE PageImage -----------------------------
(***************************************************************************)
(* An image behind the access key (useAuthedImage and AuthedImage in       *)
(* apps/web/src/apiClient.tsx), as the drawing tab uses it: each source    *)
(* runs an effect that fetches a blob and makes an object URL, and whose   *)
(* cleanup revokes it.  A step is what runs between two awaits.            *)
(***************************************************************************)
EXTENDS BrowserTab, Naturals

CONSTANT Source          \* the urls of images
ASSUME NoneIsNoSource == None \notin Source

VARIABLES
  src,                     \* the url given to the hook; None while not mounted
  effect,                  \* number of the last effect that ran
  fetches,                 \* effects whose fetch or blob is awaited
  urls,                    \* effects whose object URL is not revoked
  image                    \* the effect whose object URL is shown, or 0

pageImage == <<src, effect, fetches, urls, image>>

ImageInit == src = None /\ effect = 0 /\ fetches = {} /\ urls = {} /\ image = 0

(* The effect of a new url, after the cleanup of the one before.  The old
   image stays until the new one arrives. *)
ShowSource(s) ==
  /\ s # src
  /\ src' = s
  /\ effect' = effect + 1
  /\ fetches' = fetches \cup {effect'}
  /\ urls' = urls \ {effect}
  /\ UNCHANGED image

UnmountImage ==
  /\ src' = None
  /\ urls' = urls \ {effect}
  /\ image' = 0
  /\ UNCHANGED <<effect, fetches>>

(* The closure's `cancelled`: its effect was cleaned up. *)
Cancelled(n) == n # effect \/ src = None

ShowsAnyBlob(n) ==                \* mutant: `cancelled` not looked at
  /\ n \in fetches
  /\ fetches' = fetches \ {n}
  /\ urls' = urls \cup {n} /\ image' = n
  /\ UNCHANGED <<src, effect>>

BlobArrives(n) ==
  /\ n \in fetches
  /\ fetches' = fetches \ {n}
  /\ IF Cancelled(n) THEN UNCHANGED <<urls, image>>
     ELSE urls' = urls \cup {n} /\ image' = n
  /\ UNCHANGED <<src, effect>>

BlobFails(n) ==
  /\ n \in fetches
  /\ fetches' = fetches \ {n}
  /\ image' = IF Cancelled(n) THEN image ELSE 0
  /\ UNCHANGED <<src, effect, urls>>

ImageTypeOK ==
  /\ src \in Source \cup {None}
  /\ effect \in Nat
  /\ fetches \subseteq 1..effect
  /\ urls \subseteq 1..effect
  /\ image \in 0..effect

(* However many pages are turned while fetches are pending, no object URL
   outlives its page, and once the page's own fetch has ended the image on
   screen is that page's or none. *)
PageIsCurrent ==
  /\ urls \subseteq IF src = None THEN {} ELSE {effect}
  /\ src = None => image = 0
  /\ image = effect /\ image # 0 => image \in urls
  /\ src # None /\ effect \notin fetches => image \in {0, effect}
=============================================================================
