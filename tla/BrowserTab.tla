----------------------------- MODULE BrowserTab -----------------------------
(* What the parts of the front end share: the projects of the selector, and *)
(* the null of the page's state.                                            *)
CONSTANTS Project, None
ASSUME NoneIsNoProject == None \notin Project
=============================================================================
