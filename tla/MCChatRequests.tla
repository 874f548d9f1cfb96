--------------------------- MODULE MCChatRequests ---------------------------
(* ChatRequests for TLC: two coroutines, one thread, two projects. *)
EXTENDS ChatRequests

CONSTANTS h1, h2, i1, i2, th1, demo, west, none

TwoHandlers == {h1, h2}
TwoIds      == {i1, i2}
OneId       == {i1}
OneThread   == {th1}
TwoProjects == {demo, west}
OneProject  == {demo}
=============================================================================
