--------------------------- MODULE MCConversation ---------------------------
(* Conversation for TLC: two questions, two projects, at most two tool calls. *)
EXTENDS Conversation, TLC

CONSTANTS q1, q2, none, duplex, demo, c1, c2

TwoQuestions == {q1, q2}
TwoProjects  == {duplex, demo}
TwoCalls     == {c1, c2}
OneCall      == {c1}
=============================================================================
