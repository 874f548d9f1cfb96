---------------------------- MODULE MCFindingApi ----------------------------
(* FindingApi for TLC: a few findings, proposals and concurrent requests. *)
EXTENDS FindingApi, TLC

CONSTANTS r1, r2, t1, t2, k1, p1, p2, m1, none, matched

TwoReviewers == {r1, r2}
OneReviewer  == {r1}
TwoTurns     == {t1, t2}
OneTurn      == {t1}
OneKey       == {k1}
TwoProposals == {p1, p2}
OneMismatch  == {m1}

(* Slots and proposal ids are interchangeable. *)
Symmetric == Permutations(Reviewer) \cup Permutations(Turn) \cup Permutations(Proposal)
=============================================================================
