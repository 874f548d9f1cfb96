---------------------------- MODULE MCAgentTurn ----------------------------
(* AgentTurn for TLC: two subjects, three rounds of up to two, one and one tool
   calls, one number stated. *)
EXTENDS AgentTurn

CONSTANTS doors, windows, total

Subjects == {doors, windows}
RealCounts == doors :> 1 @@ windows :> 2
CallsPerRound == <<2, 1, 1>>

(* None; a number of its own, another's, which is a storey's too, a tag; a sum. *)
SubmittedClaims ==
  {{}} \cup {{[about |-> doors, value |-> n]} : n \in {1, 2, 5}}
       \cup {{[about |-> total, value |-> 3]}}
(* One that is real, the sum, and one made up. *)
NarratedNumbers == {1, 3, 9}
=============================================================================
