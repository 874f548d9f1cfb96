---------------------------- MODULE MCWorkspace ----------------------------
(* Workspace for TLC: two projects with one element and one finding each. *)
EXTENDS Workspace, TLC

CONSTANTS duplex, demo, door, wall, d1, w1, pr1, pr2, noProposal, none

TwoProjects  == {duplex, demo}
TwoElements  == {door, wall}
TwoFindings  == {d1, w1}
TwoProposals == {pr1, pr2}
Elements     == duplex :> {door} @@ demo :> {wall}
Owners       == d1 :> duplex @@ w1 :> demo
Is(s, p)     == [status |-> s, pending |-> p]
Lives        == {d1 :> r @@ w1 :> Is("open", noProposal) :
                   r \in {Is("acknowledged", noProposal), Is("action_required", pr1),
                          Is("resolved", noProposal)}}
AllSources   == [project : TwoProjects, document : TwoProjects \cup {none}, page : 1..2]
=============================================================================
