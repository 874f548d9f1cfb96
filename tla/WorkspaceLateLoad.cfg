SPECIFICATION Spec
CONSTANTS
  duplex = duplex
  demo = demo
  door = door
  wall = wall
  d1 = d1
  w1 = w1
  pr1 = pr1
  pr2 = pr2
  noProposal = noProposal
  none = none
  Project <- TwoProjects
  Element <- TwoElements
  Finding <- TwoFindings
  Proposal <- TwoProposals
  NoProposal = noProposal
  None = none
  Pages = 2
  Source <- AllSources
  ElementsOf <- Elements
  OwnerOf <- Owners
  FirstProject = duplex
  FirstFindings <- Lives
  MaxMoves = 3
  MaxScenes = 4
CHECK_DEADLOCK FALSE
INVARIANTS
  MapIsLive
