SPECIFICATION Spec
CONSTANTS
  r1 = r1
  r2 = r2
  t1 = t1
  t2 = t2
  k1 = k1
  p1 = p1
  p2 = p2
  m1 = m1
  none = none
  matched = matched
  Key <- OneKey
  Proposal <- TwoProposals
  NoProposal <- none
  Matched <- matched
  Mismatch <- OneMismatch
  Reviewer <- TwoReviewers
  Turn <- TwoTurns
  MaxFindings = 1
  MaxHistory = 7
SYMMETRY Symmetric
INVARIANTS
  TypeOK
  HistoryIsChain
  ResolvedHasNoProposal
  DecidedOnce
  SnapshotIsReviewed
  ClosedMeansMatched
PROPERTIES
  ProposalNeverReturns
