SPECIFICATION Spec
CONSTANTS
  Approvers = {k1, k2, k3}
  NoApprover = NoApprover
  Handlers = {h1, h2, h3, h4}
  Quorum = 2
  Expires = 1
  Horizon = 2
SYMMETRY Twins
CHECK_DEADLOCK FALSE
INVARIANTS
  DistinctQuorum
  OneMint
  RefusedIsRefused
  AckedVotesStay
  IInv
PROPERTIES
  ResolvedForGood
