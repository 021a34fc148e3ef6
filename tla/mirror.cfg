SPECIFICATION FairSpec
CONSTANTS
  g1 = g1
  g2 = g2
  revoker = revoker
  suspender = suspender
  user = user
  user2 = user2
  Gateways <- MCGateways
  Requests <- MCRevoked
  kind <- MCRevokedKind
  NoValue = NoValue
  NoGateway = NoGateway
  MaxRefreshes <- MCRevokedRefreshes
CHECK_DEADLOCK FALSE
INVARIANTS
  IInv
  AckedWasWritten
  FreshRefreshSeesRevoked
PROPERTY
  EveryRequestAnswered
