SPECIFICATION Spec
CONSTANTS
  g1 = g1
  g2 = g2
  revoker = revoker
  suspender = suspender
  user = user
  user2 = user2
  Gateways <- MCGateways
  Requests <- MCSuspended
  kind <- MCSuspendedKind
  NoValue = NoValue
  NoGateway = NoGateway
  MaxRefreshes <- MCSuspendedRefreshes
SYMMETRY MCSymmetry
CHECK_DEADLOCK FALSE
INVARIANT
  SuspensionStays
