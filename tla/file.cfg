SPECIFICATION Spec
CONSTANTS
  i1 = i1
  i2 = i2
  i3 = i3
  n1 = n1
  n2 = n2
  j1 = j1
  j2 = j2
  j3 = j3
  Intents = {i1, i2, i3}
  nonce <- MCNonce
  iat <- MCIat
  exp <- MCExp
  amount <- MCAmount
  Jtis = {j1, j2, j3}
  NoIntent = NoIntent
  NoJti = NoJti
  Limit = 3
  Retention = 3
  IntentTtl = 2
  ActionTtl = 6
  Skew = 1
  Horizon = 6
SYMMETRY Twins
CHECK_DEADLOCK FALSE
INVARIANTS
  SingleUse
  RunsAreDebited
