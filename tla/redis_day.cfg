SPECIFICATION Spec
CONSTANTS
  c1 = c1
  c2 = c2
  c3 = c3
  t1 = t1
  n1 = n1
  n2 = n2
  j1 = j1
  j2 = j2
  NoToken = NoToken
  NoRequest = NoRequest
  Calls = {c1, c2, c3}
  Tokens = {t1}
  Requests <- MCRequests
  Limit <- MCLimit
  Ttl = 2
  MaxRetries = 1
  Horizon = 4
SYMMETRY Twins
CHECK_DEADLOCK FALSE
INVARIANTS
  IInv
  SingleWinner
  JtisBelongToGrants
  SpendIsSumOfGrants
