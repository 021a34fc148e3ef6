SPECIFICATION FairSpec
CONSTANTS
  c1 = c1
  c2 = c2
  c3 = c3
  s1 = s1
  s2 = s2
  t1 = t1
  n1 = n1
  n2 = n2
  n3 = n3
  j1 = j1
  j2 = j2
  j3 = j3
  NoToken = NoToken
  NoRequest = NoRequest
  Free = Free
  Calls = {c1, c2, c3}
  Stores = {s1, s2}
  Tokens = {t1}
  Requests <- MCRequests
  Limit <- MCLimit
  StoreOf <- MCStoreOf
  PoolSize = 1
CHECK_DEADLOCK FALSE
INVARIANTS
  SingleUse
  AllOrNothing
  WithinCap
  SpendIsSumOfGrants
  IInv
PROPERTIES
  ImplementsLedger
  EveryCallReturns
