SPECIFICATION Spec
CONSTANTS
  p1 = p1
  p2 = p2
  j1 = j1
  j2 = j2
  j3 = j3
  i1 = i1
  i2 = i2
  r1 = r1
  r2 = r2
  Passports = {p1, p2}
  Jtis = {j1, j2, j3}
  Kids = {k1}
  Ahead = {0, 2}
  Skew = 1
  Patterns <- MCPatterns
  Values <- MCValues
  Characters <- MCCharacters
  Constraints <- MCConstraints
  NoJti = NoJti
  NoToken = NoToken
  Absent = Absent
  MAX_DEPTH = 4
  MaxSafe = 3
  Horizon = 1
  Never = 9
  Intents <- MCIntents
  intent <- MCIntent
  Minutes = {180, 720}
  Rules <- MCRules
  Requests = {r1, r2}
  Executions = {x1}
  Nothing = Nothing
  ActionTtl = 1
  ApprovalTtl = 2
  MaxText = 6
  MaxItems = 2
  MaxAmount = 2
  MaxNesting = 4
  Minute = 2
  SEEN_TTL_MS = 1
  SEEN_MAX = 2
  Unset = Unset
CONSTRAINTS
  OneOutage
  ThreeCalls
SYMMETRY Twins
CHECK_DEADLOCK FALSE
INVARIANTS
  WithinEveryAncestor
  RunsWereDecided
  RunsWithinAuthority
  
