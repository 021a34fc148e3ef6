SPECIFICATION Spec
CONSTANTS
  Keys = {k1, k2, k3}
  Targets = {t1}
  Signings = {s1}
  Roles = {"admin", "reporter"}
  Nothing = Nothing
  MaxReceipts = 3
  MaxVersion = 3
  MaxCheckpoints = 1
  MaxFaults = 1
  Issuer = Issuer
  Skew = 1
  Missing = Missing
  Failed = Failed
SYMMETRY Alike
CHECK_DEADLOCK FALSE
INVARIANTS
  OneOrganization
  DeadKeysStayDead
  FollowerMissesNothing
  CheckpointsAttest
  AckedIsRecorded
PROPERTIES
  HistoryOnlyGrows
