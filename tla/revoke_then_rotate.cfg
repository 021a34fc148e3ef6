SPECIFICATION Spec
CONSTANTS
  p1 = p1
  p2 = p2
  b1 = b1
  t1 = t1
  t2 = t2
  Org = org
  NoBlueprint = NoBlueprint
  Passports = {p1}
  Blueprints = {}
  Tokens = {}
  Up <- AloneUp
  TokenUp <- MCTokenUp
  holder <- MCHolder
  blueprintOf <- AloneBlueprintOf
  Handlers = {h1, h2, h3}
  Grace = 1
  MaxKid = 3
  Horizon = 2
SYMMETRY Requests
CHECK_DEADLOCK FALSE
INVARIANTS
  RevokedKeyIsDead
