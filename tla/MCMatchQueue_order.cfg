SPECIFICATION FairSpec
CONSTANTS
  Requests = {r1, r2, r3, r4}
  Tiers = {"bronze", "silver"}
  Served <- StandardThenBronze
  MaxFailures = 2
  None = None
CHECK_DEADLOCK FALSE
INVARIANTS
  TypeOK
  RequestsAreConserved
PROPERTIES
  ServesInOrder
  PairsAreMatched
