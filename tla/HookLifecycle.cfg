SPECIFICATION Spec
CONSTANTS
  Asset = Asset
  Hook = Hook
  Account = Account
  router = router
  Addr <- MCAddr
  Parties <- MCParties
  Policies <- LifecyclePolicies
  TargetSets <- LifecycleTargetSets
  Extras = {}
  Amounts = {1, 2}
  UnhookedAmounts = {1}
  MaxUint = 2
  Supply = 2
  MaxDepth = 1
  LastDay = 3
INVARIANTS
  TypeOK
  AccumulatorWithinLimit
PROPERTIES
  SpendersAllowlisted
