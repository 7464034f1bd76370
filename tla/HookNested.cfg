SPECIFICATION Spec
CONSTANTS
  Asset = Asset
  Hook = Hook
  Account = Account
  router = router
  Addr <- MCAddr
  Parties <- MCParties
  Policies <- NestedPolicies
  TargetSets <- NestedTargetSets
  Extras = {"increaseAllowance"}
  Amounts = {1}
  UnhookedAmounts = {}
  MaxUint = 3
  Supply = 2
  MaxDepth = 2
  LastDay = 2
INVARIANTS
  AccumulatorCoversOutflow
PROPERTIES
  ExecutionKeepsPolicy
  FloorHolds
  ImplementsBudget
