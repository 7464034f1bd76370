SPECIFICATION Spec
CONSTANTS
  Asset = Asset
  Hook = Hook
  Account = Account
  router = router
  Addr <- MCAddr
  Parties <- MCParties
  Policies <- LifecyclePolicies
  TargetSets <- LifecycleTargetSets
  Extras = {"increaseAllowance"}
  Amounts = {1, 2}
  UnhookedAmounts = {}
  MaxUint = 2
  Supply = 2
  MaxDepth = 1
  LastDay = 2
PROPERTY
  SpendersAllowlisted
