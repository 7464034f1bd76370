SPECIFICATION Spec
CONSTANTS
  asset = asset
  vendor = vendor
  router = router
  stranger = stranger
  ether = ether
  zero = zero
  Account = account
  Tracked = asset
  Native = ether
  ZeroCurrency = zero
  Assets <- MCAssets
  Unlimited = 50
  Permit2Unlimited = 60
  UNBOUNDED = 100
  r1 = r1
  r2 = r2
  Runs = {r1}
  LastDay = 2
  MaxUint = 5
  Policy <- MCPolicy
  Installed <- FullAllowlist
  Intents <- DecodedIntents
  Calls <- AllCalls
  Outside <- MCOutside
  Executors = {"eoa"}
  Approvers = {"dashboard", "console", "auto"}
  Ledgers = {"off"}
  Opening = {4}
  MaxCalls = 1
INVARIANTS
  AllowedIsExecutable
  
PROPERTY
  CallReturns
CHECK_DEADLOCK FALSE
