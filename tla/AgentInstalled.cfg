SPECIFICATION Spec
CONSTANTS
  asset = asset
  vendor = vendor
  router = router
  stranger = stranger
  ether = ether
  zero = zero
  Account = account
  Tracked = asset
  Native = ether
  ZeroCurrency = zero
  Assets <- MCAssets
  Unlimited = 50
  Permit2Unlimited = 60
  UNBOUNDED = 100
  r1 = r1
  r2 = r2
  Runs = {r1}
  LastDay = 1
  MaxUint = 5
  Policy <- MCPolicy
  Installed <- ScriptAllowlist
  Intents <- MCIntents
  Calls <- ExecuteCalls
  Outside = {}
  Executors = {"bundler"}
  Approvers = {"dashboard"}
  Ledgers = {"off"}
  Opening = {3}
  MaxCalls = 1
INVARIANTS
  AllowedIsExecutable
CHECK_DEADLOCK FALSE
