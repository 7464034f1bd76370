SPECIFICATION Spec
CONSTANTS
  asset = asset
  vendor = vendor
  router = router
  stranger = stranger
  ether = ether
  zero = zero
  Account = account
  Tracked = asset
  Native = ether
  ZeroCurrency = zero
  Assets <- MCAssets
  Unlimited = 50
  Permit2Unlimited = 60
  UNBOUNDED = 100
  r1 = r1
  r2 = r2
  Runs = {r1, r2}
  LastDay = 1
  MaxUint = 5
  Policy <- MCPolicy
  Installed <- FullAllowlist
  Intents <- MCIntents
  Calls <- ExecuteCalls
  Outside = {}
  Executors = {"bundler", "simulated"}
  Approvers = {"dashboard"}
  Ledgers = {"off", "unreachable", "ready"}
  Opening = {4}
  MaxCalls = 3
INVARIANTS
  TypeOK
  ReadReflectsRecorded
  EscalationNeedsHuman
  MinedIsPublished
SYMMETRY CallerSymmetry
CHECK_DEADLOCK FALSE
