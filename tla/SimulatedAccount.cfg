SPECIFICATION TraderSpec
CONSTANTS
  MaxUint = 3
  Asset = Asset
  Account = Account
  router = router
  stranger = stranger
  Router = router
  Recipients = {}
  Transcript <- MCTranscript
  Amounts = {0, 1, 2}
  Signals = 3
  Drivers = {"trader", "direct"}
  Addr <- MCAddr
  Configs <- MCConfigs
  Supply = 3
  LastDay = 2
INVARIANTS
  AccumulatorCoversLog
  ReportsWhatLeft

  
CHECK_DEADLOCK FALSE
