SPECIFICATION Spec
CONSTANTS
  o = o
  b1 = b1
  o2 = o2
  h1 = h1
  h2 = h2
  d = d
  Backlog = 2
  MaxWire = 3
  Asks = {o, o2, b1, h1, h2}
  Escalating = {o, b1, h1, h2}
  Tokens = {"t"}
  ApprovalTimeout = 1
  MaxTime = 1
  MaxFaults = 1
  PageTtl = 1
  Strangers = {d}
  BenchAsks = {b1}
  HomeAsks = {h1, h2}
  Scenes = 2
  RunnerAsk = d
  Acts = 0
  Slices = 0
  Pages = {"ops", "run", "home"}
  OtherAsks = {o, o2}
  AgentPages = {"ops"}
  RunnerPages = {"run"}
INVARIANTS
  NothingMissed
  ToldTheTruth
  VerdictOfScene
PROPERTY
  StaleIsShown
CHECK_DEADLOCK FALSE
