SPECIFICATION Spec
CONSTANTS
  o = o
  b1 = b1
  o2 = o2
  h1 = h1
  h2 = h2
  d = d
  Backlog = 2
  MaxWire = 3
  Asks = {o, o2, b1, h1, h2}
  Escalating = {o}
  Tokens = {"t"}
  ApprovalTimeout = 1
  MaxTime = 1
  MaxFaults = 0
  PageTtl = 1
  Strangers = {d}
  BenchAsks = {b1}
  HomeAsks = {h1, h2}
  Scenes = 2
  RunnerAsk = d
  Acts = 1
  Slices = 2
  Pages = {"ops"}
  OtherAsks = {o}
  AgentPages = {}
  RunnerPages = {"ops"}
INVARIANT
  PageSurvives
CHECK_DEADLOCK FALSE
