SPECIFICATION Spec
CONSTANTS
  asset = asset
  vendor = vendor
  router = router
  bad = bad
  q1 = q1
  q2 = q2
  r1 = r1
  r2 = r2
  p0 = p0
  p1 = p1
  Payments = {p0, p1}
  TtlMs = 0
  MaxClaims = 1
  Document <- MCDocument
  Documents <- MCDocuments
  Requests = {q1, q2, r1, r2}
  Offers <- MCOffers
  BadBody = bad
  Gates = {"enabled", "disabled"}
  Engines <- MCEngines
  Readings <- MCReadings
  MaxEvents = 1
  Clients = {"proxy", "researcher", "recipe"}
  Own = q1
  Fallback = q2
  OwnPayment = p0
  Quotes = {1, 3}
  Ceiling = 2
  Scale = 1
  OwnBody <- MCOwnBody
INVARIANTS
  TypeOK
  
  
  ChargedWithinLimits
  EscalatedNeedsClick
  AuditNamesPolicy
  AuditInOrder
PROPERTY
  RequestsAnswered
CHECK_DEADLOCK FALSE
