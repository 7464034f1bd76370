SPECIFICATION Spec
CONSTANTS
  asset = asset
  vendor = vendor
  router = router
  Document <- MCDocument
  Unit = 2
  Edits <- MCEdits
  Editors = {c1, c2}
  MaxEdits = 2
  Torn = torn
  People = {alice, bob}
  Session = session
  Unset = unset
  MaxEvents = 2
SYMMETRY MCSymmetry
INVARIANTS
  TypeOK
  SavedIsServed
  
  
  
  OwnersRepoint
  AgreementIsReal
CHECK_DEADLOCK FALSE
