SPECIFICATION Spec
CONSTANTS
  None = None
  Units = {u1}
  Tx = {t1, t2}
  Payloads = {p, q}
  Targets <- ScrapTargets
  MaxRows = 3
SYMMETRY Interchangeable
INVARIANTS
  TypeOK
  EvidenceIsChained
  VerifyIsExact
PROPERTIES
  NothingIsTakenBack
  ImplementsLedger
