SPECIFICATION Spec
CHECK_DEADLOCK FALSE
CONSTANTS
  None = None
  u1 = u1
  u2 = u2
  u3 = u3
  v = v
  A = A
  B = B
  c1 = c1
  c2 = c2
  torque = torque
  leak = leak
  Tenants = {A, B}
  First = A
  UnitsOf <- Owners
  Lots = {"lot"}
  Values <- Readings
  Conns = {c1, c2}
  NamedBy <- Named
  PointsOf <- Configured
  DepthCap = 1
  LastMonth = 2
  Ahead = 0
  MaxRecords = 3
  MaxWrites = 1
SYMMETRY Symmetry
INVARIANTS
  TypeOK
  TenantsAreApart
  RecallIsExact
  HistoryHoldsCommitted
