SPECIFICATION MCSpec
CHECK_DEADLOCK FALSE
CONSTANTS
  None = None
  SchemaVersion = 1
  Backdate = 1
  Tolerance = 1
  Catalog <- Plans
  VendorKey = "vendor"
  Node = "this"
  Statuses = {"past_due", "canceled"}
  PeriodEnds = {0, 1}
  Foreign <- Others
  Units = {u}
  Models = {m}
  MaxNow = 3
  MaxIssued = 1
  MaxFaults = 1
  Events = {"evt_1", "evt_2"}
  Old = "whsec_old"
  New = "whsec_new"
  Skews <- Ahead
  ToleranceSecs = 1
  MaxClock = 2
  MaxLosses = 2
  Altered = Altered
  Absent = Absent
INVARIANTS
  PaidIsServed
  WindingBackBuysNothing
  TakesWhatStripeSent
PROPERTIES
  ConfigIsPaidFor
  ProductionGoesOn
  EventsAreTaken
