SPECIFICATION Spec
CONSTANTS
  Worker = {}
  Drain = {}
  Forcer = {f1}
  Handler = {h1}
  Poller = {p1}
  RowId = {r1}
  CallId = {c1, c2}
  None = None
  LastDay = 1
  PhoneCount = 1
  MaxAttempt = 2
  Gap = 1
  ManualQueue = TRUE
  Faults = {"stamp_error", "crash"}
  MaxFaults = 1
INVARIANTS
  ForcedDialRings
CHECK_DEADLOCK FALSE
SYMMETRY MCSymmetry
