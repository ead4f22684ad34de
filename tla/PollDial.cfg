SPECIFICATION Spec
CONSTANTS
  Worker = {w1}
  Drain = {d1}
  Forcer = {}
  Handler = {h1}
  Poller = {p1}
  RowId = {r1, r2}
  CallId = {c1, c2, c3}
  None = None
  LastDay = 2
  PhoneCount = 2
  MaxAttempt = 2
  Gap = 1
  ManualQueue = FALSE
  Faults = {"retell_rejects", "answer_lost", "crash", "handler_crash", "early_webhook"}
  MaxFaults = 1
INVARIANTS
  TypeOK
  OneDialAtATime
  ClaimIsKept
  DialInv
PROPERTIES
  RedialOnlyAfterLostAnswer
  PhoneOrder
  NoSecondAttemptSameDay
  AttemptsNeverDecrease
CHECK_DEADLOCK FALSE
SYMMETRY MCSymmetry
