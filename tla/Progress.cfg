SPECIFICATION FairSpec
CONSTANTS
  Worker = {w1}
  Drain = {d1}
  Forcer = {}
  Handler = {h1}
  Poller = {p1}
  RowId = {r1, r2}
  CallId = {c1, c2}
  None = None
  LastDay = 1
  PhoneCount = 1
  MaxAttempt = 1
  Gap = 1
  ManualQueue = FALSE
  Faults = {"crash", "handler_crash", "early_webhook"}
  MaxFaults = 1
PROPERTIES
  DialingRowResolves
  DialedCallCompletes
  TerminalOutcomeApplied
CHECK_DEADLOCK FALSE
