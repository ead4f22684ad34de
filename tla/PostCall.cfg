SPECIFICATION FairSpec
CONSTANTS
  CallKey = {c1}
  TheCall = c1
  Trigger = {t1}
  RunId = {r1, r2}
  Evaluator = {h1, h2}
  Executor = {x1}
  None = None
  Window = FALSE
  MaxAttempts = 1
  JobAttempts = 1
  Faults = {"slow_processor", "overlap", "crash", "rows_missing", "crm_lookup", "note_answer_lost", "complete_lost", "stall", "write_lost", "claim_error"}
  MaxFaults = 1
  MaxEvaluations = 2
  MaxDeliveries = 1
  Kinds = {"outbound", "test", "inbound", "legacy"}
INVARIANTS
  TypeOK
  WrittenBackOnce
  OneContactPerCaller
  OneSendPerTrigger
CHECK_DEADLOCK FALSE
PROPERTIES CallCompletes
