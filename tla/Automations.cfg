SPECIFICATION FairAutoSpec
CONSTANTS
  CallKey = {c1, c2}
  Trigger = {t1}
  RunId = {r1, r2}
  Evaluator = {v1, v2}
  Executor = {x1}
  None = None
  Window = TRUE
  MaxAttempts = 3
  JobAttempts = 2
  Faults = {"lookup_error", "redis_down", "insert_error", "claim_error", "lost_answer", "write_lost", "executor_crash", "evaluator_crash", "stall"}
  MaxFaults = 2
  MaxEvaluations = 1
INVARIANTS
  AutoTypeOK
  OneDeliveryUnlessDisturbed
  FinishedJobIsSettled
PROPERTIES
  ImplementsDelivery
CHECK_DEADLOCK FALSE
