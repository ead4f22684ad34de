SPECIFICATION Spec
CONSTANTS
  StaleAfter = 6
  MaxDelay = 10
  MaxOutages = 3
  Slot = {s1, s2}
  Idle = Idle
  CoverageAge = 3
  FallbackPeriod = 4
  CronPeriod = 2
  PollTicks = 1
  MaxQueued = 2
  MaxMissed = 2
SYMMETRY MCSymmetry
INVARIANTS
  TypeOK
  AgentIsPolled
PROPERTIES
  NoFailoverBesideHealthyEngine
