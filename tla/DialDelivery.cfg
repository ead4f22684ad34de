SPECIFICATION Spec
CONSTANTS
  StaleAfter = 6
  MaxDelay = 10
  MaxOutages = 2
  DrainPeriod = 2
  SweepPeriod = 6
  RecentDial = 20
  MaxClosings = 2
INVARIANTS
  DueRowIsDialed
