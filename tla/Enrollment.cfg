SPECIFICATION FairSpec
CONSTANTS
  Contact <- MCContact
  Phoned <- MCPhoned
  Enrolled <- MCContact
  Processor = {o1}
  None = None
  Threshold = 4
  LowRatio = 2
  Page = 2
  MaxActs = 3
  MaxOthers = 1
  MaxFaults = 1
INVARIANTS
  TypeOK
PROPERTIES
  UnenrolledIsNotDialed
  EnrolledIsDialed
  UnenrolledIsForgotten
CHECK_DEADLOCK FALSE
