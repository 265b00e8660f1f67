SPECIFICATION FairSpec
CONSTANTS
  Objects = {s1, s2}
  MaxPipes = 2
CHECK_DEADLOCK FALSE
INVARIANTS
  ReportedAsItEnded
  InterruptsIgnoredWhileMonitored
  NothingLeaks
PROPERTIES
  EndsAreReported
