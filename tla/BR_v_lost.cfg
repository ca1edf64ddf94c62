\* A run that fails in the second its predecessor completed
SPECIFICATION Spec
CONSTANTS
  MaxTime = 4
  MaxEdits = 0
  Interval <- MCShortInterval
  Deadline <- MCDeadline
  TTL = 1
  BucketLen = 2
  Tolerance = 1
  MaxLag = 9
  Specs <- E2Only
  Probes <- GoodProbe
  ForceTimes = {}
  ForceE4Times = {}
  CredStates = {"ok"}
  Faults = {}
PROPERTIES NoFailureLost
