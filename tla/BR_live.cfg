\* Progress of the reconciler, with no fairness on the clock
SPECIFICATION FairSpec
CONSTANTS
  MaxTime = 2
  MaxEdits = 0
  Interval <- MCShortInterval
  Deadline <- MCDeadline
  TTL = 1
  BucketLen = 1
  Tolerance = 1
  MaxLag = 9
  Specs <- WithE3
  Probes <- GoodProbe
  ForceTimes = {1}
  ForceE4Times = {}
  CredStates = {"ok", "missing"}
  Faults = {}
PROPERTIES   LongGapIsReported
