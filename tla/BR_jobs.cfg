\* E2 and E3 on schedule and forced, the controller crashing anywhere
SPECIFICATION Spec
CONSTANTS
  MaxTime = 4
  MaxEdits = 0
  Interval <- MCShortInterval
  Deadline <- MCDeadline
  TTL = 1
  BucketLen = 2
  Tolerance = 1
  MaxLag = 9
  Specs <- WithE3
  Probes <- GoodProbe
  ForceTimes = {2}
  ForceE4Times = {}
  CredStates = {"ok"}
  Faults = {"crash"}
INVARIANTS AtMostOneInFlight
PROPERTIES SpawnsAreSequenced NewestRunDecides HonoredAfterFreshRuns
