\* E2 with E3 or with E4, every call failing now and then
SPECIFICATION Spec
CONSTANTS
  MaxTime = 2
  MaxEdits = 0
  Interval <- MCShortInterval
  Deadline <- MCDeadline
  TTL = 1
  BucketLen = 1
  Tolerance = 1
  MaxLag = 9
  Specs <- E3OrE4
  Probes <- GoodProbe
  ForceTimes = {}
  ForceE4Times = {}
  CredStates = {"ok", "malformed"}
  Faults = {"list", "create", "patch", "logs"}
INVARIANTS AtMostOneInFlight 
