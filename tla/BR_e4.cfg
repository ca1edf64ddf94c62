\* E4 on schedule and on demand, the spec edited meanwhile
SPECIFICATION Spec
CONSTANTS
  MaxTime = 4
  MaxEdits = 1
  Interval <- MCE4Interval
  Deadline <- MCDeadline
  TTL = 1
  BucketLen = 2
  Tolerance = 1
  MaxLag = 9
  Specs <- E4Specs
  Probes <- GoodProbe
  ForceTimes = {}
  ForceE4Times = {1}
  CredStates = {"ok"}
  Faults = {"clear"}
INVARIANTS TypeOK ObservedSpecIsShown 
PROPERTIES SpawnsAreSequenced NewestRunDecides LevelsArePromised
