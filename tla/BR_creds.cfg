\* The credentials Secret comes and goes, the probe sees anything
SPECIFICATION Spec
CONSTANTS
  MaxTime = 3
  MaxEdits = 1
  Interval <- MCOnceInterval
  Deadline <- MCDeadline
  TTL = 1
  BucketLen = 2
  Tolerance = 2
  MaxLag = 1
  Specs <- E3OrBudget
  Probes <- SomeProbes
  ForceTimes = {}
  ForceE4Times = {}
  CredStates = {"ok", "missing", "malformed"}
  Faults = {}
INVARIANTS  ObservedSpecIsShown
PROPERTIES GapKeepsVerdicts
