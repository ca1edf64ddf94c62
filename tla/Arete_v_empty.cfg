\* A store that cannot be listed for a moment, after the first backup
SPECIFICATION AreteSpec
CONSTANTS
  MaxTime = 2
  MaxEdits = 0
  Interval <- MCInterval
  Deadline <- MCDeadline
  TTL = 1
  BucketLen = 1
  Tolerance = 1
  MaxLag = 1
  Specs <- MCSpecs
  Probes <- MCProbes
  ForceTimes = {}
  ForceE4Times = {}
  CredStates = {"ok"}
  Faults = {}
  Formats = {"walg", "restic"}
  MaxLost = 1
  S3Faults = {"list"}
  Sources = {"a", "b"}
  Children = {"db"}
  Bodies = {"initdb", "recovery"}
  Bootstrap <- MCBootstrap
  Foreign = {}
  Decisions <- MCDecisions
  Contents <- MCContents
  MaxTouches = 0
  BRCFaults = {"map"}
INVARIANTS EmptyMeansEmpty
