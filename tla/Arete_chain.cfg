\* From the bucket to the child: a probe call by call, lost events, two formats
SPECIFICATION AreteFairSpec
CONSTANTS
  MaxTime = 2
  MaxEdits = 0
  Interval <- MCInterval
  Deadline <- MCDeadline
  TTL = 1
  BucketLen = 1
  Tolerance = 1
  MaxLag = 1
  Specs <- MCSpecs
  Probes <- MCProbes
  ForceTimes = {}
  ForceE4Times = {}
  CredStates = {"ok"}
  Faults = {}
  Formats = {"walg", "restic"}
  MaxLost = 1
  S3Faults = {"sentinels", "get"}
  Sources = {"a", "b"}
  Children = {"db"}
  Bodies = {"initdb", "recovery"}
  Bootstrap <- MCBootstrap
  Foreign = {}
  Decisions <- MCDecisions
  Contents <- MCContents
  MaxTouches = 0
  BRCFaults = {"map"}
INVARIANTS EmptyMeansEmpty
PROPERTIES  ChildFollows
