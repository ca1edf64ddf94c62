\* What a succeeded E4 Job has read
SPECIFICATION Spec
CONSTANTS
  Formats = {"walg", "restic"}
  Segments = {"w1", "w2"}
  SampleTarget = 2
  RetryLock = 1
  Deadline <- MCDeadline
  StaleAge = 2
  Noises <- MCNoises
  Damages = {"base", "pack"}
  MaxLocks = 2
  Snapshots = {"s1", "s2"}
  Taken <- MCTaken
  Text <- MCText
  LogLimit = 18
INVARIANTS FullRetrievalMeansRead
