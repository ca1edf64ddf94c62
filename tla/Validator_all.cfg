\* Scripts, locks and a producer that changes the repository meanwhile
SPECIFICATION FairSpec
CONSTANTS
  Formats = {"walg", "restic"}
  Segments = {"w1", "w2"}
  SampleTarget = 2
  RetryLock = 1
  Deadline <- MCDeadline
  StaleAge = 2
  Noises <- MCNoises
  Damages = {"w1", "w2", "index"}
  MaxLocks = 2
  Snapshots = {"s1", "s2"}
  Taken <- MCTaken
  Text <- MCText
  LogLimit = 18
INVARIANTS  LiveLocksAreRespected
PROPERTIES StaleLocksGo ClaimsNewestSnapshot
