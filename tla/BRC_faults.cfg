\* The inputs change under the reconciler; failing calls, restarts and a child that cannot be owned
SPECIFICATION FairSpec
CONSTANTS
  Repositories <- FewRepositories
  Sources = {"a", "b"}
  Children = {"db", "elsewhere"}
  Bodies = {"initdb", "recovery"}
  Bootstrap <- MCBootstrap
  Foreign = {"elsewhere"}
  Specs <- AllSlots
  MaxEdits = 2
  Faults = {"apply", "patch", "crash"}
INVARIANTS TypeOK SettledIsCurrent
PROPERTIES GapKeepsChild Converges
CHECK_DEADLOCK FALSE
