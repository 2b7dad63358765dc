\* Four tasks and up to three edges.
CONSTANTS
  Ids = {1, 2, 3, 4}
  EdgeLists <- MCEdgeLists
SPECIFICATION Spec
CHECK_DEADLOCK FALSE
INVARIANTS
  DependenciesFirst
  OutcomeIsRight
  ValidatedNeverCycles
  LeastFirst
