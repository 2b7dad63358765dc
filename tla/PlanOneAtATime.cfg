\* One request at a time.
CONSTANTS
  Facts <- MCFacts
  Patches <- MCPatches
  Normalize <- MCNormalize
  Planner <- MCPlanner
  TaskKeys = {"certificate", "decide", "register"}
  Decisions = {"decide"}
  Targets = {"todo", "in_progress", "done", "skipped"}
  Requests = {r1}
  MaxRequests = 5
SPECIFICATION Spec
INVARIANTS
  PatchesSurvive
  UntouchedTasksFollowPlan
  CompletedWhileDone
PROPERTIES
  RecomputeKeepsDone
  CompletionRespectsDependencies
  ImplementsAtomicPlan
