\* Two requests overlap.
CONSTANTS
  Facts <- MCFacts
  Patches <- MCOverlappingPatches
  Normalize <- MCNormalize
  Planner <- MCPlanner
  TaskKeys = {"certificate", "decide", "register"}
  Decisions = {"decide"}
  Targets = {"todo", "done", "skipped"}
  Requests = {r1, r2}
  MaxRequests = 4
SPECIFICATION Spec
SYMMETRY MCSymmetry
INVARIANTS
  PlannedTasksExist
  DependenciesExist
