\* A fast path overlaps a recompute; a third request returns to the old facts.
CONSTANTS
  Facts <- MCFacts
  Patches <- MCDecisionPatches
  Normalize <- MCNormalize
  Planner <- MCPlanner
  TaskKeys = {"certificate", "decide", "register"}
  Decisions = {"decide"}
  Targets = {"todo", "done"}
  Requests = {r1, r2}
  MaxRequests = 3
SPECIFICATION Spec
PROPERTY EligibleIsReactivated
