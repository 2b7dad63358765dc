\* The templates of the repository with the facts clients send, and templates of
\* one task with every rule of a few clauses.
CONSTANTS
  MaxDate = 100
  MaxFloat = 2
  Depth <- MCDepth
  Templates <- MCTemplates
  Bodies <- MCBodies
  Patches <- MCPatches
SPECIFICATION Spec
INVARIANTS
  DependenciesCanBeMet
  OneInsuranceTask
  ParentsDecide
  RunnerAgrees
  RulesMean
PROPERTY ChoicesStay
