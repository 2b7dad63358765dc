\* Two plans, one PUT at a time, one scan at a time, a token rotated, failures.
CONSTANTS
  p1 = p1
  p2 = p2
  e1 = e1
  e2 = e2
  k1 = k1
  k2 = k2
  Profiles = {p1, p2}
  Emails = {e1, e2}
  NoEmail = NoEmail
  Blank = Blank
  Bodies <- MCBodies
  Tasks = {k1, k2}
  PlanOf <- MCPlanOf
  DueOn <- MCDueOn
  LookAhead = 1
  Clients = {c1}
  Scans = {s1}
  MaxDay = 2
  MaxChanges = 2
  MaxRotations = 1
  MaxFailures = 1
SPECIFICATION Spec
INVARIANTS
  ConsentedAddress
  OptOutReachesScans
  LinkWorks
PROPERTY RemindedDaily
