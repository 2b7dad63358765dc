\* One plan, overlapping scans and PUTs, three days.
CONSTANTS
  p1 = p1
  p2 = p2
  e1 = e1
  e2 = e2
  k1 = k1
  k2 = k2
  Profiles = {p1}
  Emails = {e1, e2}
  NoEmail = NoEmail
  Blank = Blank
  Bodies <- MCTwoAddresses
  Tasks = {k1, k2}
  PlanOf <- MCOnePlan
  DueOn <- MCDueOn
  LookAhead = 1
  Clients = {c1, c2}
  Scans = {s1, s2}
  MaxDay = 2
  MaxChanges = 2
  MaxRotations = 0
  MaxFailures = 1
SYMMETRY MCSymmetry
SPECIFICATION Spec
INVARIANTS
  
  LinkWorks
PROPERTY RemindedDaily
