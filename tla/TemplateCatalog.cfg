\* Two plans, two requests, two processes that start, one file replaced.
CONSTANTS
  v1 = v1
  v2 = v2
  v02 = v02
  a = a
  b = b
  p1 = p1
  p2 = p2
  r1 = r1
  r2 = r2
  s1 = s1
  s2 = s2
  Versions = {1, 2}
  Defaults = {1, 2}
  Keys = {v1, v2, v02}
  KeyOf <- MCKeyOf
  VersionOf <- MCVersionOf
  Drafts = {2}
  Contents = {a, b}
  Valid <- MCValid
  NoFile = NoFile
  NoHash = NoHash
  NoRow = NoRow
  NoPlan = NoPlan
  Idle = Idle
  Plans = {p1, p2}
  Requests = {r1, r2}
  Starts = {s1, s2}
  MaxByHand = 1
SYMMETRY MCSymmetry
SPECIFICATION Spec
INVARIANTS
  PlansAreValid
  UpgradesClimb
PROPERTIES
  PublishedForGood
  OldPlansStable
  BootstrapRegisters
