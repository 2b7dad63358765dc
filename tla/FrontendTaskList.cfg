CONSTANTS
  Tasks = {"decide", "register", "benefit"}
  Decisions = {"decide"}
  Kinds = {"unknown", "gkv", "pkv"}
  Choices = {"gkv", "pkv"}
  FirstKind = "unknown"
  Planned <- MCPlanned
  MaxInFlight = 2
  Page = Page
  NoRow = NoRow
  NoCall = NoCall
  NoAnswer = NoAnswer
SPECIFICATION Spec
INVARIANTS
  ErrorTellsDivergence
  BlockedIsHonest
