\* One tracked file, an edit, a read, and shell commands that are never the same.
CONSTANTS
  Calls = {"edit", "sh", "look"}
  NewEachTime = {"edit", "sh"}
  Files = {"f"}
  Tracked = {"f"}
  Versions = {"absent", "v0", "cheat"}
  Absent = "absent"
  Cheats = {"cheat"}
  Kind <- MCKind
  Target <- MCTarget
  Base <- MCBase
  StatOf <- MCStatOf
  PlanModes = {"auto"}
  RepeatedCallWarnAt = 1
  RepeatedCallEscalateAt = 2
  OscillationHistory = 3
  OscillationEscalateAt = 1
  NoProgressWindow = 2
  VerifyFailEscalateAt = 2
  MaxRepairIters = 2
  StepBudget = 2
  CostCeiling = 1
  Prices = {0}
  MaxBatch = 2
  MaxResumes = 1
  Meddling = TRUE
  NoCall = NoCall
  NotLanded = NotLanded
SPECIFICATION FairSpec
INVARIANTS
  TypeOK
  OnlyVouchedWorkLands
  RepeatedCallsAreBounded
  RepairsMatchFailures
  ReviewsAreShort
PROPERTIES
  LegalTransitions
  AbortStartsNothing
  KeepsContract
  AbortIsHonoured
  EveryRunRests
