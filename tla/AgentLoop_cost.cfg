\* Requests that cost money, and a ceiling of one request.
CONSTANTS
  Calls = {"look"}
  Files = {"f"}
  Tracked = {"f"}
  Versions = {"absent", "v0", "cheat"}
  Absent = "absent"
  Cheats = {"cheat"}
  Kind <- MCKind
  Target <- MCTarget
  Base <- MCBase
  StatOf <- MCStatOf
  PlanModes = {"auto"}
  RepeatedCallWarnAt = 2
  RepeatedCallEscalateAt = 3
  OscillationHistory = 4
  OscillationEscalateAt = 2
  NoProgressWindow = 3
  VerifyFailEscalateAt = 2
  MaxRepairIters = 2
  StepBudget = 3
  CostCeiling = 1
  Prices = {0, 1}
  MaxBatch = 2
  MaxResumes = 1
  NewEachTime = {}
  Meddling = FALSE
  NoCall = NoCall
  NotLanded = NotLanded
SPECIFICATION Spec
PROPERTY CostCeilingHolds
