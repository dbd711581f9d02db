\* A path the base commit does not have, and contents that gut a test.
CONSTANTS
  Calls = {"edit", "new"}
  Files = {"f", "g"}
  Tracked = {"f"}
  Versions = {"absent", "v0", "cheat"}
  Absent = "absent"
  Cheats = {"cheat"}
  Kind <- MCKind
  Target <- MCTarget
  Base <- MCBase
  StatOf <- MCStatOf
  PlanModes = {"auto"}
  RepeatedCallWarnAt = 2
  RepeatedCallEscalateAt = 3
  OscillationHistory = 4
  OscillationEscalateAt = 2
  NoProgressWindow = 3
  VerifyFailEscalateAt = 2
  MaxRepairIters = 2
  StepBudget = 3
  CostCeiling = 1
  Prices = {0}
  MaxBatch = 2
  MaxResumes = 1
  NewEachTime = {}
  Meddling = FALSE
  NoCall = NoCall
  NotLanded = NotLanded
SPECIFICATION Spec
INVARIANT NoCheatLands
