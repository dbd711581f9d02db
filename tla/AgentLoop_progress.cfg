\* The thresholds of the source; two edits that rework one line.
CONSTANTS
  Calls = {"edit", "undo"}
  Files = {"f"}
  Tracked = {"f"}
  Versions = {"absent", "v0", "one", "two"}
  Absent = "absent"
  Cheats = {}
  Kind <- MCKind
  Target <- MCTarget
  Base <- MCBase
  StatOf <- MCStatOf
  PlanModes = {"auto"}
  RepeatedCallWarnAt = 2
  RepeatedCallEscalateAt = 4
  OscillationHistory = 4
  OscillationEscalateAt = 2
  NoProgressWindow = 5
  VerifyFailEscalateAt = 3
  MaxRepairIters = 3
  StepBudget = 6
  CostCeiling = 1
  Prices = {0}
  MaxBatch = 1
  MaxResumes = 0
  NewEachTime = {}
  Meddling = FALSE
  NoCall = NoCall
  NotLanded = NotLanded
SPECIFICATION HistorySpec
INVARIANT NoProgressIsReal
