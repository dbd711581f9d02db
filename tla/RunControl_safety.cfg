\* Two processes, either with the loop, but no loop beside a second or a rollback.
CONSTANTS
  Procs = {p1, p2}
  Works = {"base", "good", "cheat"}
  Base = "base"
  Flagged = {"cheat"}
  MaxCommits = 2
  MaxTrouble = 2
  Absent = Absent
  NoBranch = NoBranch
  NotLanded = NotLanded
  p1 = p1
  p2 = p2
SYMMETRY ProcSymmetry
SPECIFICATION Spec
INVARIANTS
  TypeOK
  OnlyGreenLands
  OfferedIsVouched
  CancelledLandsNothing
PROPERTIES
  TerminalIsFinal
  StashIsReturnedOrReported
