\* One process at a time: what approve accepts.
CONSTANTS
  Procs = {p1}
  Works = {"base", "good", "cheat"}
  Base = "base"
  Flagged = {"cheat"}
  MaxCommits = 2
  MaxTrouble = 0
  Absent = Absent
  NoBranch = NoBranch
  NotLanded = NotLanded
  p1 = p1
SPECIFICATION Spec
INVARIANT DoneIsGreen
