\* One process at a time: what a crash leaves behind.
CONSTANTS
  Procs = {p1}
  Works = {"base", "good", "cheat"}
  Base = "base"
  Flagged = {"cheat"}
  MaxCommits = 2
  MaxTrouble = 1
  Absent = Absent
  NoBranch = NoBranch
  NotLanded = NotLanded
  p1 = p1
SPECIFICATION Spec
INVARIANT CrashedRunsCanGoOn
