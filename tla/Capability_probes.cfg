\* Three models, two of them with the same profile file, and one prober.
CONSTANTS
  m1 = m1
  m2 = m2
  m3 = m3
  Models = {m1, m2, m3}
  FileOf <- MCFileOf
  Rungs <- MCRungs
  ReportedSizes = {0}
  DefaultContext = 8192
  ConstrainedDecode = TRUE
  Trials = 1
  TrialOutcomes <- MCTrialOutcomes
  Probers = {"prober"}
  MaxProbes = 1
  Missed = Missed
  NoProfile = NoProfile
  EmptyProfile = EmptyProfile
  NoRun = NoRun
SPECIFICATION CapabilitySpec
INVARIANT FailedProbesFallBack
