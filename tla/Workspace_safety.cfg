\* One small instance of each component beside the run.
CONSTANTS
  p1 = p1
  p2 = p2
  u1 = u1
  u2 = u2
  m1 = m1
  m2 = m2
  m3 = m3
  cmd1 = cmd1
  cmd2 = cmd2
  id1 = id1
  id2 = id2
  Runs = {p1, p2}
  Works = {u1, u2}
  MaxShas = 2
  MaxCommits = 2
  MaxMoves = 2
  NoSha = NoSha
  Paths = {q1, q2}
  AgentsMd = q1
  Contents = {c1, c2}
  BinaryContents = {c2}
  NoFile = NoFile
  NoBackup = NoBackup
  Marker = Marker
  Torn = Torn
  Keys = {"test", "build"}
  Manifests = {m1, m2}
  Commands = {cmd1, cmd2}
  Detected <- MCDetected
  Guides <- MCGuides
  Clients = {p1, p2}
  MaxOps = 4
  NoHash = NoHash
  NoRecord = NoRecord
  Nothing = Nothing
  Accounts = {"a1", "a2"}
  Values = {"v1"}
  MachineKeys = {u1, u2}
  Environment <- MCEnvironment
  Writers = {p1, p2}
  NoKey = NoKey
  NoStore = NoStore
  TornStore = TornStore
  NoValue = NoValue
  Suites <- MCSuites
  Repetitions = 2
  Rejected = Rejected
  Asks = {"a", "b"}
  Providers = {"native", "hermes"}
  ResultSizes = {1, 4}
  Placeholder = 2
  Budget = 8
  MaxBatch = 2
  MaxTurns = 3
  NoAsk = NoAsk
  ReplyTexts <- MCReplyTexts
  ServerTurns <- MCServerTurns
  NoId = NoId
  MaxAnthropicTurns = 2
  SourceTexts <- MCSourceTexts
  EditCalls <- MCEditCalls
  NoCall = NoCall
  Models = {m1, m2, m3}
  FileOf <- MCFileOf
  Rungs <- MCRungs
  ReportedSizes = {0}
  DefaultContext = 8192
  ConstrainedDecode = TRUE
  Trials = 1
  TrialOutcomes <- MCTrialOutcomes
  Probers = {p1, p2}
  MaxProbes = 2
  Missed = Missed
  NoProfile = NoProfile
  EmptyProfile = EmptyProfile
  NoRun = NoRun
  Tasks = {u1, u2}
  RunIds = {r1}
  FirstRuns <- MCFirstRuns
  MaxVersion = 1
  NoRunId = NoRunId
  call1 = call1
  call2 = call2
  f1 = f1
  f2 = f2
  f3 = f3
  NakedReplies <- MCReplies
  Meaning <- MCMeaning
  SafePaths = {"q"}
  NoName = NoName
  NoPath = NoPath
  NoBlock = NoBlock
  EventStreams <- MCEventStreams
  NoCallId = NoCallId
  Outputs <- MCTexts
  OutputBudget = 4
  HeadLines = 1
  TailLines = 1
  MaxExtraFailures = 3
  ShellCommands <- MCShellCommands
  WorkspaceFiles <- MCWorkspaceFiles
  MissingFile = MissingFile
  Denylisted = {f2}
  EvidenceInWorkspace = FALSE
  MaxBytes = 10
  MatchCounts <- MCMatchCounts
  MaxMatchesPerFile = 2
  TopK = 1
  NoRef = NoRef
  MaxToolCalls = 2
SYMMETRY Interchangeable
SPECIFICATION WorkspaceSpec
INVARIANTS
  WorkspaceTypeOK
  RestoresItsOwn
  NoSilentOrphan
  DiffTellsEdits
  RequestIsWellFormed
  RepliesAreWhole
  EditsWhatItNames
  RunFitsItsModel
  EditorTellsTheTruth
  FailuresAreShown
  EvidenceIsWhole
PROPERTIES
  TempCommitLeavesNoTrace
  KeepsUserWork
  RejectRestores
  
  CredentialsAreKept
  VerdictsAreFair
CHECK_DEADLOCK FALSE
