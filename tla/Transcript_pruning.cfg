\* A provider whose call identifiers restart with every reply.
CONSTANTS
  Asks = {"a", "b"}
  Providers = {"hermes"}
  ResultSizes = {1, 4}
  Placeholder = 2
  Budget = 8
  MaxBatch = 2
  MaxTurns = 3
  NoAsk = NoAsk
SPECIFICATION TranscriptSpec
INVARIANTS
  PrunedWasAskedAgain
CHECK_DEADLOCK FALSE
