\* One small instance of each component around the run of a server.
CONSTANTS
  Prompts = {a1, a2}
  MaxCalls = 2
  NoPrompt = NoPrompt
  MaxId = 3
  MaxEvents = 1
  Runs = {1, 2}
  Members = {leader, child1, child2}
  Leader = leader
SPECIFICATION ServerSpec
INVARIANTS
  ServerTypeOK
  OnlyTheCancelledStop
  EventsBeforeAnswer
  TimeoutKillsTheGroup
PROPERTIES
  CancelPreempts
  EveryRequestSettles
  CommandReturns
CHECK_DEADLOCK FALSE
