SPECIFICATION FairSpec
CONSTANTS
  Addresses = 1
  MaxRequests = 3
  MaxCommands = 1
INVARIANTS SocketsOwned ReadyIsRecording AnswersInStep
PROPERTIES CancelStopsHandshake ConnectionEnds
CHECK_DEADLOCK FALSE
