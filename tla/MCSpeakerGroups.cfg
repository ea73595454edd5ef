SPECIFICATION Spec
CONSTANTS
  Service <- MCService
  AirPlay2 <- MCAirPlay2
  Name <- MCName
  Id = {1, 2, 3, 4}
  ServiceName <- MCServiceName
  TextId <- MCTextId
  BareId <- MCBareId
  NameOf <- MCNameOf
  Rank <- MCRank
  Endpoint = {"name"}
  SavedGroups <- MCSavedGroups
  MaxGroups = 3
  MaxScans = 2
  MaxChanges = 2
  MaxEdits = 2
  MaxRestarts = 1
ACTION_CONSTRAINT Coarse
INVARIANTS AppliedGroupSelected ActiveGroupTruthful EditKept
PROPERTIES AppliedGroupShown
CHECK_DEADLOCK FALSE
