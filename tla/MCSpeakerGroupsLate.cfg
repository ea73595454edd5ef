SPECIFICATION Spec
CONSTANTS
  Service <- MCService
  AirPlay2 <- MCAirPlay2
  Name <- MCName
  Id = {1, 2, 3, 4}
  ServiceName <- MCServiceName
  TextId <- MCTextId
  BareId <- MCBareId
  NameOf <- MCNameOf
  Rank <- MCRank
  Endpoint = {"name"}
  SavedGroups <- MCSavedGroups
  MaxGroups = 3
  MaxScans = 1
  MaxChanges = 1
  MaxEdits = 0
  MaxRestarts = 0
INVARIANT GroupReplacesSelection
CHECK_DEADLOCK FALSE
