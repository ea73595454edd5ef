SPECIFICATION FairSpec
CONSTANTS
  Service <- MCService
  AirPlay2 <- MCAirPlay2
  Name <- MCName
  Id = {1, 2, 3}
  ServiceName <- MCServiceName
  TextId <- MCTextId
  BareId <- MCBareId
  NameOf <- MCNameOf
  Rank <- MCRank
  Endpoint = {"name"}
  Locked = {"a"}
  MaxPairs = 2
  MaxScans = 3
  MaxResets = 1
  MaxRestarts = 1
INVARIANTS PairedReconnects
PROPERTIES PairingEnds PairedJoins
CHECK_DEADLOCK FALSE
