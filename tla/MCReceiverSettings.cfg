SPECIFICATION Spec
CONSTANTS
  Service <- MCService
  AirPlay2 <- MCAirPlay2
  Name <- MCName
  Id = {1, 2, 3}
  ServiceName <- MCServiceName
  TextId <- MCTextId
  BareId <- MCBareId
  NameOf <- MCNameOf
  Rank <- MCRank
  Endpoint = {"none", "name", "ipv4"}
  MaxScans = 2
  MaxChanges = 2
  MaxRestarts = 1
INVARIANTS NoTwins KnownIdsResolve ChoiceKept
CHECK_DEADLOCK FALSE
