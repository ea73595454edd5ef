CONSTANTS
    Output = {o1}
    MaxStreams = 2
    MaxToggles = 0
    MaxRefreshes = 1
SPECIFICATION FairSpec
INVARIANTS ScanOnlyWithoutSessions SessionsHavePlayback
PROPERTIES RefreshServed UpdatesServed StopEnds
