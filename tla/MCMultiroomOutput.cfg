SPECIFICATION FairSpec
CONSTANTS
    PacketFrames = 2
    Capacity = 3
    MaxWrite = 2
    MaxFrames = 4
    MaxEpoch = 5
INVARIANTS TypeOK PacketOnItsTimeline LatencyCoversUndelivered StoppedMeansClosed ProgressHasRenderer OfferStillHolds
PROPERTIES ImplementsTimeline HostCallsEnd FlushReachesReceivers ForcedTailDrains FailureStopsPlayback
