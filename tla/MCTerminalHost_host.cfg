SPECIFICATION FairSpec
CONSTANTS
    v1 = v1
    small = small
    Nobody = Nobody
    Conns <- OneViewer
    Sizes <- OneSize
    DefaultSize <- small
    ClientQueueSize = 2
    MaxOutput = 4
    MaxResizes = 2
    Nil <- Nobody
CHECK_DEADLOCK FALSE
INVARIANTS TypeOK NoGap ChannelsClosedOnce
PROPERTIES ImplementsStream FinishedHostExits QueuedOutputArrives
