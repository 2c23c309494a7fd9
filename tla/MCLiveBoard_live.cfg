SPECIFICATION FairSpec
CONSTANTS
    tab = tab
    server = server
    hook = hook
    Nobody = Nobody
    Boards <- OneBoard
    Writers <- TwoWriters
    Servers <- OneServer
    bufferSize = 1
    MaxChanges = 3
    MaxFaults = 2
    Nil <- Nobody
INVARIANTS TypeOK CaughtUp
PROPERTY BoardConverges
