SPECIFICATION LiveSpec
CONSTANTS
    agent = agent
    shell = shell
    NoSession = NoSession
    NoSize = NoSize
    Sessions = {agent, shell}
    FocusSessions = {agent}
    narrow = narrow
    wide = wide
    Sizes = {narrow, wide}
    Frames = 2
    MaxReconnects = 1
    MaxConns = 3
    MaxQueue = 3
INVARIANTS
    TypeOK
    ScreenIsTheSockets
    PtyFollowsGrid
    NeverStranded
    ReplayIsScrolled
    PaletteRefreshed
PROPERTIES
    WorkingConnectionStays
    Settles
CHECK_DEADLOCK FALSE
