CONSTANTS
    server = server  cli = cli  t1 = t1  t2 = t2  p1 = p1  s1 = s1  s2 = s2
    Nil = Nil
    Ids = {s1}
    Projects = {p1}
    Engines = {server, cli}
    Threads = {t1, t2}
    EngineOf <- ServerAndCli
    Calls = {"Spawn", "Revive", "Stop", "ReconcileAll"}
    Faults = {"agent", "store", "git", "zellij", "slow", "blind", "deaf", "cancel", "crash", "reboot"}
SPECIFICATION Spec
INVARIANTS TypeOK WorktreesAccounted RowsKeepWorktree EndIsFinal EndIsAnnounced
PROPERTIES RefinesBoard
CHECK_DEADLOCK FALSE
