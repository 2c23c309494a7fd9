CONSTANTS
    server = server  cli = cli  t1 = t1  t2 = t2  p1 = p1  s1 = s1  s2 = s2
    Nil = Nil
    Ids = {s1}
    Projects = {p1}
    Engines = {server}
    Threads = {t1, t2}
    EngineOf <- SameProcess
    Calls = {"Spawn", "Restart", "Revive", "RemoveProject", "ReconcileAll"}
    Faults = {"agent", "git", "zellij", "reboot"}
SPECIFICATION FairSpec
PROPERTIES ReviveSparesHealthy CallsReturn
CHECK_DEADLOCK FALSE
