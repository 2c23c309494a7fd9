CONSTANTS
    server = server  cli = cli  t1 = t1  t2 = t2  p1 = p1  s1 = s1  s2 = s2
    Nil = Nil
    Ids = {s1, s2}
    Projects = {p1}
    Engines = {server}
    Threads = {t1}
    EngineOf <- SameProcess
    Calls = {"Spawn", "Fork", "Restart", "Revive", "EnsureOrchestrator", "RemoveProject", "Stop", "Reconcile", "ReconcileAll"}
    Faults = {"agent", "git", "store", "zellij", "deaf", "reboot"}
SPECIFICATION Spec
SYMMETRY IdSymmetry
INVARIANTS LiveSessionHasRow
PROPERTIES SweepOnlyDead
CHECK_DEADLOCK FALSE
