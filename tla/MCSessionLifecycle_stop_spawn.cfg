CONSTANTS
    server = server  cli = cli  t1 = t1  t2 = t2  p1 = p1  s1 = s1  s2 = s2
    Nil = Nil
    Ids = {s1}
    Projects = {p1}
    Engines = {server}
    Threads = {t1, t2}
    EngineOf <- SameProcess
    Calls = {"Spawn", "Stop"}
    Faults = {}
SPECIFICATION Spec
INVARIANTS LiveSessionHasRow
CHECK_DEADLOCK FALSE
