SPECIFICATION Spec
CONSTANTS
    Pids = {p1, p2, p3}
    Starters = {s1, s2}
    None = None
    MaxFaults = 2
PROPERTIES StartEnsuresDaemon
CHECK_DEADLOCK FALSE
