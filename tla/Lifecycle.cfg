SPECIFICATION Spec
CONSTANTS
    Pids = {p1, p2, p3}
    Starters = {s1, s2}
    None = None
    MaxFaults = 2
INVARIANTS TypeOK ServingIsReachable
PROPERTIES StartedIsServing StartBringsUp
CHECK_DEADLOCK FALSE
