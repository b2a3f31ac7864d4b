SPECIFICATION Spec
CONSTANTS
    Tasks = {t1, t2}
    MaxActive = 1
    Cancellers = {}
    Outcomes = {"failed"}
    Nobody = nobody
    MaxFaults = 1
SYMMETRY Symmetry
CONSTRAINTS NoSteering NoCancelling
INVARIANTS
    WithinCapacity
