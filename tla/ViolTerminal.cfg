SPECIFICATION Spec
CONSTANTS
    Tasks = {t1}
    MaxActive = 1
    Cancellers = {c1}
    Outcomes = {"completed"}
    Nobody = nobody
    MaxFaults = 0
PROPERTIES
    TerminalIsFinal
