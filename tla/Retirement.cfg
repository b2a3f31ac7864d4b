SPECIFICATION QuietFairSpec
CONSTANTS
    Tasks = {t1}
    MaxActive = 1
    Cancellers = {c1}
    Outcomes = {"failed"}
    Nobody = nobody
    MaxFaults = 1
PROPERTIES
    LiveSessionsGo
