SPECIFICATION FairSpec
CONSTANTS
    Tasks = {t1}
    MaxActive = 1
    Cancellers = {}
    Outcomes = {"completed", "failed"}
    Nobody = nobody
    MaxFaults = 1
PROPERTIES
    SlotsComeBack
    DeadlineEnforced
    
