SPECIFICATION Spec
CONSTANTS
    Tasks = {t1}
    MaxActive = 1
    Cancellers = {c1}
    Outcomes = {"completed", "cancelled"}
    Nobody = nobody
    MaxFaults = 2
CONSTRAINTS NoSteering
INVARIANTS
    TypeOK
    NoOrphanSession
    CompletedHasOutput
    FinishedIsAnnounced
PROPERTIES
    NoUnrequestedCancel
    VerdictBeforeDelete
    DeletedOnlyWhenDone
    ImplementsRemoteSlots
