SPECIFICATION Spec
CONSTANTS
    NTasks = 2
    Limit = 1
    Published = {2}
    Lines <- MCLines
    MaxLines = 5
    MaxFaults = 2
INVARIANTS TypeOK AckedWasSpoken OneRepeatPerFailure SpokenInOrder NoEventsOfDeleted
PROPERTIES SseFaithful AllAnnounced Watched ConsumersEnd
CHECK_DEADLOCK FALSE
