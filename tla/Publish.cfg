SPECIFICATION FairSpec
CONSTANTS
    Jobs = {j1, j2, j3}
    j3 = j3
    Tasks = {t1, t2}
    t2 = t2
    Repositories = {r1}
    TaskOf <- MCTaskOf
    RepositoryOf <- OneRepository
    Blocked <- MCBlocked
    None = none
    Outside = {"create", "push"}
    MaxOutside = 1
    MaxFaults = 2
INVARIANTS
    TypeOK
    OneCommit
    CompleteIsPublished
    OnlyOwnRepositories
PROPERTIES
    BranchOnlyGrows
    PublicationCompletes
CHECK_DEADLOCK FALSE
