CONSTANTS
    Ids = {1, 2}
    Workers = {w1, w2}
    Requests = {r1}
    Operations = {"pull", "show"}
    Tasks = {t1, t2}
    All = All
    NoKind = NoKind
    NoTask = NoTask
    NoRecord = NoRecord
    NoId = NoId
    NoOperation = NoOperation
    MaxRetry = 1
    MaxChanges <- SecondChanges
    MaxFaults = 2
SPECIFICATION FairSpec
INVARIANTS TypeOK ChangesReachRegistry
PROPERTIES GoesBackOnlyIfOvertaken RegistryCatchesUp
