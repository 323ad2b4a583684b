\* Pool, API and seed script on one runbook index.
SPECIFICATION FairSpec
CONSTANTS
    r1 = r1
    a1 = a1
    u1 = u1
    Loader = Loader
    Retrievers <- OneRetriever
    Requests <- OneRequest
    Files <- TwoFiles
    Uuids <- OneUuid
    MaxEdits = 1
    MaxDeletes = 1
    MaxFaults = 1
INVARIANT TypeOK
INVARIANT HandleMeansIndex
INVARIANT ExistingIndexIsKept
INVARIANT AnsweredWritesStay
PROPERTY ReloadsSucceed
CHECK_DEADLOCK FALSE
