CONSTANTS
    Limit = 1
    Capacity = 2
    MaxWritten = 4
    BodyLimit = 2
    MaxTitles = 6
    Jobs <- MCJobs
SPECIFICATION FairSpec
INVARIANTS
    TypeOK
    NothingLeftBehind
    SummaryComplete
    SignalsOwnBrowser
PROPERTIES
    WriterNotBlocked
    EndsInTime
    RefinesTaskExecutor
CHECK_DEADLOCK FALSE
