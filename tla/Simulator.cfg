SPECIFICATION FairSpec
CONSTANTS
    Null = Null
    Names <- MCNames
    Length <- MCLength
    TaskIDPattern <- MCTaskIDPattern
    MetricKeyPattern <- MCMetricKeyPattern
    MaxBatchSize = 4
    MaxInt32 = 7
    MaxTimestampMillis = 20
    Unpartitioned = {8}
    MissingLimit = 2
    HistoryStatement = "repaired"
    Requests <- MCRequests
    MaxPosts = 2
    Foreign <- MCForeign
    HistoryQueries <- MCHistoryQueries
    Cutoffs = {0, 3}
    SimTasks = {1, 2}
    PrefixLength = 8
    BatchSize = 1
    Loss = 6
    LR = 7
    EvalLoss = 8
    EvalEvery = 3
    StartTS = 1
    Interval = 2
    Audit = TRUE
    MaxSteps <- MCMaxSteps
    MaxFaults = 1
INVARIANTS
    AcceptedIsStorable
    SeriesWithinLimit
    SummaryAgreesWithHistory
    PassMeansStored
PROPERTIES
    AuditPasses
CHECK_DEADLOCK FALSE
