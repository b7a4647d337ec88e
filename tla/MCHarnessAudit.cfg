\* The accounts of all kinds of client, with a set-up shorter than the timed
\* run, or as long, and with waits that may return early.
CONSTANTS
    ThreadCount = 2
    CommandLines <- EndingRuns
    Clients = {"RunOps", "go", "goCounting"}
    CounterModulus = 5
    CastModulus = 5
    TotalModulus = 15
    NoThread = NoThread
    MaxSetup = 1
    MaxRun = 1
    MaxCalls = 2
SPECIFICATION AuditSpec
INVARIANTS
    ReportCountsEveryCall
    OverrunAtMostOneCall
    WindowCoversCalls
    CountedRunIsNearlyExact
    KilledOnlyAfterLongSetup
    RunLastsUntilItsLimit
