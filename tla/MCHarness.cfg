\* All kinds of client, set up well within the run time.
CONSTANTS
    ThreadCount = 3
    CommandLines <- Runs
    Clients = {"RunOps", "go", "goCounting"}
    CounterModulus = 3
    CastModulus = 8
    TotalModulus = 8
    NoThread = NoThread
    MaxSetup = 1
    MaxRun = 2
SPECIFICATION FairSpec
INVARIANTS
    TypeOK
    NobodyRunsEarly
    NobodyLeavesEarly
PROPERTIES
    Termination
    DoneIsForever
    KeepsItsPromise
