\* -max below -tc.
CONSTANTS
    ThreadCount = 2
    CommandLines <- TooFewCalls
    Clients = {"RunOps"}
    CounterModulus = 2
    CastModulus = 4
    TotalModulus = 4
    NoThread = NoThread
    MaxSetup = 1
    MaxRun = 1
SPECIFICATION FairSpec
PROPERTY Termination
