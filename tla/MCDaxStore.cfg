\* Loads, and stores in every store mode.
CONSTANTS
    ThreadCount = 2
    Jobs <- LoadsAndStores
    MaxPosted = 2
SPECIFICATION StoreSpec
INVARIANTS
    StoreTypeOK
    LoadsStayMapped
    LaterStoresStayMapped
    CrashLosesOnlyCallsInFlight
