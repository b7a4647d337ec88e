\* Where the first stores go.
CONSTANTS
    ThreadCount = 2
    Jobs <- SequentialStores
SPECIFICATION Spec
INVARIANT
    StoresStartInOwnSection
