\* Two threads, two swaps each: the empty array, one of a single element, and
\* more elements than one swap touches; without -S each thread gets 0 or 2.
CONSTANTS
    ThreadCount = 2
    SharedLengths = {0, 1, 3}
    PrivateLengths = {1, 4, 5}
    MaxSwaps = 2
SPECIFICATION Spec
INVARIANTS
    TypeOK
    SwapsPermute
    RacesLoseFewElements
