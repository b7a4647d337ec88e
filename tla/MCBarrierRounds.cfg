\* The barrier when pthread_cond_wait returns only on a broadcast.  No symmetry,
\* which is unsound for FairRefinement.
CONSTANTS
    Threads = {t1, t2, t3, t4, t5}
    NoThread = NoThread
    SpuriousWakeups = FALSE
    MaxRounds = 3
SPECIFICATION FairSpec
INVARIANTS
    IInv
    RoundSafety
    NobodyStranded
    NeverTwoAhead
PROPERTIES
    Refinement
    FairRefinement
