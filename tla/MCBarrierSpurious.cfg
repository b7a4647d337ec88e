\* What is left of the barrier when pthread_cond_wait may return early.  A
\* wakeup that is not owed can leave the last threads waiting for ever.
CONSTANTS
    Threads = {t1, t2, t3}
    NoThread = NoThread
    SpuriousWakeups = TRUE
    MaxRounds = 3
SYMMETRY ThreadSymmetry
SPECIFICATION Spec
INVARIANTS
    LockInv
    CounterCountsCalls
CHECK_DEADLOCK FALSE
