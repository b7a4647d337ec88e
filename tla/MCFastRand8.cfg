\* Every seed of the 8-bit register, all the way round.
CONSTANTS
    W = 8
    Taps <- Taps8
    InitialSeeds <- AllSeeds
    Rands <- AllSeeds
SPECIFICATION Spec
INVARIANT FullPeriod
PROPERTY NeverZeroAgain
