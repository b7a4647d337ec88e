\* Every command line of up to five arguments.
CONSTANTS
    MaxArgs = 5
    UIntModulus = 4
    ULongModulus = 16
SPECIFICATION Spec
INVARIANTS
    ClientGetsItsArguments
    LimitsAreThoseAskedFor
    CrashesOnlyWithoutValue
