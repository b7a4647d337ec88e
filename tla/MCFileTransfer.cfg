\* Three calls of each function, on files shorter and longer than asked for,
\* with chunks that divide the length and chunks that do not.
CONSTANTS
    Functions = {"read_forward", "read_backward", "write_forward"}
    FileLengths = {0, 1, 3, 6, 7}
    BlockSizes = {1, 2, 3, 8}
    Capacity = 16
    MaxCalls = 3
SPECIFICATION Spec
INVARIANTS
    TypeOK
    ForwardReadsOnce
    BackwardSkipsFirstChunk
    WritesAreAppended
