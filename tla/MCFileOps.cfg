\* Two threads; descriptors for both and one more; room for three files with
\* contents out of at most eight.
CONSTANTS
    ThreadCount = 2
    NumFiles = {1, 2}
    MaxDescriptors = 3
    MaxBlocks = 3
    MaxPrograms = 4
    MaxCalls = 2
SPECIFICATION Spec
INVARIANTS
    TypeOK
    LeaksOnFullDeviceOnly
    NewestFilesSurvive
    RenameMovesThoseBeforeAGap
