\* A buffer as deep as the forks.
CONSTANTS
    Bodies <- PostOps
    Trail = 2
    MaxGap = 4
    ForkLimit = 3
    Chunk = 2
    MaxDepth = 2
    MaxHead = 7
    MaxForks = 2
    MaxCrashes = 1
SPECIFICATION Spec
INVARIANTS RowsAreExact

PROPERTIES MicroForksStayInBuffer
