\* Three accounts, a portion of a half, a sweep of one account every other
\* block, and one interruption.
CONSTANTS
    a = a
    b = b
    c = c
    Account = {a, b, c}
    Spread = 2
    SweepEvery = 2
    SweepLimit = 1
    Batch = 2
    MaxChunks = 1
    MaxBreaks = 1
SPECIFICATION FairSpec
INVARIANTS TypeOK QueueMatchesSet
PROPERTIES EveryBlockAdvances Refreshed
