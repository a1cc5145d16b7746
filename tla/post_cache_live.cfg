\* No crash, a thread of up to three levels: the flush fails no check, no post
\* is lost, and the cache ends as the chain has it.
CONSTANTS
    a = a
    b = b
    c = c
    Url = {a, b, c}
    NoParent = NoParent
    Kinds = {"edit", "delete", "recreate", "vote"}
    MaxOps = 4
    MaxFeed = 3
    MaxCrashes = 0
    MaxGap = 2
    Lagging = {}
SPECIFICATION FairSpec
INVARIANTS NoLostPost NoFault
PROPERTIES Converges 
