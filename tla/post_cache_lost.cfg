\* A deferred insert behind the cursor, and a crash.
CONSTANTS
    a = a
    b = b
    Url = {a, b}
    NoParent = NoParent
    Kinds = {"delete"}
    MaxOps = 4
    MaxFeed = 4
    MaxCrashes = 1
    MaxGap = 2
    Lagging = {}
SPECIFICATION Spec
INVARIANTS NoLostPost
