\* Crashes, also in mid flush, a lagging node, and payments of deleted posts
\* that make the flush raise: the cache cursor stays safe.
CONSTANTS
    a = a
    b = b
    Url = {a, b}
    NoParent = NoParent
    Kinds = {"edit", "delete", "recreate", "vote", "pay", "pay_deleted",
             "reparent"}
    MaxOps = 4
    MaxFeed = 4
    MaxCrashes = 2
    MaxGap = 2
    Lagging = {a, b}
SPECIFICATION Spec
SYMMETRY UrlSymmetry
INVARIANTS TypeOK SafeGap DeletedNotCached InsertIsNew PendingIsCurrent
