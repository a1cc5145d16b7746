\* Two crashes, stubs of undeletes: rows catch up with the chain at payout.
CONSTANTS
    a = a
    b = b
    Url = {a, b}
    NoParent = NoParent
    Kinds = {"edit", "delete", "recreate", "vote", "payout"}
    MaxOps = 4
    MaxFeed = 3
    MaxCrashes = 2
    MaxGap = 2
    Lagging = {}
SPECIFICATION FairSpec
PROPERTIES SyncedUponPayout
