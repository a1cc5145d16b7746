CONSTANTS
    Accounts = {1, 2, 3, 4}
    Shapes <- FivePosts
    Stats <- TwoRows
    Pairs <- FollowPairs
    States = {0, 1, 3}
    Kinds = {"rescore", "delete", "defer", "recreate", "reblog", "follow", "hide", "pin", "close"}
    MaxDate = 1
    MaxChanges = 2
    Month = 1
    Window = {0, 1}
    Walks <- AllWalks
    Limits = {1, 2}
SPECIFICATION Spec
CONSTRAINT Relevant
INVARIANTS WalkComplete GivenOnce
PROPERTIES StopsOnlyAtTies
