CONSTANTS
    Accounts = {1, 2, 3}
    Shapes <- FivePosts
    Stats <- OneRow
    Pairs <- NoPairs
    States = {1}
    Kinds = {"delete", "defer", "recreate", "hide", "close"}
    MaxDate = 0
    MaxChanges = 2
    Apis = {"bridge", "condenser"}
    Roots = {1}
    MuteLists <- OneList
SPECIFICATION FairSpec
CONSTRAINT Relevant
INVARIANTS ThreadComplete NothingVeiled Connected
PROPERTIES Answered
