\* Two forks of up to four blocks, more than verify_head goes back, and a crash,
\* under fair scheduling; a post may be paid for in its own block.
CONSTANTS
    Bodies <- AllOps
    Trail = 1
    MaxGap = 3
    ForkLimit = 3
    Chunk = 2
    MaxDepth = 4
    MaxHead = 6
    MaxForks = 2
    MaxCrashes = 1
SPECIFICATION FairSpec
INVARIANTS TypeOK MatchIsPrefix RowsMatchBlocks
PROPERTIES IsChainFollower Follows
