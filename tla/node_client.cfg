SPECIFICATION FairSpec
CONSTANTS
  Workers = {w1, w2}
  Main = main
  Nodes <- TwoNodes
  MaxTries = 4
  Batches <- ContentAndBlocks
  Names = {1, 2, 3, 4}
  PageSize = 2
  MaxLag = 1
CONSTRAINT Relevant
INVARIANTS TypeOK InOrder NothingLeftRunning EveryNodeCalled NamesInOrder
PROPERTIES Ends
