CONSTANTS
  VXIDs = {1, 2, 3}
  MaxDepth = 4
  MaxLinks = 2
  TransactionSets <- SetsFor
  Walkers = {"tree", "headers", "timeline", "sequence", "collect", "summary"}
SPECIFICATION Spec
INVARIANT TypeOK
INVARIANT ShownOnce
INVARIANT ShowsAllReachable
INVARIANT StepsInOwnSection
PROPERTY Terminates
CHECK_DEADLOCK FALSE
