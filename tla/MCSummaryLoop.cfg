CONSTANTS
  VXIDs = {1, 2}
  MaxDepth = 4
  MaxLinks = 2
  TransactionSets <- AnySet
  Walkers = {"summary"}
SPECIFICATION Spec
INVARIANT NotReentered
CHECK_DEADLOCK FALSE
