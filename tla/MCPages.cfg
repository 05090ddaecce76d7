CONSTANTS
  VXIDs = {1, 2, 3, 4}
  FewVXIDs = {1, 2, 3}
  MaxDepth = 2
  MaxTime = 3
  GroupedSets <- MirroredSets
  DrawnSets <- SpannedSets
  TimedSets <- StampedSets
  Forms <- FewForms
  Transactions <- MCTransactions
SPECIFICATION Spec
INVARIANTS
  TypeOK EveryTransactionGrouped GroupsDisjoint RootsHaveNoParent
  TimestampsBelowTransaction SessionRowIsItsOwn
  CountedOnce PercentilesConsistent
  AuthorityIsHost ConnectsWhereAsked
CHECK_DEADLOCK FALSE
