CONSTANTS
  Tabs = {t1, t2}
  Hashes = {h1, h2}
  NewNames = {"renamed"}
  ParsedName = "parsed"
  NoEntry = NoEntry
  MaxOps = 4
SPECIFICATION Spec
INVARIANT TypeOK
INVARIANT ShownIsStored
PROPERTY OnlyRenameChanges
PROPERTY ImplementsLogStore
PROPERTY SettlesDown
CHECK_DEADLOCK FALSE
