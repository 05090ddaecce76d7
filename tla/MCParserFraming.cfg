CONSTANTS
  Spellings <- MCSpellings
  CanonicalHeaderName <- MCCanonical
  HdrNameHost = "X"
  Values = {"empty"}
  Empty = "empty"
  Lines <- MCLines
  VXIDs = {1, 2}
  VarnishModified = {}
  MaxLines = 8
SPECIFICATION Spec
INVARIANT StoredAreComplete
PROPERTY StoredOnlyByEnd
PROPERTY ImplementsParsedLog
CHECK_DEADLOCK FALSE
