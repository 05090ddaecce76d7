CONSTANTS
  Spellings <- MCSpellings
  CanonicalHeaderName <- MCCanonical
  HdrNameHost = "Host"
  Values = {"empty", "a", "b"}
  Empty = "empty"
  Lines <- MCLines
  VXIDs = {1}
  VarnishModified = {"Via"}
  MaxLines = 7
SPECIFICATION Spec
INVARIANT TypeOK
INVARIANT NoTempAfterVCLCall
INVARIANT AllHeadersWellFormed
INVARIANT ReceivedAsLogged
INVARIANT MergeIsTheLoop
PROPERTY ReceivedAreImmutable
CHECK_DEADLOCK FALSE
