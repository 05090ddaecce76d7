CONSTANTS
  Spellings <- MCSpellings
  CanonicalHeaderName <- MCCanonical
  HdrNameHost = "Host"
  Values = {"empty", "a", "b"}
  Empty = "empty"
  Lines <- WorkerLines
  VXIDs = {1}
  VarnishModified = {"Via"}
  MaxLines = 9
  ReceivedValues = {"a", "b"}
  SetValues = {"b"}
  RepeatedCoreNames = TRUE
  VCLSetsStatus = FALSE
SPECIFICATION WriterSpec
INVARIANT EffectiveHeaders
CHECK_DEADLOCK FALSE
