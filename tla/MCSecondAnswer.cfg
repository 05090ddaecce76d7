SPECIFICATION Spec
CONSTANTS
  Requests <- MCRequests
  Answers <- MCAnswers
  Configs <- MCConfigs
  BadHosts <- MCBadHosts
INVARIANT SecondAnswerIsPartial
CHECK_DEADLOCK FALSE
