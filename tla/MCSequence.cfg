SPECIFICATION Spec
CONSTANTS
  Requests <- MCRequests
  Answers <- MCAnswers
  Configs <- MCConfigs
  BadHosts <- MCBadHosts
INVARIANTS RequestsAreShown LastAnswerIsTheClients AnswersWereReal StepsShowTheirMoment
CHECK_DEADLOCK FALSE
