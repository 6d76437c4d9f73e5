\* Two requests and three answers at most, so that the last allowed answer is reached by errors.
CONSTANTS
  Scripts <- ExchangeScripts
  Patience = {TRUE, FALSE}
  KeepAliveMax = 3
  PayloadMax = 2
  Expectations = {100, 403, 417}
  Bodies = {"whole", "provided"}
  MaxAhead = 2
SPECIFICATION FairSpec
INVARIANTS  AnswersInOrder LastIsLast NoMutualWait
PROPERTIES ConversationEnds
CHECK_DEADLOCK FALSE
