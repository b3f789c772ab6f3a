SPECIFICATION FairSpec
CONSTANTS
  WinningScore = 3
  MayUnsubscribe = TRUE
CHECK_DEADLOCK FALSE
INVARIANTS
  TypeOK
  OneBall
  AnswerIsForTheBall
  MatchIsDecidedOnce
PROPERTIES
  QuietAfterLeaving
  MatchEnds
