SPECIFICATION Spec
CONSTANTS
  MaxCalls = 3
  Answers <- MCAnswers
INVARIANTS
  TypeOK
  SentAtMostTwice
  AnswerIsOwn
  KeptConnectionIsClean
PROPERTIES
  NothingSentAfterClose
  CommandEnds
