CONSTANTS
  WORD = 32
  Ids = {1, 2, 3, 4, 5}
  Operands = {9}
  Ops = {0, 4}
  MaxProducts = 1
SPECIFICATION FairSpec
INVARIANT TypeOK
INVARIANT ResponseNeverRefused
INVARIANT AnswerBeforeMemory
INVARIANT OwnAnswer
INVARIANT NoSpeculativeCommand
INVARIANT FetchedWords
PROPERTY MasterSpec
PROPERTY EveryCommandAnswered
