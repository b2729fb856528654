SPECIFICATION FairSpec
CONSTANTS
  Requests = {r1, r2}
  MaxElicits = 2
  InCap = 1
  OutCap = 1
  PipeCap = 1
  MaxRepeats = 1
\* The peer may fall silent for ever.
CHECK_DEADLOCK FALSE
INVARIANT AnswersMatchQuestions
INVARIANT WaitersAreExact
PROPERTY EveryRequestAnswered
PROPERTY RepliesSurviveEof
