SPECIFICATION FairSpec
CONSTANTS
  Flights = {f1, f2}
  MaxSamples = 1
  MaxMoves = 2
INVARIANT Inv
PROPERTIES CountsConverge SamplesGoWithAnswers
CHECK_DEADLOCK FALSE
