CONSTANTS
  MaxContext = 4
  MaxOutput = 3
  Prompts = {7, 12}
  Tokens <- MCTokens
  EdgeTokenizer = TRUE
  MaxRetries = 1
  MaxConns = 2
  MaxDeltas = 2
SPECIFICATION FairSpec
INVARIANTS TypeOK NoDeltaIsDropped QuietTurnIsOneAnswer
PROPERTIES AbandonedIsReleased MessageIsSettled
CHECK_DEADLOCK FALSE
