SPECIFICATION FairSpec
CONSTANTS
  NumFeeds = 2
  MaxLines = 1
  MaxPeers = 1
INVARIANTS TypeOK FeedOwnsItsSocket AttemptsStartClean StoppedIsQuiet
CHECK_DEADLOCK FALSE
PROPERTIES EngineStops EndedIsGivenUp
