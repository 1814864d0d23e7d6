SPECIFICATION FairFeedSpec
CONSTANTS
  MaxEvents = 4
  Window = 3
  PageSize = 1
  FeedSize = 2
  MaxTrouble = 1
INVARIANTS FeedTypeOK PagesMissNothing
PROPERTIES EveryEventIsShown
