SPECIFICATION FairMemorySpec
CONSTANTS
  client = client
  o1 = o1
  o2 = o2
  Convs = {1, 2}
  Turns = {client}
  Ops = {o1, o2}
  Kinds <- OpenBesideTheOthers
  RefreshEvery = 3
  RefreshWindow = 10
  HistoryWindow = 6
  FetchWindow = 20
  Spoken <- TwoExchanges
  FaultyConvs = {2}
  MaxMessages <- LongThenShort
  MaxRefreshes = 5
INVARIANTS
  MemoryTypeOK
  NothingForgotten
  EpisodeHoldsConversation
  ResetForgets
PROPERTIES
  RefreshesAreSerial
  EpisodeIsKept
  PromptFollowsRefresh
  ClosedIsRemembered
