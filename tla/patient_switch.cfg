SPECIFICATION FairSpec
CONSTANTS
  t1 = t1
  t2 = t2
  t3 = t3
  t4 = t4
  o1 = o1
  o2 = o2
  ava = ava
  bob = bob
  cleo = cleo
  None = None
  NoRow = NoRow
  HistoryLimit = 6
  Avatars <- TwoAvatars
  InitialUnlocked <- OneAvatar
  Turns = {t1}
  Ops = {o1, o2}
  MaxConversations = 2
  Outputs <- BringInBob
  FaultyRequests = {t1, o1, o2}
  FaultyRuns = {t1, o1}
  Modes <- PlainOrGoodbye
  Kinds <- StartThenSwitchOrEnd
  MaxInFlight = 1
INVARIANTS
  OneActiveConversation
PROPERTIES
  RequestsSettle
  ProcessingEnds
