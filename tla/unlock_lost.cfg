SPECIFICATION Spec
CONSTANTS
  t1 = t1
  t2 = t2
  t3 = t3
  t4 = t4
  o1 = o1
  o2 = o2
  ava = ava
  bob = bob
  cleo = cleo
  None = None
  NoRow = NoRow
  HistoryLimit = 6
  Avatars <- ThreeAvatars
  InitialUnlocked <- OneAvatar
  Turns = {t1, t2}
  Ops = {o1}
  MaxConversations = 1
  Outputs <- StayOrUnlock
  FaultyRequests = {}
  FaultyRuns = {}
  Modes <- PlainMode
  Kinds <- StartOnly
  MaxInFlight = 1
PROPERTIES
  UnlocksAreKept
