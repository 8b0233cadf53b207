SPECIFICATION Spec
CONSTANTS
  t1 = t1
  t2 = t2
  t3 = t3
  t4 = t4
  o1 = o1
  o2 = o2
  ava = ava
  bob = bob
  cleo = cleo
  None = None
  NoRow = NoRow
  HistoryLimit = 6
  Avatars <- OneAvatar
  InitialUnlocked <- OneAvatar
  Turns = {t1, t2}
  Ops = {o1, o2}
  MaxConversations = 1
  Outputs <- JustStay
  FaultyRequests = {t1}
  FaultyRuns = {}
  Modes <- PlainOrGoodbye
  Kinds <- StartThenReset
  MaxInFlight = 2
INVARIANTS
  OnlyCountedTurnsAreObserved
  CountIsNeverAhead
  NoOrphanMessages
PROPERTIES
  RowNeverRegresses
  ClosedStaysClosed
