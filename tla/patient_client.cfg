SPECIFICATION Spec
CONSTANTS
  t1 = t1
  t2 = t2
  t3 = t3
  t4 = t4
  o1 = o1
  o2 = o2
  ava = ava
  bob = bob
  cleo = cleo
  None = None
  NoRow = NoRow
  HistoryLimit = 6
  Avatars <- OneAvatar
  InitialUnlocked <- OneAvatar
  Turns = {t1, t2, t3}
  Ops = {o1}
  MaxConversations = 1
  Outputs <- StayOrAdvance
  FaultyRequests = {}
  FaultyRuns = {t1}
  Modes <- PlainOrStream
  Kinds <- StartOnly
  MaxInFlight = 1
SYMMETRY LaterTurns
INVARIANTS
  TypeOK
  PlanIsUsedOnce
  PlanIsForThisTurn
PROPERTY
  ImplementsLedger
