SPECIFICATION ServicesSpec
CONSTANTS
  u1 = u1
  u2 = u2
  u3 = u3
  v1 = v1
  audio = audio
  other = other
  None = None
  Fingerprints = {audio, other}
  FingerprintOf <- Retries
  Requests = {u1, u2, u3, v1}
  FaultyRequests = {u1, v1}
  ExpiringRequests = {}
  Sources = {1, 2}
  Loaded = {1}
  Profiles = {p, q}
  First = p
  MaxOperations = 2
  Jobs = {1, 2}
  Readers = {r}
  MaxEvents = 3
  FaultySources = {2}
  FaultyStore = TRUE
  Avatars = {1, 2}
  MaxSessions = 2
  MaxConvs = 2
  MaxClicks = 4
  MaxCues = 1
  Videos = {1}
  Offered = {1, 2}
  Recalled = {0, 1, 3}
  MaxPlays = 2
  MaxChoices = 1
  MaxUnlocks = 1
  MaxFaults = 1
  MaxPending = 2
INVARIANTS
  TypeOK
  AtMostOnce
  KnowledgeTypeOK
  ReadyIsServed
  RetrievalIsOfOneCorpus
  WebTypeOK
  ThreadIsOfConversation
  ConversationIsOfAvatar
  AvatarsAreOfSession
  UnlocksAreShown
PROPERTIES
  ImplementsOnce
  PromotionIsWhole
  ActiveChangesByIngestion
  ImplementsCorpus
  MediaStartsInSilence
  ReindexEnds
  PlayerSettles
  LoopListensAgain
