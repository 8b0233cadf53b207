SPECIFICATION PlayerSpec
CONSTANTS
  Avatars = {1, 2}
  MaxSessions = 2
  MaxConvs = 2
  MaxClicks = 5
  MaxCues = 0
  Videos = {}
INVARIANT ConversationIsOfSession
