SPECIFICATION Spec
CONSTANTS
  u1 = u1
  u2 = u2
  u3 = u3
  v1 = v1
  audio = audio
  other = other
  None = None
  Fingerprints = {audio, other}
  FingerprintOf <- Retries
  Requests = {u1, u2}
  FaultyRequests = {}
  ExpiringRequests = {u1, u2}
INVARIANTS
  AtMostOnce
