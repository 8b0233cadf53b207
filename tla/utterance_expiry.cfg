SPECIFICATION Spec
CONSTANTS
  u1 = u1
  u2 = u2
  u3 = u3
  v1 = v1
  audio = audio
  other = other
  None = None
  Fingerprints = {audio, other}
  FingerprintOf <- Retries
  Requests = {u1, u2, v1}
  FaultyRequests = {u1}
  ExpiringRequests = {u1, u2, v1}
INVARIANTS
  CompletedMeansRan
  ReservationsAreSettled
