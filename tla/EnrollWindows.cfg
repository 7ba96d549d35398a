SPECIFICATION Spec
CONSTANTS
  o1 = o1  o2 = o2  r1 = r1  r2 = r2  r3 = r3
  k1 = k1  k2 = k2  k3 = k3  i1 = i1  i2 = i2  c1 = c1  c2 = c2
  None = None
  Offers = {o1, o2}
  Challenges = {c1, c2}
  Handlers = {h1, h2}
  Fingerprints = {k1, k2, k3}
  RequestIds = {r1, r2, r3}
  IdempotencyKeys = {i1, i2}
  ChallengeRequests <- WindowClaims
  CompletionRequests <- WindowCompletions
  MaxOfferClaims = 2
  MaxChallengeFailures = 1
  OfferTTLs = {2}
  ChallengeTTL = 1
  MaxClock = 2
SYMMETRY WindowSymmetry
CHECK_DEADLOCK FALSE
INVARIANTS
  SingleCeremony
  OneDevicePerOffer
  EnrollmentAtomic
  AuditFaithful
PROPERTY ImplementsPairingSecret
