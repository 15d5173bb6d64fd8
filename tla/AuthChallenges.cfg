SPECIFICATION Spec
CONSTANTS
  c1 = c1
  c2 = c2
  c3 = c3
  n1 = n1
  n2 = n2
  Cosigner = Cosigner
  Stranger = Stranger
  ServerHint = ServerHint
  h1 = h1
  h2 = h2
  Server = Server
  Master = Master
  Caller = {c1, c2}
  Nonce = {n1, n2}
  NoNonce = NoNonce
  Signature <- Signatures
  Fetched <- SignerSets
  TicksPerSecond = 2
  ChallengeTimeout = 3
  JWTExpiry = 3
  MaxTime = 6
  MaxCrashes = 1
SYMMETRY Interchangeable
INVARIANTS
  ChallengeGrantsOnce
  QuorumOfSigners
  TokenLifetime
PROPERTIES
  NoLateAcceptance
  ImplementsOneTime
