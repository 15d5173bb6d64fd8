\* Two logins at once, one retry each, one late request, two challenges.
SPECIFICATION LoginSpec
CONSTANTS
  NoNonce = NoNonce
  NoInfo = NoInfo
  Caller = {c1, c2}
  Nonce = {n1, n2}
  Info <- Files
  Publishable <- Sample
  CacheTTL = 2
  MaxFetch = 1
  MaxRetries = 1
  MaxLate = 1
  MaxCurrencies = 2
INVARIANTS
  StaleAtMost
  ResolvedIsMeant
  OutcomesAreEarned
