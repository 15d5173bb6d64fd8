SPECIFICATION FairSpec
CONSTANTS
  t1 = t1
  t2 = t2
  logger = logger
  auditor = auditor
  chain = chain
  Caller = {c1, c2}
  NoCaller = NoCaller
  Id = {t1, t2}
  Handler = {logger, auditor, chain}
  Does <- Deeds
  ChainsLast = TRUE
INVARIANTS
  LocksHaveOwners
  NobodyWaitsInVain
PROPERTIES
  RegistrationsKept
  EveryCallerReturns
