SPECIFICATION FairSpec
CONSTANTS
  c1 = c1
  c2 = c2
  Caller = {c1, c2}
  Id = {t1}
  Ref = {r1}
  NoRef = NoRef
  NoId = NoId
  Unknown = {NoId}
  Operation <- FaultOperations
  Fault = {"store", "panic", "crash"}
  MaxCrashes = 1
INVARIANTS
  NoOrphanLock
  TokenGrantedOnce
PROPERTIES
  EveryCallReturns
