SPECIFICATION WalletFairSpec
CONSTANTS
  Caller = {c1}
  Id = {t1}
  Ref = {r1}
  NoRef = NoRef
  NoId = NoId
  Unknown = {}
  Operation <- DepositOperations
  Fault = {}
  MaxCrashes = 0
PROPERTY
  TerminalEndsWait
