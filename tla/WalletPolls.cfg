SPECIFICATION WalletFairSpec
CONSTANTS
  Caller = {c1, c2}
  Id = {t1}
  Ref = {r1}
  NoRef = NoRef
  NoId = NoId
  Unknown = {}
  Operation <- DepositOperations
  Fault = {}
  MaxCrashes = 0
INVARIANTS
  AnswersFollowLifecycle
  FinalStatusIsTrue
  NoDeadLink
PROPERTIES
  SubmittedFormCompletes
  CompletionEndsWait
