SPECIFICATION Spec
CONSTANTS
  c1 = c1
  c2 = c2
  Caller = {c1, c2}
  Id = {t1}
  Ref = {r1, r2}
  NoRef = NoRef
  NoId = NoId
  Unknown = {}
  Operation <- TransitionCalls
  Fault = {}
  MaxCrashes = 0
SYMMETRY Goroutines
INVARIANTS
  NoMoveAcceptedTwice
  CompletionIsFinal
  HandlersUpToDate
  NoOrphanDeposit
PROPERTIES
  ImplementsLifecycle
