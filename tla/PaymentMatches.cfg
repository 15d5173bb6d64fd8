SPECIFICATION MatchFairSpec
CONSTANTS
  anchor = anchor
  stranger = stranger
  t1 = t1
  matcher = matcher
  auditor = auditor
  Id = {t1}
  Address = {anchor, stranger}
  NoMemo = NoMemo
  Distribution = anchor
  Matcher = matcher
  MemoKept = TRUE
  NoHash = NoHash
  Outgoing = Outgoing
  Account <- Payments
  Other = Other
  Handler = {matcher, auditor}
  Filter <- Filters
  Now = Now
  StartCursor = 0
  InitialBackoff = 1
  MaxBackoff = 3
  MaxLedger = 2
  MaxFailures = 2
  MaxCrashes = 1
INVARIANTS
  ExactlyOnce
  PaidBeforeDisbursed
  PersistedIsOffered
PROPERTIES
  OnePaymentCounts
  PaymentEndsWait
  CancelEndsStart
