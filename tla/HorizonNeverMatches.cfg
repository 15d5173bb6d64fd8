SPECIFICATION MatchFairSpec
CONSTANTS
  anchor = anchor
  stranger = stranger
  t1 = t1
  matcher = matcher
  auditor = auditor
  Id = {t1}
  Address = {anchor, stranger}
  NoMemo = NoMemo
  Distribution = anchor
  Matcher = matcher
  MemoKept = FALSE
  NoHash = NoHash
  Outgoing = Outgoing
  Account <- Payments
  Other = Other
  Handler = {matcher, auditor}
  Filter <- Filters
  Now = Now
  StartCursor = 0
  InitialBackoff = 1
  MaxBackoff = 3
  MaxLedger = 1
  MaxFailures = 1
  MaxCrashes = 0
PROPERTIES
  PaymentEndsWait
