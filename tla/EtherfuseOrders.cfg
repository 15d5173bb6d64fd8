SPECIFICATION FairSpec
CONSTANTS
  t1 = t1
  o1 = o1
  o2 = o2
  o3 = o3
  Id = {t1}
  OrderId = {o1, o2, o3}
  Old = {o2}
  DeterministicOrderID <- OrderIDOf
  Server = {g1, g2}
  NoId = NoId
  NoOrder = NoOrder
INVARIANTS
  TransferFollowsOrder
  LinkLivesUntilOrder
  OneOrderPerTransfer
  NoOrderBeforeApproval
  PromptHasOrder
PROPERTIES
  OrderEndsForm
