SPECIFICATION Spec
CONSTANTS
  t1 = t1
  o1 = o1
  o2 = o2
  o3 = o3
  Id = {t1}
  OrderId = {o1, o2, o3}
  Old = {o2}
  DeterministicOrderID <- OrderIDOf
  Server = {g1, g2}
  NoId = NoId
  NoOrder = NoOrder
PROPERTY
  OrderIDKept
