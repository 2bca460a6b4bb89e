SPECIFICATION Spec
CONSTANTS
  u1 = u1
  u2 = u2
  v1 = v1
  v2 = v2
  c1 = c1
  c2 = c2
  c3 = c3
  o1 = o1
  o2 = o2
  o3 = o3
  Orders <- MCOrders2
  Variants <- MCVariants
  Zones <- MCZones
  ZoneCost <- MCZoneCost
  Calls <- MCCalls2
  MaxInFlight = 2
  Faults = FALSE
  Users <- MCUsers
  Price <- MCPrice
  Deposit <- NoDeposit
  MaxQuantity = 1
  Payments <- AdvancePayment
  InitCarts <- MCInitCarts
  InitStock <- MCInitStock
CHECK_DEADLOCK FALSE
PROPERTY LockProtects
