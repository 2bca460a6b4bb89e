SPECIFICATION EventSpec
CONSTANTS
  u1 = u1
  u2 = u2
  v1 = v1
  v2 = v2
  c1 = c1
  c2 = c2
  c3 = c3
  o1 = o1
  o2 = o2
  o3 = o3
  Orders <- MCOrders2
  Variants <- MCVariants
  Zones <- MCZones
  ZoneCost <- MCZoneCost
  Calls <- MCCalls2
  MaxInFlight = 2
  Faults = TRUE
  Users <- MCUsers
  Price <- MCPrice
  Deposit <- V2Deposit
  MaxQuantity = 1
  Attempts = 3
  Payments <- AdvancePayment
  InitCarts <- MCInitCarts
  InitStock <- MCInitStock
SYMMETRY SymmetryCheckout
CHECK_DEADLOCK FALSE
INVARIANTS TypeOK NoOversell ConfirmedWhole EventsTypeOK OnlyConfirmedReported LossExplained
PROPERTY ClearedAfterReserving
