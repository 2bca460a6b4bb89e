SPECIFICATION Spec
CONSTANTS
  o1 = o1
  v1 = v1
  v2 = v2
  c1 = c1
  c2 = c2
  c3 = c3
  c4 = c4
  Orders <- MCOrders
  Variants <- MCVariants
  Zones <- MCZones
  ZoneCost <- MCZoneCost
  Calls <- MCCalls2
  MaxInFlight = 1
  Faults = FALSE
  Ops = {"status", "refund"}
  InitOrders <- MCInitOrders1
  InitStock <- MCInitStock
  Amounts <- MCAmounts
  Adjustments <- MCAdjustments
CHECK_DEADLOCK FALSE
PROPERTY PaymentFollowsFSM
