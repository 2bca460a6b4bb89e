SPECIFICATION Spec
CONSTANTS
  p1 = p1
  p2 = p2
  v1 = v1
  v2 = v2
  c1 = c1
  c2 = c2
  c3 = c3
  Products <- MCProducts2
  Variants <- MCVariants1
  Calls <- MCCalls2
  MaxInFlight = 2
  MaxCartQuantity = 1
  MaxAsked = 1
  MaxStock = 1

INVARIANT OneLinePerVariant
CHECK_DEADLOCK FALSE
