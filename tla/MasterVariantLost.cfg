SPECIFICATION Spec
CONSTANTS
  p1 = p1
  p2 = p2
  v1 = v1
  v2 = v2
  i1 = i1
  i2 = i2
  g1 = g1
  o1 = o1
  o2 = o2
  c1 = c1
  c2 = c2
  k1 = k1
  Products <- MCProducts
  Variants <- MCVariants
  Images <- MCImages
  Groups <- MCGroups
  Orders <- MCOrders
  Calls <- MCCalls
  Copies <- MCCopies
  InitProducts <- MCInitProducts
  InitVariants <- MCInitVariants
  MaxInFlight = 2
  MaxStock = 1
SYMMETRY Symmetry
CHECK_DEADLOCK FALSE
INVARIANT EveryProductHasVariant
