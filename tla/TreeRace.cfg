SPECIFICATION TreeSpec
CONSTANTS
  k1 = k1
  k2 = k2
  k3 = k3
  k4 = k4
  r1 = r1
  r2 = r2
  Categories <- MCCategories
  Requests <- MCRequests
  InitCategories <- MCInitCategories
  Depth = 2
  MaxItems = 2
  MaxWalks = 1
  MaxWrites = 2
SYMMETRY Symmetry
INVARIANTS TreeTypeOK TreeExact CopiesBounded
