SPECIFICATION Spec
CONSTANTS
  c1 = c1
  c2 = c2
  Calls <- MCCalls
  Ops <- CategoryOps
  TTL <- MCTTL
  MaxRead = 1
  Faults = FALSE
SYMMETRY Symmetry
INVARIANTS CategoriesInvalidated
