SPECIFICATION Spec
CONSTANTS
  c1 = c1
  c2 = c2
  Calls <- MCCalls
  Ops <- RaceOps
  TTL <- MCTTL
  MaxRead = 1
  Faults = TRUE
SYMMETRY Symmetry
INVARIANTS StalenessBounded Invalidated
