SPECIFICATION PoolSpec
CONSTANTS
  d1 = d1
  d2 = d2
  p1 = p1
  p2 = p2
  Requests <- MCRequests
  Transactional <- MCTransactional
  MaxConns = 2
  MaxStatements = 2
INVARIANT OneConnectionEach

