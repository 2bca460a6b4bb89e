SPECIFICATION Spec
CONSTANTS
  a1 = a1
  r1 = r1
  r2 = r2
  r3 = r3
  l1 = l1
  l2 = l2
  l3 = l3
  l4 = l4
  Addresses = {a1}
  Calls = {r1, r2, r3}
  Limiters = {l1, l2, l3, l4}
  Rate = 1
  Burst = 2
  TTL = 3
  Period = 2
  Slack = 1
INVARIANT TypeOK
PROPERTIES ImplementsBucket IdleIsForgotten
