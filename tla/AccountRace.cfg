SPECIFICATION Spec
CONSTANTS
  i1 = i1
  i2 = i2
  s1 = s1
  s2 = s2
  c1 = c1
  c2 = c2
  Emails = {e1}
  Ids = {i1, i2}
  Tokens = {s1, s2}
  Phones = {p0, p1}
  NoPhone = p0
  Calls = {c1, c2}
  AccessLife = 1
  RefreshLife = 2
  MaxCall = 1
SYMMETRY SymmetryAccounts
INVARIANTS TypeOK OneUserPerEmail RoleStalenessBounded SessionEnds RoleIsGranted
