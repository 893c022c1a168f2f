SPECIFICATION Spec
CONSTANTS
  Undefined = Undefined
  NaN = NaN
  c1 = c1
  c2 = c2
  t1 = t1
  t2 = t2
  u1 = u1
  u2 = u2
  n1 = n1
  n2 = n2
  Calls = {c1, c2}
  Tenants = {t1, t2}
  Provider = t1
  Users = {u1, u2}
  Names = {n1, n2}
  Config <- MCConfig
  OptionSets <- MCOptions
  Lifetime = 1
  Validity = 1
  StartTime = 1
  MaxTime = 2
  MaxChanges = 1
INVARIANTS TypeOK AccountIsolation UserIsolation ResultIsSelected ReturnedAfterFlow FailureIsNotKept
PROPERTIES ForwardsOwnToken
SYMMETRY Symmetry
