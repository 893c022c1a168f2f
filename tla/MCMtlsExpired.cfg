SPECIFICATION Spec
CONSTANTS
  Undefined = Undefined
  NaN = NaN
  Agents = {a1, a2}
  Registrations = {r1}
  Lifetime = 1
  MaxTime = 2
PROPERTY ExpiredIsNotServed
CHECK_DEADLOCK FALSE
