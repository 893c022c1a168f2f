SPECIFICATION Spec
CONSTANTS
  Undefined = Undefined
  NaN = NaN
  Calls = {c1, c2, c3}
  t1 = t1
  t2 = t2
  u1 = u1
  u2 = u2
  env = env
  reg = reg
  fwd = fwd
  bound = bound
  r1 = r1
  r2 = r2
  r3 = r3
  Tenants = {t1, t2}
  Provider = t1
  BindingTenant = t1
  DefaultTenantId = DefaultTenantId
  Users = {u1, u2}
  Names = {env, reg, fwd, bound}
  EnvNames = {env}
  BoundNames = {bound, fwd}
  Forwarding = {fwd, env}
  Proxied = {fwd, env}
  AppObjects = {r1, r2, r3}
  ObjectName <- MCObjectName
  Lookups <- MCLookups
  Registrations <- MCRegistrations
INVARIANTS TypeOK BindingForCaller RegisteredForCaller CopyKeepsToken
SYMMETRY Symmetry
