SPECIFICATION Spec
CONSTANTS
  Undefined = Undefined
  NaN = NaN
  c1 = c1
  c2 = c2
  c3 = c3
  t1 = t1
  t2 = t2
  s2 = s2
  cl1 = cl1
  cl2 = cl2
  Callers = {c1, c2, c3}
  Tenants = {t1, t2}
  Subdomains = {s2}
  TenantOf <- MCTenantOf
  Clients = {cl1, cl2}
  HomeTenant = t1
  BindingTenant = Undefined
  DefaultTenantId = DefaultTenantId
  Requests <- MCRequests
  Lifetimes <- MCLifetimes
  Validity = 2
  MaxTime = 3
INVARIANTS TypeOK CacheIsolation TokenMatchesRequest
PROPERTIES ServedWithinLifetime
SYMMETRY Symmetry
