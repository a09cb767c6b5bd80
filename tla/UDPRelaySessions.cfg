SPECIFICATION Spec
CONSTANTS
  Sessions = {s1, s2}
  Tenants = {t1, t2}
  Ports = {p1, p2}
  Addrs = {a1, a2}
  None = None
  MaxPerTenant = 1
INVARIANTS
  TablesAgree
PROPERTIES
  ForwardOnlyBetweenBound
  IdleSessionsReclaimed
CHECK_DEADLOCK FALSE
