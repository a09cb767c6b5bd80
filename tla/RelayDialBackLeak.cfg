SPECIFICATION Spec
CONSTANTS
  Conns = {c1}
  Tenants = {t1}
  Hosts = {h1}
  None = None
  MaxPending = 1
  MaxConns = 1
INVARIANT NothingDeliveredToAbandonedOpen
