SPECIFICATION ServerSpec
CONSTANTS
  p1 = p1
  p2 = p2
  k1 = k1
  k2 = k2
  Tokens = {t1, t2}
  Keys = {k1, k2}
  Principals = {p1, p2}
  SSHPrincipals = {p1}
  IdentityOf <- Identities
  Configs <- AllConfigs
  Handlers = {h1}
  PoolSize = 4
  BroadcastReserved = FALSE
  MaxSessionsPerKey = 1
  None = None
  Members = {m1}
  Responses <- UDPOnly
  Clients = {c1, c2}
  RelayTokens = {u1, u2}
  Tiers = {g1, g2}
SYMMETRY SlotSymmetry
CHECK_DEADLOCK FALSE
INVARIANTS
  SessionsSound
  TrafficHasItsPrincipal
  WithinGrants
  KeepalivesOwned
PROPERTIES
  PathsFollowSessions
  EndsForAReason
