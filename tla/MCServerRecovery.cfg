SPECIFICATION RecoverySpec
CONSTANTS
  k1 = k1
  k2 = k2
  p1 = p1
  Tokens = {t1, t2}
  Keys = {k1, k2}
  Principals = {p1}
  SSHPrincipals = {p1}
  IdentityOf <- OneIdentity
  Configs <- OneConfig
  Handlers = {}
  PoolSize = 4
  BroadcastReserved = FALSE
  MaxSessionsPerKey = 2
  None = None
  Members = {m1, m2}
  Responses <- PoolResponses
  Clients = {}
  RelayTokens = {}
  Tiers = {g1, g2}
  MaxEdits = 2
  MaxSignals = 1
  MaxCerts = 3
CHECK_DEADLOCK FALSE
INVARIANTS
  PublicationCurrent
PROPERTIES
  DeadRelayAbandoned
  ExpiredIsReaped
  FilesFollowed
