SPECIFICATION RelaySpec
CONSTANTS
  Conns = {c1, c2}
  Tenants = {t1}
  Hosts = {h1}
  None = None
  MaxPending = 1
  MaxConns = 1
  Services = {"s1", "s2", "s3"}
  KubeHosts = {"x", "y"}
  Spaces = {"n"}
  NoHost = "none"
  MaxChanges = 5
  Ports = {"q1", "q2"}
  Listening = {"t1", "t2"}
  Clients = {"a", "b"}
  ClientIndex <- MCClientIndex
  ServerIndex <- MCServerIndex
  AddrsOf <- MCAddrsOf
  ServerAddrs = {"x1"}
  MaxTokens = 2
  MaxIndices = 2
  Nonces = {"n1", "n2", "n3"}
  TTL = 2
  MaxNonces = 2
  Sources = {"s1", "s2", "s3"}
  Watched = "s1"
  Limit = 2
  Window = 2
  MaxSources = 2
  Share = 2
  MaxTime = 5
INVARIANTS
  SlotsAccounted
  SplicedConnIsHeld
  RelaySound
PROPERTIES
  EverybodyReturns
CHECK_DEADLOCK FALSE
