SPECIFICATION DataSpec
CONSTANTS
  None = None
  Tunnels = {"x", "y"}
  Settings <- MCSettings
  DnsAt = "d"
  PortalAt = "p3"
  MaxReloads = 2
  Askers = {"a"}
  Queries = {"q1", "q2"}
  Upstreams <- MCUpstreams
  Slots = 1
  ServerIP = "srv"
  MaxChanges = 1
  Sources = {"a", "b"}
  MaxFlows = 3
  MaxEpochs = 2
  Domains = {"d"}
  Policies = {"p"}
  Networks = {"A", "B"}
  Files <- MCFiles
  MaxSessions = 2
  Addresses = {"lo", "priv", "pub"}
  Floor = {"lo"}
  Private = {"priv"}
  Hosts = {"in", "off"}
  Suffixed = {"in"}
  Filters <- MCFilters
  NoName = NoName
  Nowhere = Nowhere
  Teams = {{alone}, {one, two}}
  Servers = {s1, s2}
  Certs = {"c1", "c2"}
  Issuers = {"i1", "i2"}
  Signed = {"c1"}
  CommandLines <- MCCommandLines
  FirstCert = "c1"
  FirstIssuer = "i1"
  MaxRuns <- MCMaxRuns
  Unbound = Unbound
  Index = Index
  Resolved <- MCResolved
  Order <- MCOrder
  Wishes <- MCWishes
  Offers <- MCOffers
  Occupied <- MCOccupied
SYMMETRY MCSymmetry
CHECK_DEADLOCK FALSE
INVARIANTS
  DataPlaneSound
  ClientStartSound
