SPECIFICATION LinksSpec
CONSTANTS
  Client = Client
  Server = Server
  Datagram = {d1}
  WSS = WSS
  None = None
  MissLimit = 1
  ServerForce = None
  Fragile = {}
  Forceable = {None}
  Conns = {1, 2, 3}
  MaxFaults = 2
  Depth = 1
  Threshold = 1
  MaxSent = 1
  Window = 1
CHECK_DEADLOCK FALSE
INVARIANTS
  BindSound
  RungBacked
  StreamSound
PROPERTIES
  LadderClimbed
  LinksRecover
