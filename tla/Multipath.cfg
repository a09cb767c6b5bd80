SPECIFICATION Spec
CONSTANTS
  Client = Client
  Server = Server
  Datagram = {d1}
  WSS = WSS
  None = None
  MissLimit = 2
  ServerForce = None
  Fragile = {Client}
  Forceable = {None, d1}
INVARIANTS
  OnlyProvenCarries
PROPERTIES
  StickyFlow
  BrokenPathAbandoned
  WorkingPathRecovers
