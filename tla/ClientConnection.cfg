SPECIFICATION Spec
CONSTANTS
  Names = {n1}
  Conns = {c1}
  Choices = {wss, direct}
  Preferred = wss
  None = None
CHECK_DEADLOCK FALSE
INVARIANTS
  EverythingOwned
  OneSession
PROPERTIES
  CloseReleasesAll
  SessionRecovers
