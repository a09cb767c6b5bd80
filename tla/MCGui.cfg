SPECIFICATION GuiSpec
CONSTANTS
  p1 = p1
  p2 = p2
  c1 = c1
  c2 = c2
  Profiles = {p1, p2}
  Attempts = {1, 2}
  Callers = {c1, c2}
  Addresses <- MCAddresses
  Requested <- MCRequested
  Encrypted = {p2}
  Names = {n1, n2}
  CliProfile = n1
  Publishers = {k1, k2}
  MaxEdits = 3
  MaxVer = 2
  Buffer = 2
  MaxVersion = 3
  Installers = {i1, i2}
  MaxRuns = 2
  Launches = {l1, l2}
  Nobody = nobody
INVARIANT NoClaimLeaks
INVARIANT GuiSound
PROPERTY ImplementsLifecycle
PROPERTY ConnectSettles
CHECK_DEADLOCK FALSE
