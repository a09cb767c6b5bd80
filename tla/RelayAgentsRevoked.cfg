SPECIFICATION Spec
CONSTANTS
  Handlers = {h1, h2}
  Names = {n1}
  Keys = {k1, k2}
  None = None
  MaxPendingRegs = 2
INVARIANTS
  NoAgentUnderRevokedKey
