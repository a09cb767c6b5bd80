SPECIFICATION Spec
CONSTANTS
  Handlers = {h1, h2, h3}
  Names = {n1}
  Keys = {k1}
  None = None
  MaxPendingRegs = 2
INVARIANTS
  AgentsSound
  ServingAgentReachable
PROPERTIES
  EvictedAgentLeaves
