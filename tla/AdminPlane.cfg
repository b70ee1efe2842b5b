SPECIFICATION FairPlane
CONSTANTS
  Callers = {a, b}
  Keys = {k1, k2}
  Payloads = {suspend, resume}
  Unused = Unused
  MaxOperations = 3
  Configs <- MCConfigs
  Identifiers <- MCIdentifiers
  Sessions <- MCSessions
  Principals <- MCPrincipals
  Actor <- MCActor
  Nobody = Nobody
  MaxSuspended = 1
PROPERTIES EveryCallEnds ImplementsIdempotentRegistry SuspensionHolds
CHECK_DEADLOCK FALSE
