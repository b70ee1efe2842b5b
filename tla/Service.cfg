SPECIFICATION Serves
CONSTANTS
  People = {"ann", "bob", "cid"}
  Founder = "ann"
  Employees = {"ann", "bob"}
  DomainJoin = TRUE
  Restricted = FALSE
  DefaultRole = 1
  MaxSeats = 2
  MAX_FRAME_BYTES = 4
  MAX_BEARER = 1
  Decimal <- MCDecimal
  Deployed <- MCDeployed
  Slips <- MCSlips
  Tokens <- MCTokens
  Hosts <- MCHosts
  Leeway = 1
  MaxTime = 4
INVARIANTS AlwaysAnOwner NobodyOutranksSponsor PlanesApart SkewTolerated RedirectsLand
PROPERTY NeverOverInvited
