SPECIFICATION ProviderSpec
CONSTANTS
  Callers = {c1, c2, c3}
  Keys = {k1, k2}
  Owners = {replicaA, replicaB}
  OwnerOf <- OneApart
  Free = Free
  MayRetryRelease = FALSE
  MaxGrants = 4
PROPERTY ImplementsFencedLock
