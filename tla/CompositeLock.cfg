SPECIFICATION FairSpec
CONSTANTS
  Callers = {c1, c2}
  Keys = {k1}
  Owners = {replicaA}
  OwnerOf <- OneReplica
  Free = Free
  Kinds = {"memory", "fencing", "fiducia", "advisory"}
  MayRequireFencing = {TRUE, FALSE}
  Expiring = {"fiducia"}
  MaxGrants = 5
PROPERTIES NoStaleWrite ImplementsMutex LockComesBack
