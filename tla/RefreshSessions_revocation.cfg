SPECIFICATION Spec
CONSTANTS
  ann = ann
  bob = bob
  r1 = r1
  r2 = r2
  r3 = r3
  None = None
  SessionIds = {1, 2, 3}
  Requests = {r1, r2}
  Principals = {ann}
  Provider <- LocalOnly
  SessionTtl = 1
  AdminReauth = 1
  ProviderEnds = {}
  StartRoles = {"READ_ONLY"}
  KeysAscend = TRUE
  MaxTime = 0
  MaxVersion = 1
PROPERTIES RevocationIsComplete
