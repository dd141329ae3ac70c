SPECIFICATION ProgressSpec
CONSTANTS
  ann = ann
  bob = bob
  r1 = r1
  r2 = r2
  r3 = r3
  None = None
  SessionIds = {1, 2}
  Requests = {r1, r2}
  Principals = {ann}
  Provider <- LocalOnly
  SessionTtl = 1
  AdminReauth = 1
  ProviderEnds = {}
  StartRoles = {"READ_ONLY"}
  KeysAscend = TRUE
  MaxTime = 0
  MaxVersion = 2
  l1 = l1
  ghost = ghost
  l2 = l2
  Logins = {l1, l2}
  Users = {ann, ghost}
  Known = {ann}
  Address = Address
  AddressLimit = 2
  LoginLimit = 1
  MaxFailures = 2
  LockMinutes = 1
  LastMinute = 1
PROPERTIES RequestsEnd LoginsAnswered
