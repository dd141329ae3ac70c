SPECIFICATION Spec
CONSTANTS
  ann = ann
  bob = bob
  c1 = c1
  c2 = c2
  k1 = k1
  k2 = k2
  k3 = k3
  r1 = r1
  r2 = r2
  s1 = s1
  s2 = s2
  None = None
  Accounts = {ann, bob}
  Codes = {c1, c2}
  Keys = {k1, k2}
  Requests = {r1, r2}
  StartAdmins <- Two
  Asks <- Simple
  SessionIds = {s1, s2}
  MaxSessions = 1
  MaxVersion = 3
INVARIANTS OneOutstandingCode
CHECK_DEADLOCK FALSE
