SPECIFICATION Spec
CONSTANTS
  t1 = t1
  t2 = t2
  a1 = a1
  a2 = a2
  ann = ann
  b1 = b1
  b2 = b2
  c1 = c1
  c2 = c2
  r1 = r1
  r2 = r2
  None = None
  Logins = {t1, t2}
  Browsers = {b1, b2}
  Assertions = {a1, a2}
  Codes = {c1, c2}
  Users = {ann}
  Requests = {r1, r2}
  InResponseTo <- TwiceFirst
  Subject <- OneUser
  Groups <- TwoRoles
  LoginTtl = 3
  AssertionTtl = 1
  Skew = 1
  CodeTtl = 1
  Patience = 1
  MaxTime = 2
CHECK_DEADLOCK FALSE
INVARIANTS OneCodePerLogin
