SPECIFICATION PortalSpec
CONSTANTS
  l1 = l1
  l2 = l2
  ann = ann
  w1 = w1
  w2 = w2
  t1 = t1
  t2 = t2
  Logins = {l1, l2}
  Users = {ann}
  Known = {ann}
  Address = Address
  AddressLimit = 2
  LoginLimit = 1
  MaxFailures = 2
  LockMinutes = 1
  LastMinute = 2
  Workers = {w1, w2}
  Tokens = {t1, t2}
  None = None
  Wishes <- RoleOrStatus
  LastVersion = 3
  Visitors <- UpToThree
  SlugOf <- Slugs
CONSTRAINT NoIncrementLost
SYMMETRY Interchangeable
INVARIANTS LoginTypeOK WindowsKeepLimit AdmittedAreCounted
INVARIANTS AccessTypeOK AuthorizedAtOneMoment
INVARIANTS OwnItemsOnly LinksResolve PagesAgree RunningJobsShown
PROPERTIES ImplementsLockout
