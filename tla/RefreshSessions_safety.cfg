SPECIFICATION Spec
CONSTANTS
  ann = ann
  bob = bob
  r1 = r1
  r2 = r2
  r3 = r3
  None = None
  SessionIds = {1, 2, 3}
  Requests = {r1, r2, r3}
  Principals = {ann, bob}
  Provider <- Both
  SessionTtl = 1
  AdminReauth = 1
  ProviderEnds = {1}
  StartRoles = {"ADMIN"}
  KeysAscend = FALSE
  MaxTime = 1
  MaxVersion = 2
CONSTRAINT OneUser
SYMMETRY RequestSymmetry
INVARIANTS TypeOK RotationHoldsRow OneLivePerFamily DeadlockNeedsTwoPrincipalRevocations
INVARIANTS InheritsSignIn ReuseEvidenceKept
PROPERTIES RevokedNeverRedeemed RevocationEndsFamily ImplementsSessionFamily
