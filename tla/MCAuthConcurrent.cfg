SPECIFICATION Spec
CONSTANTS
  Req = {r1, r2}
  UserId = {1, 2}
  Email = {ann, bob}
  Password = {p1}
  Token = {1, 2}
  None = None
  Ops = {"register", "login", "refresh", "role", "delete", "saved", "ignored"}
  MaxInFlight = 2
  AccessTTL = 2
  RefreshTTL = 2
  MaxTime = 2
  RegistrationOpen = TRUE
  AdminEmail = ann
  AdminPassword = p1
SYMMETRY RequestSymmetry
INVARIANTS NoOrphanSession StaleAuthorityBounded
