SPECIFICATION Spec
CONSTANTS
  Req = {r1, r2}
  UserId = {1, 2}
  Email = {ann, bob}
  Password = {p1}
  Token = {1, 2}
  None = None
  Ops = {"login", "create", "role", "delete"}
  MaxInFlight = 2
  AccessTTL = 1
  RefreshTTL = 3
  MaxTime = 0
  RegistrationOpen = TRUE
  AdminEmail = ann
  AdminPassword = p1
SYMMETRY RequestSymmetry
INVARIANTS AlwaysAnAdmin
