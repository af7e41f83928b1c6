SPECIFICATION Spec
CONSTANTS
  Req = {r1}
  UserId = {1, 2}
  Email = {ann, bob}
  Password = {p1, p2}
  Token = {1, 2, 3}
  None = None
  Ops = {"register", "login", "refresh", "logout", "password", "cli", "role", "delete", "create", "restart"}
  MaxInFlight = 1
  AccessTTL = 1
  RefreshTTL = 2
  MaxTime = 0
  RegistrationOpen = FALSE
  AdminEmail = None
  AdminPassword = None
SYMMETRY Symmetry
INVARIANTS TypeOK AlwaysAnAdmin PasswordChangeEndsSessions RefreshReplayBounded SelfRegistrationOnce
