SPECIFICATION Spec
CONSTANTS
  Req = {r1, r2}
  User = {u1, u2}
  Conn = {c1, c2, c3}
  None = None
  MaxSteps = 2
  MaxLeaks = 1
  Timeout = 0
INVARIANTS TypeOK OnlyFailedPingLeaks DeadSessionExplained ClosedUnderStatementExplained OneRequestOneConnection
PROPERTIES IdleSessionCloses NoStarvation
