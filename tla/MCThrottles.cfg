SPECIFICATION BrakesSpec
CONSTANTS
  Req = {r1, r2, r3}
  Key = {ann}
  Row = {1, 2, 3, 4, 5, 6}
  None = None
  MaxAttempts = 3
  Window = 2
  Ip = {a, b}
  NoIp = NoIp
  Limit = 2
  RateWindow = 3
INVARIANTS AttemptsBounded LimiterTypeOK SliceBounded RetryAfterHonest
PROPERTIES BlockIsTemporary RefusalIsTemporary QuietForgotten ImplementsSlidingWindow
