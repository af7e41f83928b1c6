SPECIFICATION Spec
CONSTANTS
  Req = {r1, r2}
  a = a
  b = b
  B = B
  Ip = {a, b}
  Spelling = {a, b}
  Norm <- SomeNorm
  None = None
SYMMETRY Symmetry
INVARIANTS AddedStaysIn NoSelfLockout RemovedStaysOut
