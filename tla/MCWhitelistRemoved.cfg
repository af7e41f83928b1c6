SPECIFICATION Spec
CONSTANTS
  Req = {r1}
  a = a
  b = b
  B = B
  Ip = {a, b}
  Spelling = {a, b, B}
  Norm <- SomeNorm
  None = None
SYMMETRY Symmetry
INVARIANTS RemovedStaysOut
