SPECIFICATION Spec
CONSTANTS
  MaxStarts = 2
  MaxClicks = 2
INVARIANTS LoadingOwed ProcMatches
PROPERTIES ShownSettles
