\* Does shutdown() always return?
SPECIFICATION Spec
CONSTANTS
  Reader = {r1, r2}
  MaxEdits = 2
PROPERTY ShutdownReturns
