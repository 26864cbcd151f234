CONSTANTS
  Brains = {b1}
  Calls = {c1, c2}
  Boot = boot
  Ids = {i1}
  None = none
SPECIFICATION Spec
SYMMETRY Symmetry
PROPERTY FailedIsDeleted
