CONSTANTS
  Emails = {e}
  Sessions = {s1, s2}
  Calls = {c1, c2}
  Limit = 2
  Window = 4
  Lag = 1
  End = 6
  None = none
SPECIFICATION Spec
SYMMETRY Symmetry
INVARIANTS TypeOK AttemptsBounded BarredIsOut
PROPERTY RefusalJustified
