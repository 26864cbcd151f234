CONSTANTS
  Users = {u1}
  Sources = {s1, s2}
  Public = {}
  Calls = {c1, c2}
  Boot = boot
  Ids = {i1, i2}
  None = none
SPECIFICATION Spec
SYMMETRY Symmetry
INVARIANTS TypeOK MutexInv GrantRecorded TokenScopedToCall CachedTokenCurrent
PROPERTY ReissueRevokesFirst KeysOnRing
