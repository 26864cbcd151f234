CONSTANTS
  Users = {u1}
  Sources = {s1, s2}
  Public = {}
  Calls = {c1}
  Boot = boot
  Ids = {i1}
  None = none
SPECIFICATION Spec
INVARIANT FailsClosed
