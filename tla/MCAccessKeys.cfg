CONSTANTS
  Users = {u1, u2}
  Founder = u1
  Early = {u2}
  Invs = {}
  Clients = {k1, k2}
  Calls = {c1, c2}
  None = none
  Offers <- OpenOffer
SPECIFICATION Spec
SYMMETRY Symmetry
INVARIANTS RevokedKeysAreDead RemovedMembersKeys
PROPERTY KeysOnRing RevocationsComplete
