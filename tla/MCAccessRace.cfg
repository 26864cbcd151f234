CONSTANTS
  Users = {u1, u2}
  Founder = u1
  Early = {u2}
  Invs = {}
  Clients = {k1}
  Calls = {c1, c2}
  None = none
  Offers <- OpenOffer
SPECIFICATION Spec
INVARIANT RemovedMembersHaveNoKeys
