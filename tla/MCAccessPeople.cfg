CONSTANTS
  Users = {u1, u2, u3}
  Founder = u1
  Early = {}
  Invs = {n1, n2}
  Clients = {}
  Calls = {c1, c2}
  None = none
  Offers <- AnyOffer
SPECIFICATION Spec
SYMMETRY Symmetry
INVARIANTS TypeOK OneMemberPerInvitation SomeOwner
PROPERTIES InvitationAnsweredOnce RemovedForGood
