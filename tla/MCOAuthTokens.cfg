CONSTANTS
  Users = {u1, u2}
  Codes = {d1, d2}
  Pairs = {t1, t2, t3}
  CLI = {k1}
  Calls = {c1, c2}
  None = none
SPECIFICATION Spec
SYMMETRY Symmetry
INVARIANTS TypeOK OneRefreshTokenPerGrant RevocationEndsGrants
