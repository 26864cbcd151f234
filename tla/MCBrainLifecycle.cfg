CONSTANTS
  Brains = {b1, b2}
  Calls = {c1, c2}
  Boot = boot
  Ids = {i1, i2, i3}
  None = none
SPECIFICATION Spec
SYMMETRY Symmetry
INVARIANTS TypeOK ProvisioningIsPending ReadyIsBacked CachedWriterCurrent
PROPERTY NoRevival KeysOnRing
