CONSTANTS
  Slugs = {a}
  Still = {b, c}
  Entries = {e1, e2}
  Calls = {c1, c2, c3}
  None = none
SPECIFICATION Spec
SYMMETRY Symmetry
INVARIANTS TypeOK SavedEntriesStay TextAndLinkAgree
