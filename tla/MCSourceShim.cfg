CONSTANTS
  Calls = {c1, c2, c3}
SPECIFICATION Spec
SYMMETRY Symmetry
INVARIANTS TypeOK CreatedIsComplete AllOrNothing
