SPECIFICATION Spec
CONSTANTS
  Names = {a, b, c, d}
  MaxColumns = 3
SYMMETRY Symmetry
INVARIANTS InheritsByName
CHECK_DEADLOCK FALSE
