SPECIFICATION Spec
CONSTANTS
  Cursors = {c1, c2}
  MaxSrc = 3
  MaxTgt = 3
  MaxCells = 1
  MaxResets = 1
INVARIANTS
  TypeOK
  ListsSound
  CountsFinal
  CellsAccumulate
PROPERTIES
  ImplementsReport
  Drains
CHECK_DEADLOCK FALSE
