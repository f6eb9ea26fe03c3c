SPECIFICATION Spec
CONSTANTS
  RowShapes <- MCRowShapes
  MaxReport = 3
  RowLimits = {0, 1, 2}
  BufCap = 3
  MaxEmits = 2
INVARIANTS OutputIsPrefix OkIsComplete
PROPERTIES RefusedIsFinal
CHECK_DEADLOCK FALSE
