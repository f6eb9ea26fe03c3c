SPECIFICATION Spec
CONSTANTS
  Cases <- HeadedCases
  HeaderAuto = HeaderAuto
  NameRow = 1
  Names <- MCNames
  ScanRows = 2
INVARIANTS HeaderFound
CHECK_DEADLOCK FALSE
