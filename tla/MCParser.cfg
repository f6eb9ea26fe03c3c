SPECIFICATION Spec
CONSTANTS
  Cases <- MCCases
  HeaderAuto = HeaderAuto
  NameRow = 0
  Names <- MCNames
  ScanRows = 2
INVARIANTS IndexSound DigestsDataRows ReadsGrammar HeaderFound
PROPERTIES RowsStand Returns
CHECK_DEADLOCK FALSE
