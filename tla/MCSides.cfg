SPECIFICATION SidesSpec
CONSTANTS
  Names = {a, b, c, d}
  MaxColumns = 4
  Unknown = Unknown
  TypeAt <- MCTypeAt
  Options <- MCOptions
SYMMETRY Symmetry
INVARIANTS PlanPairsNames PolicyExact DigestsMeanTheDiff
CHECK_DEADLOCK FALSE
