SPECIFICATION Spec
CONSTANTS
  Declined = Declined
  TooMany = TooMany
  Scratch = 5
  Chunk = 3
  MaxExp = 5
  BoolTrue <- Truths
  BoolFalse <- Falsehoods
  MaxEdits = 3
  DefaultBytes = 100
  MaxBytes = 200
  Cases <- CheckedCases
INVARIANT FindingsTrue
CHECK_DEADLOCK FALSE
