SPECIFICATION Spec
CONSTANTS
  PagesOf <- SmallReport
  CompactPages = 2
  ValuePages = 1
  MaxAsked = 3
INVARIANT OneReport
CHECK_DEADLOCK FALSE
