SPECIFICATION Spec
CONSTANTS
  Rows = {1, 2, 3, 4, 5}
  CreatedAt <- OneTie
  Limits <- AskedLimits
  Pages <- AskedPages
  Default = 2
  Largest = 4
  MaxInt = 31
INVARIANTS TypeOK WalkSeesAll SecondPageHasReason
CHECK_DEADLOCK FALSE
