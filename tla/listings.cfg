SPECIFICATION MCSpec
CONSTANTS
  None = None
  Default = 1
  Cap = 2
  MaxLimit = 3
  MaxKey = 3
  MaxRows = 3
  MaxChanges = 1
  Writers = {w1, w2}
SYMMETRY Interchangeable
INVARIANTS
  TypeOK
  NothingSkipped
  NothingRepeated
CHECK_DEADLOCK FALSE
