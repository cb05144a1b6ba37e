SPECIFICATION Spec
CONSTANTS
  Updates = {u1}
  First = 0
  Last = 6
  Jumps = FALSE
INVARIANTS
  RangeInv
  Anchored
  LowestUnusedIsFound
PROPERTIES
  RangeRecordsStay
