SPECIFICATION Spec
CONSTANTS
  k1 = k1
  k2 = k2
  Keys <- MCKeys
  Count = 2
  Window = 2
  MaxTime = 5
SYMMETRY KeySymmetry
INVARIANTS TwoWindowBound DenyJustified IInv
PROPERTIES RetryAfterExact
CHECK_DEADLOCK FALSE
