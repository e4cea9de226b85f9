\* Two overlapping calls for one identity, two codes, one call that breaks off.
SPECIFICATION Spec
CONSTANTS
  w1 = w1  w2 = w2
  Workers <- MCWorkers
  LoginMethods <- MCLoginMethods
  MaxAttempts = 2
  MaxCodes = 2
  MaxSlips = 1
INVARIANTS
  TypeOK
  GuessesBounded
  KeysHaveDeadlines
  SpentIsGone
PROPERTIES
  BlockStands
SYMMETRY MCSymmetry
CHECK_DEADLOCK FALSE
