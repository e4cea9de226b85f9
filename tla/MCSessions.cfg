\* Two sessions of a user, three overlapping calls, any of which may be cut short.
SPECIFICATION Spec
CONSTANTS
  w1 = w1  w2 = w2  w3 = w3
  Workers <- MCWorkers
  MaxLogins = 2
  MaxVersion = 1
  MaxTime = 1
  Interruptible = TRUE
INVARIANTS
  TypeOK
  OneTokenPerSession
  SurvivorsWereUnderWay
SYMMETRY MCSymmetry
CHECK_DEADLOCK FALSE
