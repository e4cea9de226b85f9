\* One session: logoutAllDevices beside a refresh; nothing fails.
SPECIFICATION Spec
CONSTANTS
  w1 = w1  w2 = w2  w3 = w3
  Workers <- MCWorkers
  MaxLogins = 1
  MaxVersion = 1
  MaxTime = 1
  Interruptible = FALSE
INVARIANTS
  AllDevicesLoggedOut
SYMMETRY MCSymmetry
CHECK_DEADLOCK FALSE
