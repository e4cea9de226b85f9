\* Two attempts, up to six closes, two exceptions or deaths, a text and a list.
SPECIFICATION Spec
CONSTANTS
  t1 = t1  b1 = b1
  Texts <- MCTexts
  Buttons <- MCButtons
  MaxReconnectAttempts = 2
  MaxErrors = 2
  MaxCloses = 6
INVARIANTS
  TypeOK
  OneChain
  StatusIsTrue
PROPERTIES
  SessionKept
  KeepsTrying
CHECK_DEADLOCK FALSE
