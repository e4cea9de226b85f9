\* Two chats, two messages, two sends of the operator, two histories at once,
\* two requests for the conversations.
SPECIFICATION Spec
CONSTANTS
  c1 = c1  c2 = c2  s1 = s1  s2 = s2  r1 = r1  r2 = r2  l1 = l1  l2 = l2
  Chats <- MCChats
  Sends <- MCSends
  Slots <- MCSlots
  Loads <- MCLoads
  MaxMessages = 2
  HistoryLimit = 1
INVARIANTS
  WindowIsTrue
  NothingElseIsMissed
SYMMETRY Symmetry
CHECK_DEADLOCK FALSE
