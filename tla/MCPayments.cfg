\* One order, two links made for it by overlapping calls, overlapping webhooks.
SPECIFICATION FairSpec
CONSTANTS
  o1 = o1  o2 = o2  l1 = l1  l2 = l2  c1 = c1  c2 = c2  h1 = h1  h2 = h2
  Orders <- MCOneOrder
  Links <- MCLinks
  Clerks <- MCTwoClerks
  Handlers <- MCTwoHandlers
  Interruptible = TRUE
INVARIANTS
  TypeOK
  AckedIsSettled
  PaidOrdersWerePaid
  SuccessIsPaid
  ThanksAreDue
PROPERTY PaidLinksSettle
