\* The comment of the webhook: an order turned PAID gets its row marked.
SPECIFICATION FairSpec
CONSTANTS
  o1 = o1  o2 = o2  l1 = l1  l2 = l2  c1 = c1  c2 = c2  h1 = h1  h2 = h2
  Orders <- MCOneOrder
  Links <- MCLinks
  Clerks <- MCOneClerk
  Handlers <- MCOneHandler
  Interruptible = TRUE

PROPERTY PaidIsRecorded
