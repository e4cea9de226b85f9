\* A campaign to one contact, two starts beside the bulk route, two calls that
\* fail, and a death of the process or a lost connection to the broker.  A process
\* that nobody calls rests.
SPECIFICATION Spec
CONSTANTS
  c1 = c1  s1 = s1  s2 = s2
  Contacts <- MCContacts
  Starts <- MCStarts
  Bulk = bulk
  MaxErrors = 2
  MaxBreaks = 1
INVARIANTS
  TypeOK
  LateStartsEmitNothing
  OnceAndOncePerReturn
  LogsAreTrue
PROPERTIES
  QueuedIsHandled
CHECK_DEADLOCK FALSE
