\* Concurrent calls, any of which may be cut short.
SPECIFICATION FairSpec
CONSTANTS
  r1 = r1  r2 = r2  r3 = r3
  cake = cake  tea = tea  ghost = ghost
  Products <- MCProducts
  Stocked <- MCStocked
  InitStock <- MCInitStock
  Requests <- MCRequests
  Carts <- AnyCarts
  MaxInFlight = 2
  Interruptible = TRUE
INVARIANTS
  TypeOK
  StockNeverOverdeducted
  OnlyFillableLines
  TakenWasOrdered
  AnswerMatchesRecord
PROPERTY EveryRequestAnswered
CHECK_DEADLOCK FALSE
