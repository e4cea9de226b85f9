\* Two callers at once, none cut short.
SPECIFICATION Spec
CONSTANTS
  r1 = r1  r2 = r2  r3 = r3
  cake = cake  tea = tea  ghost = ghost
  Products <- MCProducts
  Stocked <- MCStocked
  InitStock <- MCInitStock
  Requests <- TwoRequests
  Carts <- ChatCarts
  MaxInFlight = 2
  Interruptible = FALSE
INVARIANT NoOversell
CHECK_DEADLOCK FALSE
