\* One call at a time, none cut short.
SPECIFICATION Spec
CONSTANTS
  r1 = r1  r2 = r2  r3 = r3
  cake = cake  tea = tea  ghost = ghost
  Products <- MCProducts
  Stocked <- MCStocked
  InitStock <- MCInitStock
  Requests <- MCRequests
  Carts <- ChatCarts
  MaxInFlight = 1
  Interruptible = FALSE
INVARIANT StockReflectsOrders
PROPERTY ImplementsShop
CHECK_DEADLOCK FALSE
