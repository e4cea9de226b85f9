\* One customer whose messages overlap; any handler may fail anywhere.
SPECIFICATION Spec
CONSTANTS
  alice = alice  w1 = w1  w2 = w2  UPPER = UPPER  lower = lower
  Customers <- MCCustomers
  Workers <- MCWorkers
  Products <- MCProducts
  UpperIds <- MCUpperIds
  Inputs <- MCInputs
  Interruptible = TRUE
INVARIANTS
  TypeOK
  CheckoutHasCart
  NoEmptyOrder
  CodAddressAnswered
  ConfirmationBacked
PROPERTY HandoverHolds
SYMMETRY MCSymmetry
