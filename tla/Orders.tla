------------------------------- MODULE Orders -------------------------------
(***************************************************************************)
(* OrdersService.placeOrder together with the InventoryService it calls.   *)
(*                                                                         *)
(* A request walks its item list three times: once to validate the stock   *)
(* of every line, once (in one nested create) to record the order, once to *)
(* deduct every line.  Each database call is awaited, so requests          *)
(* interleave between any two calls, and deductStock itself is two calls:  *)
(* it reads the row and later writes back an absolute value computed from  *)
(* what it read.  No transaction, lock or conditional update guards any of *)
(* this.                                                                   *)
(***************************************************************************)
EXTENDS Integers, Sequences, FiniteSets, Functions

CONSTANTS
  Products,       \* product ids
  Stocked,        \* the products that have an Inventory row
  InitStock,      \* the stock in each row at the start
  Requests,       \* the calls of placeOrder
  Carts,          \* the item lists a call may carry
  MaxInFlight,    \* how many calls may be in progress at once
  Interruptible   \* whether a call may be cut short (database error, crash)

\* POST /orders passes its body on unchecked: the quantity of a line may be zero
\* or negative (the chat only builds positive ones).  A quantity that is no
\* integer is refused, or fails at the create like any rejected database call.
Item == [product : Products, qty : Int]

ASSUME OrdersAssumption ==
  /\ Stocked \subseteq Products
  /\ InitStock \in [Stocked -> Nat]
  /\ Carts \subseteq Seq(Item)
  /\ MaxInFlight \in Nat \ {0}
  /\ Interruptible \in BOOLEAN

VARIABLES
  stock,    \* inventory.stock of each row
  orders,   \* the rows of the order table, with their items
  pc,       \* where each call stands
  items,    \* the items argument of each call
  line,     \* the index of the loop a call is in
  seen,     \* the stock deductStock read and has not yet used
  taken,    \* history: the units each row has been asked to give up so far
  added     \* history: the units lines of negative quantity have put into each row

vars == <<stock, orders, pc, items, line, seen, taken, added>>

Stages == {"new", "validating", "reading", "writing", "placed", "refused", "failed"}
InProgress == {"validating", "reading", "writing"}
Order == [id : Requests, items : Carts]

-----------------------------------------------------------------------------
(* The pure parts of the two services.                                     *)

Max0(n) == IF n > 0 THEN n ELSE 0

\* Mutants: the clamp forgotten, and one unit too many deducted.
UnclampedNewStock(s, q) == s - q
OffByOneNewStock(s, q) == Max0(s - q - 1)

\* deductStock: Math.max(0, inventory.stock - quantity).  A negative quantity
\* raises the row.
NewStock(s, q) == Max0(s - q)

\* Mutant: a product without a row counts as available.
UntrackedAvailable(p, q) == IF p \in Stocked THEN stock[p] >= q ELSE TRUE

\* validateStock: a missing row counts as stock 0, and any stock will do for a
\* quantity that is not positive.
Available(p, q) == (IF p \in Stocked THEN stock[p] ELSE 0) >= q

\* What a line asks a row to give up, or, with a negative quantity, to take back.
Asked(l) == Max0(l.qty)
PutBack(l) == Max0(-l.qty)

Current(r) == items[r][line[r]]
LinesLeft(r) == line[r] <= Len(items[r])

\* Mutant: the loop variable is not moved.
StuckNextLine(r) == line
NextLine(r) == [line EXCEPT ![r] = @ + 1]

-----------------------------------------------------------------------------
Init ==
  /\ stock = InitStock
  /\ orders = {}
  /\ pc = [r \in Requests |-> "new"]
  /\ items = [r \in Requests |-> <<>>]
  /\ line = [r \in Requests |-> 1]
  /\ seen = [r \in Requests |-> 0]
  /\ taken = [p \in Stocked |-> 0]
  /\ added = [p \in Stocked |-> 0]

\* A POST /orders, or the conversation's finalizeOrder, calls placeOrder.
Submit(r) ==
  /\ pc[r] = "new"
  /\ Cardinality({s \in Requests : pc[s] \in InProgress}) < MaxInFlight
  /\ \E cart \in Carts : items' = [items EXCEPT ![r] = cart]
  /\ pc' = [pc EXCEPT ![r] = "validating"]
  /\ UNCHANGED <<stock, orders, line, seen, taken, added>>

\* validateStock of the current line says yes.
Validate(r) ==
  /\ pc[r] = "validating" /\ LinesLeft(r)
  /\ Available(Current(r).product, Current(r).qty)
  /\ line' = NextLine(r)
  /\ UNCHANGED <<stock, orders, pc, items, seen, taken, added>>

\* validateStock says no: placeOrder throws before anything is written.
Refuse(r) ==
  /\ pc[r] = "validating" /\ LinesLeft(r)
  /\ ~Available(Current(r).product, Current(r).qty)
  /\ pc' = [pc EXCEPT ![r] = "refused"]
  /\ UNCHANGED <<stock, orders, items, line, seen, taken, added>>

\* Mutant: the order is never saved.
UnsavedCreate(r) ==
  /\ pc[r] = "validating" /\ ~LinesLeft(r)
  /\ pc' = [pc EXCEPT ![r] = "reading"]
  /\ line' = [line EXCEPT ![r] = 1]
  /\ UNCHANGED <<stock, orders, items, seen, taken, added>>

\* createWithItems: the order and its items in one nested create.
Create(r) ==
  /\ pc[r] = "validating" /\ ~LinesLeft(r)
  /\ orders' = orders \cup {[id |-> r, items |-> items[r]]}
  /\ pc' = [pc EXCEPT ![r] = "reading"]
  /\ line' = [line EXCEPT ![r] = 1]
  /\ UNCHANGED <<stock, items, seen, taken, added>>

\* deductStock, first await: the row is read; with no row there is nothing to do.
ReadStock(r) ==
  /\ pc[r] = "reading" /\ LinesLeft(r)
  /\ LET p == Current(r).product IN
       /\ pc' = [pc EXCEPT ![r] = IF p \in Stocked THEN "writing" ELSE @]
       /\ seen' = [seen EXCEPT ![r] = IF p \in Stocked THEN stock[p] ELSE @]
       /\ line' = IF p \in Stocked THEN line ELSE NextLine(r)
  /\ UNCHANGED <<stock, orders, items, taken, added>>

\* Mutant: the same line is deducted again.
RepeatedWriteStock(r) ==
  /\ pc[r] = "writing"
  /\ LET p == Current(r).product IN
       /\ stock' = [stock EXCEPT ![p] = NewStock(seen[r], Current(r).qty)]
       /\ taken' = [taken EXCEPT ![p] = @ + Asked(Current(r))]
       /\ added' = [added EXCEPT ![p] = @ + PutBack(Current(r))]
  /\ pc' = [pc EXCEPT ![r] = "reading"]
  /\ seen' = [seen EXCEPT ![r] = 0]
  /\ UNCHANGED <<orders, items, line>>

\* deductStock, second await: an absolute value computed from what was read.
WriteStock(r) ==
  /\ pc[r] = "writing"
  /\ LET p == Current(r).product IN
       /\ stock' = [stock EXCEPT ![p] = NewStock(seen[r], Current(r).qty)]
       /\ taken' = [taken EXCEPT ![p] = @ + Asked(Current(r))]
       /\ added' = [added EXCEPT ![p] = @ + PutBack(Current(r))]
  /\ pc' = [pc EXCEPT ![r] = "reading"]
  /\ seen' = [seen EXCEPT ![r] = 0]
  /\ line' = NextLine(r)
  /\ UNCHANGED <<orders, items>>

\* All lines deducted: the order is returned to the caller.
Return(r) ==
  /\ pc[r] = "reading" /\ ~LinesLeft(r)
  /\ pc' = [pc EXCEPT ![r] = "placed"]
  /\ UNCHANGED <<stock, orders, items, line, seen, taken, added>>

\* A rejected database call or the death of the process ends the call where it
\* stands; nothing is undone and nobody resumes it.
Interrupt(r) ==
  /\ Interruptible /\ pc[r] \in InProgress
  /\ pc' = [pc EXCEPT ![r] = "failed"]
  /\ UNCHANGED <<stock, orders, items, line, seen, taken, added>>

Step(r) ==
  \/ Validate(r) \/ Refuse(r) \/ Create(r)
  \/ ReadStock(r) \/ WriteStock(r) \/ Return(r)

Next == \E r \in Requests : Submit(r) \/ Step(r) \/ Interrupt(r)

\* Every awaited database call is answered, so a call in progress keeps moving.
Fairness == \A r \in Requests : WF_vars(Step(r))

Spec == Init /\ [][Next]_vars
FairSpec == Spec /\ Fairness

-----------------------------------------------------------------------------
(* Type invariant.                                                         *)
TypeOK ==
  /\ stock \in [Stocked -> Nat]
  /\ orders \subseteq Order
  /\ pc \in [Requests -> Stages]
  /\ items \in [Requests -> Carts \cup {<<>>}]
  /\ line \in [Requests -> Nat \ {0}]
  /\ seen \in [Requests -> Nat]
  /\ taken \in [Stocked -> Nat]
  /\ added \in [Stocked -> Nat]

-----------------------------------------------------------------------------
(* Safety, under any interleaving and any interruption.                    *)

\* A row may lose a deduction (two deductStock calls that read the same value)
\* but never gives up more than the deductions made on it: no order of stale
\* writes takes a unit twice, and no line of negative quantity takes any.
StockNeverOverdeducted ==
  \A p \in Stocked : stock[p] + taken[p] >= InitStock[p]

\* The most that the shop could ever hold of a product: its opening stock and
\* what lines of negative quantity have put on top of it.
Ceiling(p) == IF p \in Stocked THEN InitStock[p] + added[p] ELSE 0

\* No order ever holds a line that the shop could not have filled: the stale
\* writes of deductStock raise a row back up, but never above that ceiling, so
\* the validation of placeOrder still bounds each line.
OnlyFillableLines ==
  \A o \in orders : \A i \in DOMAIN o.items :
    o.items[i].qty <= Ceiling(o.items[i].product)

\* How many units of p each line of a list of items asks for.
LineUnits(p, list) ==
  [i \in DOMAIN list |-> IF list[i].product = p THEN Asked(list[i]) ELSE 0]

\* The units of p in a list of items.
UnitsOf(p, list) == SumFunction(LineUnits(p, list))

\* The units of p in all recorded orders.
Ordered(p) == SumFunction([o \in orders |-> UnitsOf(p, o.items)])

\* Stock is only ever taken for units of a recorded order, each at most once,
\* whatever call was interrupted where.
TakenWasOrdered ==
  \A p \in Stocked : taken[p] <= Ordered(p)

\* What the caller is told agrees with the order table: a refusal means nothing
\* was recorded, a returned order is recorded with the items asked for.
AnswerMatchesRecord ==
  \A r \in Requests :
    /\ pc[r] \in {"new", "validating", "refused"} => \A o \in orders : o.id # r
    /\ pc[r] \in {"reading", "writing", "placed"} => [id |-> r, items |-> items[r]] \in orders

-----------------------------------------------------------------------------
(* Statements of the code's comments that the interleavings refute.        *)

\* "Place an order after stock validation": the units promised to customers
\* never exceed the stock the shop had.
NoOversell ==
  \A p \in Stocked : Ordered(p) <= InitStock[p]

\* "Deduct stock upon order confirmation": once every call has returned its
\* order or been refused, each row shows what was ordered.
StockReflectsOrders ==
  (\A r \in Requests : pc[r] \in {"new", "placed", "refused"})
    => \A p \in Stocked : stock[p] = Max0(InitStock[p] - Ordered(p))

-----------------------------------------------------------------------------
(* Liveness: a call that started is answered or cut short.                 *)
EveryRequestAnswered ==
  \A r \in Requests :
    pc[r] = "validating" ~> pc[r] \in {"placed", "refused", "failed"}

-----------------------------------------------------------------------------
(* What a single caller at a time gets: an atomic shop.                    *)

\* The units of p that recorded orders still have to take off the row.
Deducting == {r \in Requests : pc[r] \in {"reading", "writing"}}
UnitsLeft(p, r) ==
  SumFunctionOnSet(LineUnits(p, items[r]), {i \in DOMAIN items[r] : i >= line[r]})
Owed(p) == SumFunction([r \in Deducting |-> UnitsLeft(p, r)])

Shop == INSTANCE Shop WITH
  shelf <- [p \in Stocked |-> stock[p] - Owed(p)],
  sales <- orders

\* With one call at a time and none cut short, placeOrder is the atomic
\* purchase of Shop: it takes effect at the create, all lines or none.
ImplementsShop == Shop!Spec
=============================================================================
