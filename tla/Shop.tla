-------------------------------- MODULE Shop --------------------------------
(***************************************************************************)
(* What placing an order promises, without its steps: a purchase takes all *)
(* of its units off the shelf and records the order in one step, or does   *)
(* not happen.                                                             *)
(***************************************************************************)
EXTENDS Integers, Functions

CONSTANTS Stocked, InitStock, Requests, Carts

VARIABLES shelf, sales

shopVars == <<shelf, sales>>

Units(p, list) ==
  SumFunction([i \in DOMAIN list |-> IF list[i].product = p THEN list[i].qty ELSE 0])

Init == shelf = InitStock /\ sales = {}

Sell(r, cart) ==
  /\ \A s \in sales : s.id # r
  /\ \A i \in DOMAIN cart : cart[i].product \in Stocked
  /\ \A p \in Stocked : Units(p, cart) <= shelf[p]
  /\ shelf' = [p \in Stocked |-> shelf[p] - Units(p, cart)]
  /\ sales' = sales \cup {[id |-> r, items |-> cart]}

Next == \E r \in Requests, cart \in Carts : Sell(r, cart)

Spec == Init /\ [][Next]_shopVars
=============================================================================
