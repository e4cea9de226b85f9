------------------------------ MODULE MCOrders ------------------------------
(* Small instances of Orders for TLC.                                      *)
EXTENDS Orders, TLC

CONSTANTS r1, r2, r3, cake, tea, ghost

MCProducts == {cake, tea, ghost}
MCStocked == {cake, tea}
MCRequests == {r1, r2, r3}
TwoRequests == {r1, r2}
MCInitStock == cake :> 2 @@ tea :> 1

Of(p, n) == [product |-> p, qty |-> n]

\* Carts as the conversation builds them: a product appears on one line only.
ChatCarts ==
  {<<Of(cake, 1)>>, <<Of(cake, 2)>>, <<Of(cake, 1), Of(tea, 1)>>,
   <<Of(tea, 1), Of(cake, 2)>>, <<Of(tea, 1), Of(ghost, 1)>>}

\* POST /orders also takes an empty list, a repeated product, a quantity beyond
\* the stock, and one that is zero or negative.
AnyCarts == {<<>>, <<Of(tea, 1), Of(cake, 2)>>, <<Of(cake, 1), Of(cake, 2)>>,
             <<Of(ghost, 1)>>, <<Of(ghost, 0), Of(cake, -2)>>, <<Of(cake, 3)>>}
=============================================================================
