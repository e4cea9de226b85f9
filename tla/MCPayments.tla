----------------------------- MODULE MCPayments -----------------------------
(* Small instances of Payments for TLC.                                    *)
EXTENDS Payments, TLC

CONSTANTS o1, o2, l1, l2, c1, c2, h1, h2

MCTwoOrders == {o1, o2}
MCOneOrder == {o1}
MCLinks == {l1, l2}
MCTwoClerks == {c1, c2}
MCOneClerk == {c1}
MCTwoHandlers == {h1, h2}
MCOneHandler == {h1}
=============================================================================
