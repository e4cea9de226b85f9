--------------------------- MODULE MCConversation ---------------------------
(* Small instances of Conversation for TLC.                                *)
EXTENDS Conversation, TLC

CONSTANTS alice, w1, w2, UPPER, lower

MCCustomers == {alice}
MCWorkers == {w1, w2}
MCProducts == {UPPER, lower}
MCUpperIds == {UPPER}
MCSymmetry == Permutations(MCWorkers)

Typed(word) == [kind |-> "text", word |-> word, product |-> UPPER]

\* Every word typed, the product words with either kind of id, and a tap.
MCInputs ==
  {Typed(word) : word \in Words}
    \cup {[Typed("PRODUCT") EXCEPT !.product = lower],
          [Typed("PRODUCT") EXCEPT !.kind = "response"]}
=============================================================================
