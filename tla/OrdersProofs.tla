---------------------------- MODULE OrdersProofs ----------------------------
(***************************************************************************)
(* Theorems about Orders, for any products, stock, carts and number of     *)
(* concurrent calls.  They come from three inductive invariants:           *)
(*   - IInv adds to the properties what a call in progress knows: the      *)
(*     lines it has validated, the cart it works from, and the value of    *)
(*     the row it has read but not yet written back;                       *)
(*   - LedgerInv adds the exact account of the units taken, line by line   *)
(*     of every order, and rests on the lemmas about finite sums;          *)
(*   - SerialInv adds what holds when calls do not overlap, and carries    *)
(*     the refinement of Shop.                                             *)
(***************************************************************************)
EXTENDS Orders, FiniteSetTheorems, TLAPS

-----------------------------------------------------------------------------
(* The inductive invariant.                                                *)

Fillable(l) == l.qty <= Ceiling(l.product)

\* A call carries one of the carts from the moment it is submitted.
CartKnown == \A r \in Requests : pc[r] # "new" => items[r] \in Carts

\* Stale writes raise a row again, but not above where it began and what was put
\* on top of that.
StockWithinCeiling == \A p \in Stocked : stock[p] <= InitStock[p] + added[p]

\* What is true of a row stays true, in this form, of an old reading of it:
\* taken and added only grow, so a stale write obeys the same bounds as a fresh one.
SeenIsBounded ==
  \A r \in Requests : pc[r] = "writing" =>
    /\ line[r] \in 1 .. Len(items[r])
    /\ Current(r).product \in Stocked
    /\ seen[r] + taken[Current(r).product] >= InitStock[Current(r).product]
    /\ seen[r] <= InitStock[Current(r).product] + added[Current(r).product]

\* A call that has not started is at its first line.
FreshLine == \A r \in Requests : pc[r] = "new" => line[r] = 1

\* The lines a call has passed in its validation loop are fillable.
ValidatedLines ==
  \A r \in Requests : pc[r] = "validating" =>
    \A i \in 1 .. Len(items[r]) : i < line[r] => Fillable(items[r][i])

IInv ==
  /\ TypeOK
  /\ CartKnown
  /\ FreshLine
  /\ StockWithinCeiling
  /\ SeenIsBounded
  /\ ValidatedLines
  /\ StockNeverOverdeducted
  /\ OnlyFillableLines
  /\ AnswerMatchesRecord

-----------------------------------------------------------------------------
(* Lemmas about the data.                                                  *)

\* deductStock never writes a negative stock, never less than what was read
\* minus the units asked for, and never more than what was read and put back.
LEMMA NewStockBounds ==
  ASSUME NEW s \in Nat, NEW q \in Int
  PROVE  /\ Max0(q) \in Nat /\ Max0(-q) \in Nat
         /\ NewStock(s, q) \in Nat
         /\ NewStock(s, q) >= s - Max0(q)
         /\ NewStock(s, q) <= s + Max0(-q)
  BY DEF NewStock, Max0

\* Every line of a cart is an item.
LEMMA LineOfCart ==
  ASSUME NEW cart \in Carts, NEW i \in 1 .. Len(cart)
  PROVE  /\ cart[i] \in Item
         /\ cart[i].product \in Products
         /\ cart[i].qty \in Int
  <1>1. cart \in Seq(Item)
    BY OrdersAssumption DEF OrdersAssumption
  <1>2. cart[i] \in Item
    BY <1>1
  <1> QED
    BY <1>2 DEF Item

\* A line that validateStock accepts is within the ceiling of its product.
LEMMA AvailableIsFillable ==
  ASSUME TypeOK, StockWithinCeiling, NEW l \in Item, Available(l.product, l.qty)
  PROVE  Fillable(l)
  <1>0. l.qty \in Int
    BY DEF Item
  <1>1. CASE l.product \in Stocked
    <2>1. /\ stock[l.product] \in Nat /\ added[l.product] \in Nat /\ InitStock[l.product] \in Nat
          /\ stock[l.product] <= InitStock[l.product] + added[l.product]
      BY <1>1, OrdersAssumption DEF OrdersAssumption, TypeOK, StockWithinCeiling
    <2>2. stock[l.product] >= l.qty
      BY <1>1 DEF Available
    <2> QED
      BY <1>0, <1>1, <2>1, <2>2 DEF Fillable, Ceiling
  <1>2. CASE l.product \notin Stocked
    BY <1>0, <1>2 DEF Available, Fillable, Ceiling
  <1> QED
    BY <1>1, <1>2

\* A line of positive quantity that validateStock accepts names a stocked product
\* and asks for no more than the row holds.
LEMMA AvailableIsStocked ==
  ASSUME TypeOK, NEW p, NEW q \in Nat, q > 0, Available(p, q)
  PROVE  p \in Stocked /\ q <= stock[p]
  <1>1. p \in Stocked
    BY DEF Available
  <1>2. stock[p] >= q /\ stock[p] \in Nat
    BY <1>1 DEF Available, TypeOK
  <1> QED
    BY <1>1, <1>2

-----------------------------------------------------------------------------
(* The initial states satisfy the invariant.                               *)
LEMMA InitIInv == Init => IInv
  <1> SUFFICES ASSUME Init PROVE IInv
    OBVIOUS
  <1> USE DEF Init
  <1>1. TypeOK
    BY OrdersAssumption DEF OrdersAssumption, TypeOK, Stages, Order
  <1>2. StockWithinCeiling /\ StockNeverOverdeducted
    BY OrdersAssumption DEF OrdersAssumption, StockWithinCeiling, StockNeverOverdeducted
  <1>3. CartKnown /\ FreshLine /\ SeenIsBounded /\ ValidatedLines
    BY DEF CartKnown, FreshLine, SeenIsBounded, ValidatedLines
  <1>4. OnlyFillableLines /\ AnswerMatchesRecord
    BY DEF OnlyFillableLines, Ceiling, AnswerMatchesRecord
  <1> QED
    BY <1>1, <1>2, <1>3, <1>4 DEF IInv

-----------------------------------------------------------------------------
(* Every step preserves the invariant: one lemma per action.               *)

LEMMA SubmitKeepsIInv ==
  ASSUME IInv, NEW r \in Requests, Submit(r)
  PROVE  IInv'
  <1> USE DEF IInv, Submit
  <1>1. PICK cart \in Carts : items' = [items EXCEPT ![r] = cart]
    OBVIOUS
  <1>2. TypeOK'
    BY <1>1 DEF TypeOK, Stages
  <1>3. CartKnown' /\ FreshLine'
    BY <1>1 DEF CartKnown, FreshLine, TypeOK
  <1>4. StockWithinCeiling' /\ StockNeverOverdeducted' /\ OnlyFillableLines'
    BY DEF StockWithinCeiling, StockNeverOverdeducted, OnlyFillableLines, Ceiling
  <1>5. SeenIsBounded'
    BY <1>1 DEF SeenIsBounded, Current, TypeOK
  <1>6. ValidatedLines'
    <2>1. line[r] = 1
      BY DEF FreshLine
    <2>2. \A l : Fillable(l)' <=> Fillable(l)
      BY DEF Fillable, Ceiling
    <2> QED
      BY <1>1, <2>1, <2>2 DEF ValidatedLines, TypeOK
  <1>7. AnswerMatchesRecord'
    BY <1>1 DEF AnswerMatchesRecord, TypeOK
  <1> QED
    BY <1>2, <1>3, <1>4, <1>5, <1>6, <1>7

LEMMA ValidateKeepsIInv ==
  ASSUME IInv, NEW r \in Requests, Validate(r)
  PROVE  IInv'
  <1> USE DEF IInv, Validate, LinesLeft
  <1>1. items[r] \in Carts /\ line[r] \in 1 .. Len(items[r])
    <2>1. items[r] \in Carts
      BY DEF CartKnown
    <2>2. items[r] \in Seq(Item)
      BY <2>1, OrdersAssumption DEF OrdersAssumption
    <2> QED
      BY <2>1, <2>2 DEF TypeOK
  <1>2. Fillable(Current(r))
    <2>1. Current(r) \in Item
      BY <1>1, LineOfCart DEF Current
    <2> QED
      BY <2>1, AvailableIsFillable
  <1>3. TypeOK'
    BY DEF TypeOK, NextLine
  <1>4. CartKnown' /\ FreshLine' /\ StockWithinCeiling' /\ StockNeverOverdeducted'
          /\ OnlyFillableLines'
    BY DEF CartKnown, FreshLine, NextLine, TypeOK, StockWithinCeiling, StockNeverOverdeducted, OnlyFillableLines, Ceiling
  <1>5. SeenIsBounded'
    BY DEF SeenIsBounded, Current, NextLine, TypeOK
  <1>6. ValidatedLines'
    <2> SUFFICES ASSUME NEW s \in Requests, pc[s] = "validating",
                        NEW i \in 1 .. Len(items[s]), i < line'[s]
                 PROVE  Fillable(items[s][i])
      BY DEF ValidatedLines, Fillable, Ceiling
    <2>1. CASE s = r /\ i = line[r]
      BY <2>1, <1>2 DEF Current
    <2>2. CASE ~(s = r /\ i = line[r])
      <3>1. i < line[s]
        BY <2>2 DEF NextLine, TypeOK
      <3> QED
        BY <3>1 DEF ValidatedLines
    <2> QED
      BY <2>1, <2>2
  <1>7. AnswerMatchesRecord'
    BY DEF AnswerMatchesRecord
  <1> QED
    BY <1>3, <1>4, <1>5, <1>6, <1>7

\* Refusing, returning and being cut short change nothing but the stage.
LEMMA EndKeepsIInv ==
  ASSUME IInv, NEW r \in Requests, Refuse(r) \/ Return(r) \/ Interrupt(r)
  PROVE  IInv'
  <1> USE DEF IInv
  <1>1. /\ UNCHANGED <<stock, orders, items, line, seen, taken, added>>
        /\ \/ pc[r] = "validating" /\ pc' = [pc EXCEPT ![r] = "refused"]
           \/ pc[r] = "reading" /\ pc' = [pc EXCEPT ![r] = "placed"]
           \/ pc[r] \in InProgress /\ pc' = [pc EXCEPT ![r] = "failed"]
    BY DEF Refuse, Return, Interrupt
  <1>2. TypeOK'
    BY <1>1 DEF TypeOK, Stages
  <1>3. CartKnown' /\ FreshLine'
    BY <1>1 DEF CartKnown, FreshLine, TypeOK, InProgress
  <1>4. StockWithinCeiling' /\ StockNeverOverdeducted' /\ OnlyFillableLines'
    BY <1>1 DEF StockWithinCeiling, StockNeverOverdeducted, OnlyFillableLines, Ceiling
  <1>5. SeenIsBounded' /\ ValidatedLines'
    BY <1>1 DEF SeenIsBounded, ValidatedLines, Fillable, Ceiling, Current, TypeOK
  <1>6. AnswerMatchesRecord'
    BY <1>1 DEF AnswerMatchesRecord, TypeOK, InProgress
  <1> QED
    BY <1>2, <1>3, <1>4, <1>5, <1>6

\* The new order's lines have all been validated.
LEMMA CreateKeepsIInv ==
  ASSUME IInv, NEW r \in Requests, Create(r)
  PROVE  IInv'
  <1> USE DEF IInv, Create
  <1>1. items[r] \in Carts /\ items[r] \in Seq(Item)
    BY OrdersAssumption DEF OrdersAssumption, CartKnown
  <1>2. \A i \in DOMAIN items[r] : Fillable(items[r][i])
    <2>1. DOMAIN items[r] = 1 .. Len(items[r]) /\ Len(items[r]) \in Nat
      BY <1>1
    <2>2. line[r] > Len(items[r])
      BY <2>1 DEF LinesLeft, TypeOK
    <2>3. ASSUME NEW i \in 1 .. Len(items[r]) PROVE Fillable(items[r][i])
      <3>1. i < line[r]
        BY <2>1, <2>2 DEF TypeOK
      <3> QED
        BY <3>1 DEF ValidatedLines
    <2> QED
      BY <2>1, <2>3
  <1>3. TypeOK'
    BY <1>1 DEF TypeOK, Stages, Order
  <1>4. CartKnown' /\ FreshLine' /\ StockWithinCeiling' /\ StockNeverOverdeducted'
    BY <1>1 DEF CartKnown, FreshLine, StockWithinCeiling, StockNeverOverdeducted, TypeOK
  <1>5. OnlyFillableLines'
    BY <1>2 DEF OnlyFillableLines, Fillable, Ceiling
  <1>6. SeenIsBounded' /\ ValidatedLines'
    BY DEF SeenIsBounded, ValidatedLines, Fillable, Ceiling, Current, TypeOK
  <1>7. AnswerMatchesRecord'
    <2> SUFFICES ASSUME NEW s \in Requests PROVE
          /\ pc'[s] \in {"new", "validating", "refused"} => \A o \in orders' : o.id # s
          /\ pc'[s] \in {"reading", "writing", "placed"} =>
               [id |-> s, items |-> items[s]] \in orders'
      BY DEF AnswerMatchesRecord
    <2>1. CASE s = r
      BY <2>1 DEF TypeOK
    <2>2. CASE s # r
      BY <2>2 DEF AnswerMatchesRecord, TypeOK
    <2> QED
      BY <2>1, <2>2
  <1> QED
    BY <1>3, <1>4, <1>5, <1>6, <1>7

\* What is read obeys the bounds of the row.
LEMMA ReadKeepsIInv ==
  ASSUME IInv, NEW r \in Requests, ReadStock(r)
  PROVE  IInv'
  <1> USE DEF IInv, ReadStock
  <1> DEFINE p == Current(r).product
  <1>1. line[r] \in 1 .. Len(items[r])
    <2>1. items[r] \in Seq(Item)
      BY OrdersAssumption DEF OrdersAssumption, CartKnown
    <2> QED
      BY <2>1 DEF LinesLeft, TypeOK
  <1>2. p \in Stocked => /\ stock[p] \in Nat /\ taken[p] \in Nat
                         /\ stock[p] + taken[p] >= InitStock[p]
                         /\ stock[p] <= InitStock[p] + added[p]
    BY DEF TypeOK, StockNeverOverdeducted, StockWithinCeiling
  <1>3. TypeOK'
    BY <1>2 DEF TypeOK, Stages, NextLine
  <1>4. CartKnown' /\ FreshLine' /\ ValidatedLines'
    BY DEF CartKnown, FreshLine, ValidatedLines, Fillable, Ceiling, NextLine, TypeOK
  <1>5. StockWithinCeiling' /\ StockNeverOverdeducted' /\ OnlyFillableLines'
    BY DEF StockWithinCeiling, StockNeverOverdeducted, OnlyFillableLines, Ceiling
  <1>6. SeenIsBounded'
    <2> SUFFICES ASSUME NEW s \in Requests, pc'[s] = "writing"
                 PROVE  /\ line'[s] \in 1 .. Len(items'[s])
                        /\ Current(s)'.product \in Stocked
                        /\ seen'[s] + taken'[Current(s)'.product] >= InitStock[Current(s)'.product]
                        /\ seen'[s] <= InitStock[Current(s)'.product] + added'[Current(s)'.product]
      BY DEF SeenIsBounded
    <2>1. CASE s = r
      <3>1. p \in Stocked /\ line' = line /\ seen'[r] = stock[p] /\ Current(r)' = Current(r)
        BY <2>1 DEF TypeOK, Current
      <3> QED
        BY <3>1, <2>1, <1>1, <1>2
    <2>2. CASE s # r
      <3>1. pc[s] = "writing" /\ line'[s] = line[s] /\ seen'[s] = seen[s]
            /\ Current(s)' = Current(s)
        BY <2>2 DEF TypeOK, NextLine, Current
      <3> QED
        BY <3>1 DEF SeenIsBounded
    <2> QED
      BY <2>1, <2>2
  <1>7. AnswerMatchesRecord'
    BY DEF AnswerMatchesRecord, TypeOK
  <1> QED
    BY <1>3, <1>4, <1>5, <1>6, <1>7

LEMMA WriteKeepsIInv ==
  ASSUME IInv, NEW r \in Requests, WriteStock(r)
  PROVE  IInv'
  <1> USE DEF IInv
  <1> DEFINE p == Current(r).product
             q == Current(r).qty
             n == NewStock(seen[r], q)
             t == Max0(q)
             b == Max0(-q)
  <1>0. pc[r] = "writing"
    BY DEF WriteStock
  <1>1. /\ line[r] \in 1 .. Len(items[r]) /\ p \in Stocked
        /\ seen[r] + taken[p] >= InitStock[p] /\ seen[r] <= InitStock[p] + added[p]
    BY <1>0 DEF SeenIsBounded
  <1>2. /\ q \in Int /\ seen[r] \in Nat /\ taken[p] \in Nat /\ added[p] \in Nat
        /\ InitStock[p] \in Nat
    <2>1. q \in Int
      BY <1>0, <1>1, LineOfCart DEF CartKnown, Current
    <2> QED
      BY <1>1, <2>1, OrdersAssumption DEF OrdersAssumption, TypeOK
  <1>3. n \in Nat /\ n >= seen[r] - t /\ n <= seen[r] + b /\ t \in Nat /\ b \in Nat
    BY <1>2, NewStockBounds
  <1>4. /\ stock' = [stock EXCEPT ![p] = n]
        /\ taken' = [taken EXCEPT ![p] = @ + t]
        /\ added' = [added EXCEPT ![p] = @ + b]
        /\ pc' = [pc EXCEPT ![r] = "reading"]
        /\ seen' = [seen EXCEPT ![r] = 0]
        /\ line' = [line EXCEPT ![r] = @ + 1]
        /\ UNCHANGED <<orders, items>>
    BY DEF WriteStock, NextLine, Asked, PutBack
  <1> HIDE DEF p, q, n, t, b
  <1>5. TypeOK'
    <2>1. taken[p] + t \in Nat /\ added[p] + b \in Nat
      BY <1>2, <1>3
    <2>2. stock' \in [Stocked -> Nat] /\ taken' \in [Stocked -> Nat] /\ added' \in [Stocked -> Nat]
      BY <1>1, <1>3, <1>4, <2>1 DEF TypeOK
    <2> QED
      BY <2>2, <1>4 DEF TypeOK, Stages
  \* What was taken from a row, and what was put into it, only grows.
  <1>g. ASSUME NEW x \in Stocked
        PROVE  /\ taken[x] \in Nat /\ taken'[x] \in Nat /\ added[x] \in Nat /\ added'[x] \in Nat
               /\ InitStock[x] \in Nat /\ taken'[x] >= taken[x] /\ added'[x] >= added[x]
    <2>1. /\ taken'[x] = IF x = p THEN taken[p] + t ELSE taken[x]
          /\ added'[x] = IF x = p THEN added[p] + b ELSE added[x]
      BY <1>1, <1>4 DEF TypeOK
    <2>2. taken[x] \in Nat /\ added[x] \in Nat /\ InitStock[x] \in Nat
      BY OrdersAssumption DEF OrdersAssumption, TypeOK
    <2> QED
      BY <2>1, <2>2, <1>2, <1>3
  <1>c. ASSUME NEW y PROVE Ceiling(y) \in Int /\ Ceiling(y)' \in Int /\ Ceiling(y)' >= Ceiling(y)
    <2>1. CASE y \in Stocked
      BY <1>g, <2>1 DEF Ceiling
    <2>2. CASE y \notin Stocked
      BY <2>2 DEF Ceiling
    <2> QED
      BY <2>1, <2>2
  <1>6. CartKnown' /\ FreshLine'
    BY <1>0, <1>4 DEF CartKnown, FreshLine, TypeOK
  <1>v. ValidatedLines'
    <2> SUFFICES ASSUME NEW s \in Requests, pc'[s] = "validating",
                        NEW i \in 1 .. Len(items[s]), i < line'[s]
                 PROVE  Fillable(items[s][i])'
      BY <1>4 DEF ValidatedLines
    <2>1. s # r /\ pc[s] = "validating" /\ i < line[s]
      BY <1>4 DEF TypeOK
    <2>2. PICK l : l = items[s][i]
      OBVIOUS
    <2>3. l.qty \in Int /\ l.qty <= Ceiling(l.product)
      BY <2>1, <2>2, LineOfCart DEF CartKnown, ValidatedLines, Fillable
    <2>4. l.qty <= Ceiling(l.product)'
      BY <2>3, <1>c
    <2> QED
      BY <2>2, <2>4, <1>4 DEF Fillable
  <1>l. OnlyFillableLines'
    <2> SUFFICES ASSUME NEW o \in orders, NEW i \in DOMAIN o.items
                 PROVE  o.items[i].qty <= Ceiling(o.items[i].product)'
      BY <1>4 DEF OnlyFillableLines
    <2>1. o.items \in Carts /\ o.items \in Seq(Item)
      BY OrdersAssumption DEF OrdersAssumption, TypeOK, Order
    <2>2. o.items[i].qty \in Int
      <3>1. i \in 1 .. Len(o.items)
        BY <2>1
      <3> QED
        BY <2>1, <3>1, LineOfCart
    <2>3. o.items[i].qty <= Ceiling(o.items[i].product)
      BY DEF OnlyFillableLines
    <2> QED
      BY <2>2, <2>3, <1>c
  <1>7. StockWithinCeiling'
    <2> SUFFICES ASSUME NEW x \in Stocked PROVE stock'[x] <= InitStock[x] + added'[x]
      BY DEF StockWithinCeiling
    <2>1. CASE x = p
      <3>1. stock'[p] = n /\ added'[p] = added[p] + b
        BY <1>1, <1>4 DEF TypeOK
      <3> QED
        BY <2>1, <3>1, <1>1, <1>2, <1>3
    <2>2. CASE x # p
      BY <2>2, <1>4 DEF StockWithinCeiling, TypeOK
    <2> QED
      BY <2>1, <2>2
  <1>8. StockNeverOverdeducted'
    <2> SUFFICES ASSUME NEW x \in Stocked PROVE stock'[x] + taken'[x] >= InitStock[x]
      BY DEF StockNeverOverdeducted
    <2>1. CASE x = p
      <3>1. stock'[p] = n /\ taken'[p] = taken[p] + t
        BY <1>1, <1>4 DEF TypeOK
      <3> QED
        BY <2>1, <3>1, <1>1, <1>2, <1>3
    <2>2. CASE x # p
      BY <2>2, <1>4 DEF StockNeverOverdeducted, TypeOK
    <2> QED
      BY <2>1, <2>2
  <1>9. SeenIsBounded'
    \* Another call's reading only gains from the units this one takes or puts back.
    <2> SUFFICES ASSUME NEW s \in Requests, pc'[s] = "writing"
                 PROVE  /\ line'[s] \in 1 .. Len(items'[s])
                        /\ Current(s)'.product \in Stocked
                        /\ seen'[s] + taken'[Current(s)'.product] >= InitStock[Current(s)'.product]
                        /\ seen'[s] <= InitStock[Current(s)'.product] + added'[Current(s)'.product]
      BY DEF SeenIsBounded
    <2> DEFINE x == Current(s).product
    <2>1. s # r /\ pc[s] = "writing" /\ line'[s] = line[s] /\ seen'[s] = seen[s]
          /\ Current(s)' = Current(s)
      BY <1>4 DEF TypeOK, Current
    <2>2. /\ line[s] \in 1 .. Len(items[s]) /\ x \in Stocked
          /\ seen[s] + taken[x] >= InitStock[x]
          /\ seen[s] <= InitStock[x] + added[x]
      BY <2>1 DEF SeenIsBounded
    <2>3. seen[s] \in Nat
      BY DEF TypeOK
    <2> HIDE DEF x
    <2>4. seen[s] + taken'[x] >= InitStock[x] /\ seen[s] <= InitStock[x] + added'[x]
      BY <2>2, <2>3, <1>g
    <2> QED
      BY <2>1, <2>2, <2>4, <1>4 DEF x
  <1>10. AnswerMatchesRecord'
    BY <1>0, <1>4 DEF AnswerMatchesRecord, TypeOK
  <1> QED
    BY <1>5, <1>6, <1>v, <1>l, <1>7, <1>8, <1>9, <1>10

LEMMA StepKeepsIInv == IInv /\ [Next]_vars => IInv'
  <1> SUFFICES ASSUME IInv, [Next]_vars PROVE IInv'
    OBVIOUS
  <1>1. CASE UNCHANGED vars
    BY <1>1 DEF vars, IInv, TypeOK, CartKnown, FreshLine, StockWithinCeiling, SeenIsBounded,
       ValidatedLines, StockNeverOverdeducted, OnlyFillableLines, Ceiling, AnswerMatchesRecord,
       Fillable, Current
  <1>2. CASE Next
    <2>1. PICK r \in Requests : Submit(r) \/ Step(r) \/ Interrupt(r)
      BY <1>2 DEF Next
    <2> QED
      BY <2>1, SubmitKeepsIInv, ValidateKeepsIInv, EndKeepsIInv, CreateKeepsIInv,
         ReadKeepsIInv, WriteKeepsIInv DEF Step
  <1> QED
    BY <1>1, <1>2

\* The invariant holds of every reachable state.
THEOREM Invariance == Spec => []IInv
  BY InitIInv, StepKeepsIInv, PTL DEF Spec

-----------------------------------------------------------------------------
(* What the project claims of Orders, for every instance.                  *)

\* The variables of the model keep their types; in particular Math.max(0, ...)
\* and the validation keep every stock a natural number.
THEOREM TypeCorrect == Spec => []TypeOK
  <1>1. IInv => TypeOK
    BY DEF IInv
  <1> QED
    BY <1>1, Invariance, PTL

\* However many calls overlap and wherever they are cut short, a row of the
\* inventory never gives up more units than deductStock was asked to take.
THEOREM NeverOverdeducted == Spec => []StockNeverOverdeducted
  <1>1. IInv => StockNeverOverdeducted
    BY DEF IInv
  <1> QED
    BY <1>1, Invariance, PTL

\* No line of any order exceeds the opening stock of its product and what lines of
\* negative quantity have put on top of it, although the rows it was validated
\* against may have been written from stale readings.
THEOREM LinesFillable == Spec => []OnlyFillableLines
  <1>1. IInv => OnlyFillableLines
    BY DEF IInv
  <1> QED
    BY <1>1, Invariance, PTL

\* A refused call has recorded nothing, and a returned one its whole cart.
THEOREM AnswersAreTrue == Spec => []AnswerMatchesRecord
  <1>1. IInv => AnswerMatchesRecord
    BY DEF IInv
  <1> QED
    BY <1>1, Invariance, PTL

-----------------------------------------------------------------------------
(* Sums over finite sets.  TLAPS knows nothing of them, and the library's  *)
(* induction theorems take an operator, which no installed prover can      *)
(* instantiate; but a smallest counterexample needs no such theorem, only  *)
(* that the subsets of a finite set are well-founded.                      *)

Pick(s) == CHOOSE x \in s : TRUE

\* g holds the sum of f over every subset of S: the recursion of MapThenFoldSet,
\* which takes the elements of a set in the order CHOOSE picks them.
Sums(g, f, S) ==
  g = [s \in SUBSET S |-> IF s = {} THEN 0 ELSE f[Pick(s)] + g[s \ {Pick(s)}]]

\* What SumFunctionOnSet means to a prover: the value of some such g.
LEMMA SumIsChosen ==
  ASSUME NEW f, NEW S
  PROVE SumFunctionOnSet(f, S) = (CHOOSE g : Sums(g, f, S))[S]
  BY DEF SumFunctionOnSet, FoldFunctionOnSet, MapThenFoldSet, Sums, Pick

\* A nonempty set of subsets of a finite set has a smallest member.  Every
\* induction below looks at a smallest subset for which a claim fails.
LEMMA Smallest ==
  ASSUME NEW S, IsFiniteSet(S), NEW T \in SUBSET SUBSET S, T # {}
  PROVE \E s \in T : \A u \in SUBSET s : u # s => u \notin T
  <1> DEFINE R == StrictSubsetOrdering(S)
  <1>1. IsWellFoundedOn(R, SUBSET S)
    BY FS_StrictSubsetOrderingWellFounded, FS_FiniteSubsetsOfFinite
  <1> HIDE DEF R
  <1>2. PICK s \in T : \A y \in T : ~ (<<y, s>> \in R)
    BY <1>1, WFMin
  <1>3. ASSUME NEW u \in SUBSET s, u # s PROVE u \notin T
    <2>1. <<u, s>> \in R
      BY <1>3 DEF R, StrictSubsetOrdering
    <2> QED BY <2>1, <1>2
  <1> QED BY <1>3, <1>2

\* The recursion at one subset.
LEMMA SumsAt ==
  ASSUME NEW f, NEW S, NEW g, Sums(g, f, S), NEW s \in SUBSET S
  PROVE  g[s] = IF s = {} THEN 0 ELSE f[Pick(s)] + g[s \ {Pick(s)}]
  BY DEF Sums

\* Pick picks an element.
LEMMA PickIsElement == ASSUME NEW s, s # {} PROVE Pick(s) \in s
  BY DEF Pick

\* Two such functions agree wherever both are defined.
LEMMA SumsAgree ==
  ASSUME NEW f, NEW S, NEW T, IsFiniteSet(S), NEW g, NEW h, Sums(g, f, S), Sums(h, f, T),
         NEW s \in SUBSET S, s \in SUBSET T
  PROVE  g[s] = h[s]
  <1> DEFINE B == {u \in SUBSET S : u \subseteq T /\ g[u] # h[u]}
  <1> SUFFICES ASSUME B # {} PROVE FALSE
    OBVIOUS
  <1>1. PICK u \in B : \A v \in SUBSET u : v # u => v \notin B
    BY Smallest, B \in SUBSET SUBSET S
  <1>2. g[u] = IF u = {} THEN 0 ELSE f[Pick(u)] + g[u \ {Pick(u)}]
    BY SumsAt
  <1>3. h[u] = IF u = {} THEN 0 ELSE f[Pick(u)] + h[u \ {Pick(u)}]
    <2>1. u \in SUBSET T
      OBVIOUS
    <2> QED
      BY <2>1 DEF Sums
  <1>4. u # {}
    BY <1>2, <1>3
  <1>5. u \ {Pick(u)} \notin B
    BY <1>1, <1>4, PickIsElement
  <1> QED
    BY <1>2, <1>3, <1>4, <1>5

\* There is such a function for every finite set: it is put together from those
\* of the smaller sets.
LEMMA SumsExist ==
  ASSUME NEW f, NEW S, IsFiniteSet(S)
  PROVE  \E g : Sums(g, f, S)
  <1> DEFINE B == {u \in SUBSET S : ~ \E g : Sums(g, f, u)}
             G(s) == CHOOSE g : Sums(g, f, s)
  <1> SUFFICES ASSUME B # {} PROVE FALSE
    OBVIOUS
  <1>0. B \in SUBSET SUBSET S
    OBVIOUS
  <1> HIDE DEF B
  <1>1. PICK u \in B : \A v \in SUBSET u : v # u => v \notin B
    BY <1>0, Smallest
  <1> USE DEF B
  <1>2. ASSUME NEW v \in SUBSET u, v # u PROVE Sums(G(v), f, v) /\ IsFiniteSet(v)
    <2>1. v \in SUBSET S
      OBVIOUS
    <2>2. \E g : Sums(g, f, v)
      BY <1>1, <1>2, <2>1
    <2> QED
      BY <2>1, <2>2, FS_Subset
  <1> HIDE DEF G
  <1> DEFINE R(s) == s \ {Pick(s)}
             h == [s \in SUBSET u |-> IF s = {} THEN 0 ELSE f[Pick(s)] + G(R(s))[R(s)]]
  <1>3. ASSUME NEW s \in SUBSET u, s # {} PROVE h[R(s)] = G(R(s))[R(s)]
    <2> DEFINE t == R(s)
    <2>1. t \in SUBSET u /\ t # u
      BY <1>3, PickIsElement
    <2> HIDE DEF t
    <2>2. Sums(G(t), f, t)
      BY <2>1, <1>2
    <2>3. CASE t = {}
      BY <2>1, <2>2, <2>3, SumsAt DEF t
    <2>4. CASE t # {}
      <3>1. R(t) \in SUBSET t /\ R(t) # u /\ R(t) \in SUBSET u
        BY <2>1, <2>4, PickIsElement
      <3>2. Sums(G(R(t)), f, R(t)) /\ IsFiniteSet(R(t))
        BY <3>1, <1>2
      <3>3. G(R(t))[R(t)] = G(t)[R(t)]
        <4> HIDE DEF R
        <4> QED BY <3>1, <3>2, <2>2, SumsAgree
      <3>4. G(t)[t] = f[Pick(t)] + G(t)[R(t)]
        BY <2>2, <2>4, SumsAt, t \in SUBSET t
      <3>5. h[t] = f[Pick(t)] + G(R(t))[R(t)]
        BY <2>1, <2>4
      <3>6. h[t] = G(t)[t]
        BY <3>3, <3>4, <3>5
      <3> QED
        BY <3>6 DEF t
    <2> QED
      BY <2>3, <2>4
  <1>4. h = [s \in SUBSET u |-> IF s = {} THEN 0 ELSE f[Pick(s)] + h[R(s)]]
    BY <1>3
  <1>5. Sums(h, f, u)
    BY <1>4 DEF Sums
  <1> QED
    BY <1>5

\* SumFunctionOnSet is the value of any of them.
LEMMA SumIsSums ==
  ASSUME NEW f, NEW S, IsFiniteSet(S), NEW T, IsFiniteSet(T), NEW g, Sums(g, f, S), T \subseteq S
  PROVE  SumFunctionOnSet(f, T) = g[T]
  <1> DEFINE h == CHOOSE h : Sums(h, f, T)
  <1>1. Sums(h, f, T)
    BY SumsExist
  <1>2. SumFunctionOnSet(f, T) = h[T]
    BY SumIsChosen
  <1> HIDE DEF h
  <1>3. T \in SUBSET T /\ T \in SUBSET S
    OBVIOUS
  <1>4. h[T] = g[T]
    BY <1>1, <1>3, SumsAgree
  <1> QED
    BY <1>2, <1>4

\* The sum obeys its recursion.
LEMMA SumRecursion ==
  ASSUME NEW f, NEW S, IsFiniteSet(S)
  PROVE  SumFunctionOnSet(f, S) =
           IF S = {} THEN 0 ELSE f[Pick(S)] + SumFunctionOnSet(f, S \ {Pick(S)})
  <1>1. PICK g : Sums(g, f, S)
    BY SumsExist
  <1>2. SumFunctionOnSet(f, S) = g[S]
    BY <1>1, SumIsSums
  <1>3. IsFiniteSet(S \ {Pick(S)})
    BY FS_Subset, S \ {Pick(S)} \in SUBSET S
  <1>4. SumFunctionOnSet(f, S \ {Pick(S)}) = g[S \ {Pick(S)}]
    BY <1>1, <1>3, SumIsSums
  <1> QED
    BY <1>1, <1>2, <1>4, SumsAt

\* The sum over nothing.
LEMMA SumEmpty == ASSUME NEW f PROVE SumFunctionOnSet(f, {}) = 0
  BY SumRecursion, FS_EmptySet

\* A sum of integers is an integer.
LEMMA SumInt ==
  ASSUME NEW S, IsFiniteSet(S), NEW f, \A x \in S : f[x] \in Int
  PROVE  SumFunctionOnSet(f, S) \in Int
  <1> DEFINE B == {u \in SUBSET S : SumFunctionOnSet(f, u) \notin Int}
  <1> SUFFICES ASSUME B # {} PROVE FALSE
    OBVIOUS
  <1>0. B \in SUBSET SUBSET S
    OBVIOUS
  <1>1. PICK u \in B : \A v \in SUBSET u : v # u => v \notin B
    <2> HIDE DEF B
    <2> QED BY <1>0, Smallest
  <1>2. IsFiniteSet(u)
    BY FS_Subset
  <1>3. u # {}
    BY SumEmpty
  <1>4. Pick(u) \in u /\ u \ {Pick(u)} \notin B /\ u \ {Pick(u)} \in SUBSET S
    BY <1>1, <1>3, PickIsElement
  <1>5. SumFunctionOnSet(f, u \ {Pick(u)}) \in Int
    BY <1>4
  <1> QED
    BY <1>2, <1>3, <1>4, <1>5, SumRecursion

\* Any element may be taken off the sum, not only the one CHOOSE picks.
LEMMA SumRemove ==
  ASSUME NEW S, IsFiniteSet(S), NEW f, \A x \in S : f[x] \in Int, NEW x \in S
  PROVE  SumFunctionOnSet(f, S) = f[x] + SumFunctionOnSet(f, S \ {x})
  <1> DEFINE Sum(u) == SumFunctionOnSet(f, u)
             B == {u \in SUBSET S : \E y \in u : Sum(u) # f[y] + Sum(u \ {y})}
  <1> SUFFICES ASSUME B # {} PROVE FALSE
    OBVIOUS
  <1>0. B \in SUBSET SUBSET S
    OBVIOUS
  <1>1. PICK u \in B : \A v \in SUBSET u : v # u => v \notin B
    <2> HIDE DEF B
    <2> QED BY <1>0, Smallest
  <1>2. PICK y \in u : Sum(u) # f[y] + Sum(u \ {y})
    OBVIOUS
  <1> DEFINE p == Pick(u)
  <1>3. p \in u
    BY PickIsElement
  <1>4. Sum(u) = f[p] + Sum(u \ {p})
    BY FS_Subset, SumRecursion
  <1>5. \A v \in SUBSET u : Sum(v) \in Int
    BY SumInt, FS_Subset
  <1> HIDE DEF p, Sum
  <1>6. p # y
    BY <1>2, <1>4
  <1>7. u \ {p} \in SUBSET u /\ u \ {p} # u /\ u \ {p} \in SUBSET S
        /\ u \ {y} \in SUBSET u /\ u \ {y} # u /\ u \ {y} \in SUBSET S
    BY <1>3
  <1>8. Sum(u \ {p}) = f[y] + Sum((u \ {p}) \ {y})
    BY <1>1, <1>6, <1>7
  <1>9. Sum(u \ {y}) = f[p] + Sum((u \ {y}) \ {p})
    BY <1>1, <1>3, <1>6, <1>7
  <1>10. (u \ {p}) \ {y} = (u \ {y}) \ {p} /\ (u \ {p}) \ {y} \in SUBSET u
    OBVIOUS
  <1>11. f[p] \in Int /\ f[y] \in Int
    BY <1>3
  <1> QED
    BY <1>2, <1>4, <1>5, <1>7, <1>8, <1>9, <1>10, <1>11

\* Adding an element.
LEMMA SumAdd ==
  ASSUME NEW S, IsFiniteSet(S), NEW f, NEW x, x \notin S, \A y \in S \cup {x} : f[y] \in Int
  PROVE  SumFunctionOnSet(f, S \cup {x}) = f[x] + SumFunctionOnSet(f, S)
  <1>1. IsFiniteSet(S \cup {x}) /\ (S \cup {x}) \ {x} = S
    BY FS_AddElement
  <1> QED
    BY <1>1, SumRemove, x \in S \cup {x}

\* A sum of zeros.
LEMMA SumZero ==
  ASSUME NEW S, IsFiniteSet(S), NEW f, \A x \in S : f[x] = 0
  PROVE  SumFunctionOnSet(f, S) = 0
  <1> DEFINE Sum(u) == SumFunctionOnSet(f, u)
             B == {u \in SUBSET S : Sum(u) # 0}
  <1> SUFFICES ASSUME B # {} PROVE FALSE
    OBVIOUS
  <1>0. B \in SUBSET SUBSET S
    OBVIOUS
  <1>1. PICK u \in B : \A v \in SUBSET u : v # u => v \notin B
    <2> HIDE DEF B
    <2> QED BY <1>0, Smallest
  <1>2. PICK x \in u : TRUE
    BY SumEmpty
  <1>3. Sum(u) = f[x] + Sum(u \ {x})
    <2>1. IsFiniteSet(u) /\ \A y \in u : f[y] \in Int
      BY FS_Subset
    <2> QED
      BY <2>1, SumRemove
  <1>4. Sum(u \ {x}) = 0
    BY <1>1
  <1> QED
    BY <1>3, <1>4

\* A pointwise larger function has a larger sum.
LEMMA SumMonotone ==
  ASSUME NEW S, IsFiniteSet(S), NEW f, NEW g,
         \A x \in S : f[x] \in Int /\ g[x] \in Int /\ f[x] <= g[x]
  PROVE  SumFunctionOnSet(f, S) <= SumFunctionOnSet(g, S)
  <1> DEFINE Sum(h, u) == SumFunctionOnSet(h, u)
             B == {u \in SUBSET S : ~(Sum(f, u) <= Sum(g, u))}
  <1> SUFFICES ASSUME B # {} PROVE FALSE
    OBVIOUS
  <1>0. B \in SUBSET SUBSET S
    OBVIOUS
  <1>1. PICK u \in B : \A v \in SUBSET u : v # u => v \notin B
    <2> HIDE DEF B
    <2> QED BY <1>0, Smallest
  <1>2. u # {}
    BY SumEmpty
  <1>3. PICK x \in u : TRUE
    BY <1>2
  <1>4. u \ {x} \in SUBSET u /\ u \ {x} # u /\ u \ {x} \in SUBSET S
    OBVIOUS
  <1>5. Sum(f, u) = f[x] + Sum(f, u \ {x}) /\ Sum(g, u) = g[x] + Sum(g, u \ {x})
    BY SumRemove, FS_Subset
  <1>6. Sum(f, u \ {x}) \in Int /\ Sum(g, u \ {x}) \in Int
    BY <1>4, SumInt, FS_Subset
  <1> HIDE DEF Sum
  <1>7. Sum(f, u \ {x}) <= Sum(g, u \ {x})
    BY <1>1, <1>4
  <1> QED
    BY <1>5, <1>6, <1>7

\* The sum depends only on the values.
LEMMA SumSame ==
  ASSUME NEW S, IsFiniteSet(S), NEW f, NEW g, \A x \in S : f[x] \in Int /\ f[x] = g[x]
  PROVE  SumFunctionOnSet(f, S) = SumFunctionOnSet(g, S)
  <1>1. SumFunctionOnSet(f, S) \in Int /\ SumFunctionOnSet(g, S) \in Int
    BY SumInt
  <1>2. SumFunctionOnSet(f, S) <= SumFunctionOnSet(g, S)
    BY SumMonotone
  <1>3. SumFunctionOnSet(g, S) <= SumFunctionOnSet(f, S)
    BY SumMonotone
  <1> QED
    BY <1>1, <1>2, <1>3

\* A sum of natural numbers is one.
LEMMA SumNat ==
  ASSUME NEW S, IsFiniteSet(S), NEW f, \A x \in S : f[x] \in Nat
  PROVE  SumFunctionOnSet(f, S) \in Nat
  <1> DEFINE zero == [x \in S |-> 0]
  <1>1. SumFunctionOnSet(zero, S) = 0
    BY SumZero
  <1>2. SumFunctionOnSet(zero, S) <= SumFunctionOnSet(f, S)
    BY SumMonotone
  <1>3. SumFunctionOnSet(f, S) \in Int
    BY SumInt
  <1> QED
    BY <1>1, <1>2, <1>3

\* A sum over a set is the sum over a part and the sum over the rest.
LEMMA SumSplit ==
  ASSUME NEW S, IsFiniteSet(S), NEW f, \A x \in S : f[x] \in Int, NEW T \in SUBSET S
  PROVE  SumFunctionOnSet(f, S) = SumFunctionOnSet(f, T) + SumFunctionOnSet(f, S \ T)
  <1> DEFINE Sum(u) == SumFunctionOnSet(f, u)
             B == {u \in SUBSET S : T \subseteq u /\ Sum(u) # Sum(T) + Sum(u \ T)}
  <1> SUFFICES ASSUME B # {} PROVE FALSE
    OBVIOUS
  <1>0. B \in SUBSET SUBSET S
    OBVIOUS
  <1>1. PICK u \in B : \A v \in SUBSET u : v # u => v \notin B
    <2> HIDE DEF B
    <2> QED BY <1>0, Smallest
  <1>2. \A v \in SUBSET S : IsFiniteSet(v) /\ Sum(v) \in Int
    BY SumInt, FS_Subset
  <1>3. Sum({}) = 0
    BY SumEmpty
  <1>4. PICK x \in u : x \notin T
    <2>1. CASE u = T
      <3>1. u \ T = {}
        BY <2>1
      <3> QED
        BY <1>2, <1>3, <2>1, <3>1
    <2> QED
      BY <2>1
  <1>5. Sum(u) = f[x] + Sum(u \ {x})
    <2>1. IsFiniteSet(u) /\ \A y \in u : f[y] \in Int
      BY <1>2
    <2> QED
      BY <2>1, SumRemove
  <1>6. Sum(u \ T) = f[x] + Sum((u \ T) \ {x})
    <2>1. IsFiniteSet(u \ T) /\ x \in u \ T /\ \A y \in u \ T : f[y] \in Int
      BY <1>2, <1>4
    <2> QED
      BY <2>1, SumRemove
  <1>7. /\ u \ {x} \in SUBSET u /\ u \ {x} # u /\ u \ {x} \in SUBSET S
        /\ T \subseteq u \ {x} /\ (u \ {x}) \ T = (u \ T) \ {x} /\ (u \ T) \ {x} \in SUBSET S
    BY <1>4
  <1>8. Sum(u \ {x}) = Sum(T) + Sum((u \ T) \ {x})
    <2> HIDE DEF Sum
    <2> QED
      BY <1>1, <1>7
  <1>9. f[x] \in Int /\ Sum(T) \in Int /\ Sum((u \ T) \ {x}) \in Int
    BY <1>2, <1>7
  <1> HIDE DEF Sum
  <1> QED
    BY <1>5, <1>6, <1>8, <1>9

\* A part of a sum of natural numbers is no larger than the whole.
LEMMA SumSubset ==
  ASSUME NEW S, IsFiniteSet(S), NEW f, \A x \in S : f[x] \in Nat, NEW T \in SUBSET S
  PROVE  SumFunctionOnSet(f, T) <= SumFunctionOnSet(f, S)
  <1>1. SumFunctionOnSet(f, S) = SumFunctionOnSet(f, T) + SumFunctionOnSet(f, S \ T)
    BY SumSplit
  <1>2. IsFiniteSet(T) /\ IsFiniteSet(S \ T)
    BY FS_Subset, S \ T \in SUBSET S
  <1>3. SumFunctionOnSet(f, T) \in Nat /\ SumFunctionOnSet(f, S \ T) \in Nat
    BY <1>2, SumNat
  <1> QED
    BY <1>1, <1>3

\* Two functions that differ at one element: the sums differ by as much.
LEMMA SumChange ==
  ASSUME NEW S, IsFiniteSet(S), NEW f, NEW g, NEW x \in S,
         \A y \in S : f[y] \in Int /\ g[y] \in Int /\ (y # x => f[y] = g[y])
  PROVE  SumFunctionOnSet(f, S) + g[x] = SumFunctionOnSet(g, S) + f[x]
  <1>1. SumFunctionOnSet(f, S) = f[x] + SumFunctionOnSet(f, S \ {x})
    BY SumRemove
  <1>2. SumFunctionOnSet(g, S) = g[x] + SumFunctionOnSet(g, S \ {x})
    BY SumRemove
  <1>3. IsFiniteSet(S \ {x})
    BY FS_RemoveElement
  <1>4. SumFunctionOnSet(f, S \ {x}) = SumFunctionOnSet(g, S \ {x})
    BY <1>3, SumSame
  <1>5. SumFunctionOnSet(f, S \ {x}) \in Int
    BY <1>3, SumInt
  <1> QED
    BY <1>1, <1>2, <1>4, <1>5

\* A function that is zero everywhere else sums to its value at x.
LEMMA SumSingle ==
  ASSUME NEW S, IsFiniteSet(S), NEW f, NEW x \in S, f[x] \in Int,
         \A y \in S : y # x => f[y] = 0
  PROVE  SumFunctionOnSet(f, S) = f[x]
  <1>1. SumFunctionOnSet(f, S) = f[x] + SumFunctionOnSet(f, S \ {x})
    <2>1. \A y \in S : f[y] \in Int
      OBVIOUS
    <2> QED BY <2>1, SumRemove
  <1>2. SumFunctionOnSet(f, S \ {x}) = 0
    BY SumZero, FS_RemoveElement
  <1> QED
    BY <1>1, <1>2

-----------------------------------------------------------------------------
(* What is taken was ordered.  TakenWasOrdered is not inductive: that one  *)
(* more line of an order may be taken needs to know that it has not been.  *)
(* The ledger below is the exact account.                                  *)

\* The units of p in the lines a call has deducted.  A call that was cut short
\* stays at the line it had reached.
UnitsTaken(p, r) ==
  SumFunctionOnSet(LineUnits(p, items[r]), {i \in DOMAIN items[r] : i < line[r]})

\* The units taken off a row are, to the unit, the deducted lines of the recorded
\* orders: no call without an order takes any, and none takes a line twice.
TakenByOrders ==
  \A p \in Stocked : taken[p] = SumFunction([o \in orders |-> UnitsTaken(p, o.id)])

\* There are finitely many orders, and the calls that made them still have the
\* same items.
RecordKept ==
  /\ IsFiniteSet(orders)
  /\ \A o \in orders : o.items = items[o.id]

\* An order is returned once all of its lines are deducted.
PlacedIsDone == \A r \in Requests : pc[r] = "placed" => ~LinesLeft(r)

\* The inductive invariant: what was taken is what the lines of the orders say.
LedgerInv == IInv /\ TakenByOrders /\ RecordKept /\ PlacedIsDone

\* What a call carries is a list of items.
LEMMA LinesOf ==
  ASSUME TypeOK, NEW r \in Requests
  PROVE  /\ items[r] \in Seq(Item)
         /\ Len(items[r]) \in Nat /\ DOMAIN items[r] = 1 .. Len(items[r])
         /\ IsFiniteSet(DOMAIN items[r])
  <1>1. items[r] \in Seq(Item)
    <2>1. <<>> \in Seq(Item)
      OBVIOUS
    <2> QED
      BY <2>1, OrdersAssumption DEF OrdersAssumption, TypeOK
  <1>2. Len(items[r]) \in Nat /\ DOMAIN items[r] = 1 .. Len(items[r])
    BY <1>1
  <1> QED
    BY <1>1, <1>2, FS_Interval

\* A line asks for its quantity of its product when that is positive, and for
\* nothing of any other.
LEMMA UnitsOfLine ==
  ASSUME NEW list \in Seq(Item), NEW p, NEW i \in DOMAIN list
  PROVE  /\ LineUnits(p, list)[i] = IF list[i].product = p THEN Asked(list[i]) ELSE 0
         /\ LineUnits(p, list)[i] \in Nat
  <1>1. list[i] \in Item
    OBVIOUS
  <1>2. Asked(list[i]) \in Nat
    BY <1>1 DEF Asked, Max0, Item
  <1> QED
    BY <1>2 DEF LineUnits

\* Some of the lines of a list ask for a natural number of units.
LEMMA PartOfList ==
  ASSUME NEW list \in Seq(Item), NEW I \in SUBSET DOMAIN list, NEW p
  PROVE  /\ IsFiniteSet(I)
         /\ SumFunctionOnSet(LineUnits(p, list), I) \in Nat
  <1>1. IsFiniteSet(I)
    <2>1. Len(list) \in Nat /\ DOMAIN list = 1 .. Len(list)
      OBVIOUS
    <2>2. IsFiniteSet(DOMAIN list)
      BY <2>1, FS_Interval
    <2> QED
      BY <2>2, FS_Subset
  <1>2. \A i \in I : LineUnits(p, list)[i] \in Nat
    BY UnitsOfLine
  <1> QED
    BY <1>1, <1>2, SumNat

\* A call has taken a natural number of units.
LEMMA UnitsTakenNat ==
  ASSUME TypeOK, NEW r \in Requests, NEW p
  PROVE  UnitsTaken(p, r) \in Nat
  BY LinesOf, PartOfList DEF UnitsTaken

\* Moving past a line adds the units of that line, and only to that call.
LEMMA AdvanceTaken ==
  ASSUME TypeOK, NEW r \in Requests, line[r] \in DOMAIN items[r],
         line' = NextLine(r), items' = items, NEW p
  PROVE  /\ UnitsTaken(p, r)' = UnitsTaken(p, r) + LineUnits(p, items[r])[line[r]]
         /\ \A s \in Requests : s # r => UnitsTaken(p, s)' = UnitsTaken(p, s)
  <1> DEFINE f == LineUnits(p, items[r])
             I == {i \in DOMAIN items[r] : i < line[r]}
  <1>1. {i \in DOMAIN items'[r] : i < line'[r]} = I \cup {line[r]}
    BY LinesOf DEF NextLine, TypeOK
  <1>2. UnitsTaken(p, r)' = SumFunctionOnSet(f, I \cup {line[r]})
    BY <1>1 DEF UnitsTaken
  <1>3. UnitsTaken(p, r) = SumFunctionOnSet(f, I)
    BY DEF UnitsTaken
  <1>4. IsFiniteSet(I) /\ line[r] \notin I
    <2>1. I \in SUBSET DOMAIN items[r] /\ line[r] \notin I
      BY DEF TypeOK
    <2> QED
      BY <2>1, LinesOf, FS_Subset
  <1>5. \A i \in DOMAIN items[r] : f[i] \in Nat
    BY LinesOf, UnitsOfLine
  <1>6. SumFunctionOnSet(f, I) \in Nat
    BY <1>3, UnitsTakenNat
  <1>7. \A i \in I \cup {line[r]} : f[i] \in Int
    BY <1>5
  <1> HIDE DEF f, I
  <1>8. SumFunctionOnSet(f, I \cup {line[r]}) = f[line[r]] + SumFunctionOnSet(f, I)
    BY <1>4, <1>7, SumAdd
  <1>9. \A s \in Requests : s # r => UnitsTaken(p, s)' = UnitsTaken(p, s)
    BY DEF UnitsTaken, NextLine, TypeOK
  <1>10. f[line[r]] \in Nat
    BY <1>5
  <1> QED
    BY <1>2, <1>3, <1>6, <1>8, <1>9, <1>10 DEF f

\* A step that moves no recorded call and takes nothing keeps the ledger.
LEMMA TakenUntouched ==
  ASSUME TakenByOrders, orders' = orders, taken' = taken,
         \A o \in orders : items'[o.id] = items[o.id] /\ line'[o.id] = line[o.id]
  PROVE  TakenByOrders'
  <1>1. ASSUME NEW p
        PROVE [o \in orders |-> UnitsTaken(p, o.id)]' = [o \in orders |-> UnitsTaken(p, o.id)]
    <2>1. \A o \in orders : UnitsTaken(p, o.id)' = UnitsTaken(p, o.id)
      BY DEF UnitsTaken
    <2> QED
      BY <2>1
  <1> QED
    BY <1>1 DEF TakenByOrders

\* Nothing is ordered and nothing taken at the start.
LEMMA InitLedgerInv == Init => LedgerInv
  <1> SUFFICES ASSUME Init PROVE LedgerInv
    OBVIOUS
  <1>1. IInv
    BY InitIInv
  <1>2. RecordKept /\ PlacedIsDone
    BY FS_EmptySet DEF Init, RecordKept, PlacedIsDone
  <1>3. TakenByOrders
    <2> SUFFICES ASSUME NEW p \in Stocked
                 PROVE  taken[p] = SumFunction([o \in orders |-> UnitsTaken(p, o.id)])
      BY DEF TakenByOrders
    <2> DEFINE f == [o \in orders |-> UnitsTaken(p, o.id)]
    <2>1. DOMAIN f = {}
      BY DEF Init
    <2>2. SumFunction(f) = 0
      BY <2>1, SumEmpty DEF SumFunction
    <2> QED
      BY <2>2 DEF Init
  <1> QED
    BY <1>1, <1>2, <1>3 DEF LedgerInv

\* A call that has not reached the create has no order.
LEMMA UnrecordedCall ==
  ASSUME LedgerInv, NEW r \in Requests, pc[r] \in {"new", "validating", "refused"}
  PROVE  \A o \in orders : o.id # r
  BY DEF LedgerInv, IInv, AnswerMatchesRecord

\* The steps that take nothing and record nothing.
LEMMA QuietKeepsLedger ==
  ASSUME LedgerInv, IInv', NEW r \in Requests,
         Submit(r) \/ Validate(r) \/ Refuse(r) \/ Return(r) \/ Interrupt(r)
  PROVE  LedgerInv'
  <1> USE DEF LedgerInv, IInv
  <1>1. /\ orders' = orders /\ taken' = taken
        /\ \A o \in orders : items'[o.id] = items[o.id] /\ line'[o.id] = line[o.id]
    <2>1. CASE Submit(r)
      BY <2>1, UnrecordedCall DEF Submit, TypeOK, Order
    <2>2. CASE Validate(r)
      BY <2>2, UnrecordedCall DEF Validate, NextLine, TypeOK, Order
    <2>3. CASE Refuse(r) \/ Return(r) \/ Interrupt(r)
      BY <2>3 DEF Refuse, Return, Interrupt
    <2> QED
      BY <2>1, <2>2, <2>3
  <1>2. TakenByOrders'
    BY <1>1, TakenUntouched
  <1>3. RecordKept'
    BY <1>1 DEF RecordKept
  <1>4. PlacedIsDone'
    <2> SUFFICES ASSUME NEW s \in Requests, pc'[s] = "placed" PROVE ~LinesLeft(s)'
      BY DEF PlacedIsDone
    <2>1. CASE s = r
      BY <2>1 DEF Submit, Validate, Refuse, Return, Interrupt, LinesLeft, TypeOK
    <2>2. CASE s # r
      <3>1. pc[s] = "placed" /\ items'[s] = items[s] /\ line'[s] = line[s]
        BY <2>2 DEF Submit, Validate, Refuse, Return, Interrupt, NextLine, TypeOK
      <3> QED
        BY <3>1 DEF PlacedIsDone, LinesLeft
    <2> QED
      BY <2>1, <2>2
  <1> QED
    BY <1>2, <1>3, <1>4

\* The new order has taken nothing yet.
LEMMA CreateKeepsLedger ==
  ASSUME LedgerInv, IInv', NEW r \in Requests, Create(r)
  PROVE  LedgerInv'
  <1> USE DEF LedgerInv, IInv
  <1> DEFINE n == [id |-> r, items |-> items[r]]
  <1>1. /\ orders' = orders \cup {n} /\ items' = items /\ taken' = taken
        /\ line' = [line EXCEPT ![r] = 1] /\ pc' = [pc EXCEPT ![r] = "reading"]
    BY DEF Create
  <1>2. \A o \in orders : o.id # r /\ o.id \in Requests
    BY UnrecordedCall DEF Create, TypeOK, Order
  <1>3. n \notin orders
    BY <1>2
  <1>4. RecordKept'
    <2>1. IsFiniteSet(orders \cup {n})
      BY FS_AddElement DEF RecordKept
    <2>2. n.items = items[n.id]
      OBVIOUS
    <2> QED
      BY <2>1, <2>2, <1>1 DEF RecordKept
  <1>5. PlacedIsDone'
    BY <1>1 DEF PlacedIsDone, LinesLeft, TypeOK
  <1>6. TakenByOrders'
    <2> SUFFICES ASSUME NEW p \in Stocked
                 PROVE  taken'[p] = SumFunction([o \in orders |-> UnitsTaken(p, o.id)])'
      BY DEF TakenByOrders
    <2> DEFINE f == [o \in orders |-> UnitsTaken(p, o.id)]
               g == [o \in orders' |-> UnitsTaken(p, o.id)']
    <2>1. \A o \in orders : g[o] = f[o] /\ f[o] \in Nat
      <3>1. ASSUME NEW o \in orders PROVE UnitsTaken(p, o.id)' = UnitsTaken(p, o.id)
        BY <1>1, <1>2 DEF UnitsTaken, TypeOK
      <3>2. ASSUME NEW o \in orders PROVE UnitsTaken(p, o.id) \in Nat
        BY <1>2, UnitsTakenNat
      <3> QED
        BY <1>1, <3>1, <3>2
    <2>2. g[n] = 0
      <3>1. {i \in DOMAIN items'[r] : i < line'[r]} = {}
        BY <1>1, LinesOf DEF TypeOK
      <3>2. UnitsTaken(p, r)' = 0
        BY <3>1, SumEmpty DEF UnitsTaken
      <3> QED
        BY <3>2, <1>1
    <2>3. DOMAIN f = orders /\ DOMAIN g = orders \cup {n}
      BY <1>1
    <2>4. IsFiniteSet(orders)
      BY DEF RecordKept
    <2> HIDE DEF f, g, n
    <2>5. SumFunctionOnSet(g, orders \cup {n}) = 0 + SumFunctionOnSet(g, orders)
      <3>1. \A o \in orders \cup {n} : g[o] \in Int
        BY <2>1, <2>2
      <3> QED
        BY <1>3, <2>2, <2>4, <3>1, SumAdd
    <2>6. SumFunctionOnSet(f, orders) = SumFunctionOnSet(g, orders)
      BY <2>1, <2>4, SumSame
    <2>7. SumFunctionOnSet(f, orders) \in Nat
      BY <2>1, <2>4, SumNat
    <2>8. SumFunction(g) = SumFunction(f)
      BY <2>3, <2>5, <2>6, <2>7 DEF SumFunction
    <2>9. taken[p] = SumFunction(f)
      BY DEF f, TakenByOrders
    <2> QED
      BY <2>8, <2>9, <1>1 DEF g
  <1> QED
    BY <1>4, <1>5, <1>6

\* When a deducting call moves past a line, the row of the line and the order of
\* the call gain the same units.
LEMMA AdvanceKeepsLedger ==
  ASSUME LedgerInv, NEW r \in Requests, pc[r] \in {"reading", "writing"},
         line[r] \in DOMAIN items[r], line' = NextLine(r), items' = items, orders' = orders,
         \A p \in Stocked : taken'[p] = taken[p] + LineUnits(p, items[r])[line[r]]
  PROVE  TakenByOrders'
  <1> USE DEF LedgerInv, IInv
  <1> SUFFICES ASSUME NEW p \in Stocked
               PROVE  taken'[p] = SumFunction([o \in orders |-> UnitsTaken(p, o.id)])'
    BY DEF TakenByOrders
  <1> DEFINE n == [id |-> r, items |-> items[r]]
             f == [o \in orders |-> UnitsTaken(p, o.id)]
             g == [o \in orders' |-> UnitsTaken(p, o.id)']
             q == LineUnits(p, items[r])[line[r]]
  <1>1. n \in orders
    BY DEF AnswerMatchesRecord
  <1>2. \A o \in orders : o.id \in Requests /\ (o.id = r => o = n)
    BY DEF RecordKept, TypeOK, Order
  <1>3. q \in Nat
    BY LinesOf, UnitsOfLine
  <1>4. \A o \in orders : f[o] \in Nat /\ g[o] = IF o = n THEN f[o] + q ELSE f[o]
    <2> TAKE o \in orders
    <2>1. UnitsTaken(p, o.id) \in Nat
      BY <1>2, UnitsTakenNat
    <2>2. UnitsTaken(p, o.id)' = IF o.id = r THEN UnitsTaken(p, o.id) + q ELSE UnitsTaken(p, o.id)
      BY <1>2, AdvanceTaken
    <2>3. o.id = r <=> o = n
      BY <1>2
    <2> QED
      BY <2>1, <2>2, <2>3
  <1>5. DOMAIN f = orders /\ DOMAIN g = orders /\ IsFiniteSet(orders)
    BY DEF RecordKept
  <1>6. taken[p] = SumFunction(f) /\ taken'[p] = taken[p] + q
    BY DEF TakenByOrders
  <1> HIDE DEF f, g, n, q
  <1>7. g[n] = f[n] + q /\ f[n] \in Nat
    BY <1>1, <1>4
  <1>8. SumFunctionOnSet(g, orders) + f[n] = SumFunctionOnSet(f, orders) + g[n]
    <2>1. \A o \in orders : f[o] \in Int /\ g[o] \in Int /\ (o # n => g[o] = f[o])
      BY <1>3, <1>4
    <2> QED
      BY <1>1, <1>5, <2>1, SumChange
  <1>9. SumFunctionOnSet(f, orders) \in Int /\ SumFunctionOnSet(g, orders) \in Int
    <2>1. \A o \in orders : f[o] \in Int /\ g[o] \in Int
      BY <1>3, <1>4
    <2> QED
      BY <1>5, <2>1, SumInt
  <1>10. SumFunction(g) = SumFunction(f) + q
    BY <1>3, <1>5, <1>7, <1>8, <1>9 DEF SumFunction
  <1> QED
    BY <1>6, <1>10 DEF g

\* A line without a row is passed and takes nothing from the rows there are.
LEMMA ReadKeepsLedger ==
  ASSUME LedgerInv, IInv', NEW r \in Requests, ReadStock(r)
  PROVE  LedgerInv'
  <1> USE DEF LedgerInv, IInv
  <1> DEFINE p == Current(r).product
  <1>1. /\ UNCHANGED <<orders, items, taken, added>>
        /\ pc[r] = "reading" /\ line[r] \in DOMAIN items[r]
        /\ pc' = [pc EXCEPT ![r] = IF p \in Stocked THEN "writing" ELSE @]
        /\ line' = IF p \in Stocked THEN line ELSE NextLine(r)
    BY LinesOf DEF ReadStock, LinesLeft, TypeOK
  <1>2. RecordKept'
    BY <1>1 DEF RecordKept
  <1>3. PlacedIsDone'
    BY <1>1 DEF PlacedIsDone, LinesLeft, NextLine, TypeOK
  <1>4. TakenByOrders'
    <2>1. CASE p \in Stocked
      BY <1>1, <2>1, TakenUntouched
    <2>2. CASE p \notin Stocked
      <3>1. \A x \in Stocked : taken'[x] = taken[x] + LineUnits(x, items[r])[line[r]]
        <4> TAKE x \in Stocked
        <4>1. LineUnits(x, items[r])[line[r]] = 0
          BY <1>1, <2>2, LinesOf, UnitsOfLine DEF Current
        <4>2. taken[x] \in Nat
          BY DEF TypeOK
        <4> QED
          BY <1>1, <4>1, <4>2
      <3> QED
        BY <1>1, <2>2, <3>1, AdvanceKeepsLedger
    <2> QED
      BY <2>1, <2>2
  <1> QED
    BY <1>2, <1>3, <1>4

\* A line with a row takes its units once.
LEMMA WriteKeepsLedger ==
  ASSUME LedgerInv, IInv', NEW r \in Requests, WriteStock(r)
  PROVE  LedgerInv'
  <1> USE DEF LedgerInv, IInv
  <1> DEFINE p == Current(r).product
             q == Asked(Current(r))
  <1>1. /\ UNCHANGED <<orders, items>> /\ pc[r] = "writing"
        /\ taken' = [taken EXCEPT ![p] = @ + q]
        /\ pc' = [pc EXCEPT ![r] = "reading"] /\ line' = NextLine(r)
    BY DEF WriteStock
  <1>2. line[r] \in DOMAIN items[r]
    BY <1>1, LinesOf DEF SeenIsBounded
  <1>3. RecordKept'
    BY <1>1 DEF RecordKept
  <1>4. PlacedIsDone'
    BY <1>1 DEF PlacedIsDone, LinesLeft, NextLine, TypeOK
  <1>5. \A x \in Stocked : taken'[x] = taken[x] + LineUnits(x, items[r])[line[r]]
    <2> TAKE x \in Stocked
    <2>1. LineUnits(x, items[r])[line[r]] = IF p = x THEN q ELSE 0
      BY <1>2, LinesOf, UnitsOfLine DEF Current
    <2>2. taken[x] \in Nat /\ taken'[x] = IF p = x THEN taken[x] + q ELSE taken[x]
      BY <1>1 DEF TypeOK
    <2> QED
      BY <2>1, <2>2
  <1>6. TakenByOrders'
    BY <1>1, <1>2, <1>5, AdvanceKeepsLedger
  <1> QED
    BY <1>3, <1>4, <1>6

\* Every step keeps the ledger.
LEMMA StepKeepsLedgerInv == LedgerInv /\ [Next]_vars => LedgerInv'
  <1> SUFFICES ASSUME LedgerInv, [Next]_vars PROVE LedgerInv'
    OBVIOUS
  <1>0. IInv'
    BY StepKeepsIInv DEF LedgerInv
  <1>1. CASE UNCHANGED vars
    <2>1. TakenByOrders'
      BY <1>1, TakenUntouched DEF LedgerInv, vars
    <2> QED
      BY <1>0, <1>1, <2>1 DEF LedgerInv, vars, RecordKept, PlacedIsDone, LinesLeft
  <1>2. CASE Next
    <2>1. PICK r \in Requests : Submit(r) \/ Step(r) \/ Interrupt(r)
      BY <1>2 DEF Next
    <2> QED
      BY <1>0, <2>1, QuietKeepsLedger, CreateKeepsLedger, ReadKeepsLedger, WriteKeepsLedger DEF Step
  <1> QED
    BY <1>1, <1>2

\* The ledger is exact in every reachable state, however the calls overlap and
\* wherever they are cut short.
THEOREM LedgerInvariance == Spec => []LedgerInv
  BY InitLedgerInv, StepKeepsLedgerInv, PTL DEF Spec

\* An order has taken at most the units on it, and all of them once it is placed.
LEMMA TakenOfOrder ==
  ASSUME LedgerInv, NEW o \in orders, NEW p
  PROVE  /\ UnitsTaken(p, o.id) \in Nat /\ UnitsOf(p, o.items) \in Nat
         /\ UnitsTaken(p, o.id) <= UnitsOf(p, o.items)
         /\ pc[o.id] = "placed" => UnitsTaken(p, o.id) = UnitsOf(p, o.items)
  <1> USE DEF LedgerInv, IInv
  <1> DEFINE r == o.id
             I == {i \in DOMAIN items[r] : i < line[r]}
             f == LineUnits(p, items[r])
  <1>1. r \in Requests /\ o.items = items[r]
    BY DEF TypeOK, Order, RecordKept
  <1>2. IsFiniteSet(DOMAIN items[r]) /\ \A i \in DOMAIN items[r] : f[i] \in Nat
    BY <1>1, LinesOf, UnitsOfLine
  <1>3. UnitsOf(p, o.items) = SumFunctionOnSet(f, DOMAIN items[r])
    BY <1>1 DEF UnitsOf, SumFunction, LineUnits
  <1>4. UnitsTaken(p, r) = SumFunctionOnSet(f, I)
    BY DEF UnitsTaken
  <1>5. I \in SUBSET DOMAIN items[r]
    OBVIOUS
  <1>6. pc[r] = "placed" => I = DOMAIN items[r]
    BY <1>1, LinesOf DEF PlacedIsDone, LinesLeft, TypeOK
  <1>7. UnitsTaken(p, r) \in Nat
    BY <1>1, UnitsTakenNat
  <1> HIDE DEF f, I, r
  <1>8. SumFunctionOnSet(f, I) <= SumFunctionOnSet(f, DOMAIN items[r])
    BY <1>2, <1>5, SumSubset
  <1>9. SumFunctionOnSet(f, DOMAIN items[r]) \in Nat
    BY <1>2, SumNat
  <1> QED
    BY <1>3, <1>4, <1>6, <1>7, <1>8, <1>9 DEF r

\* The ledger bounds what was taken by what was ordered.
LEMMA TakenIsOrdered == LedgerInv => TakenWasOrdered
  <1> SUFFICES ASSUME LedgerInv, NEW p \in Stocked PROVE taken[p] <= Ordered(p)
    BY DEF TakenWasOrdered
  <1> DEFINE f == [o \in orders |-> UnitsTaken(p, o.id)]
             g == [o \in orders |-> UnitsOf(p, o.items)]
  <1>1. \A o \in orders : f[o] \in Int /\ g[o] \in Int /\ f[o] <= g[o]
    BY TakenOfOrder
  <1>2. taken[p] = SumFunction(f) /\ Ordered(p) = SumFunction(g) /\ IsFiniteSet(orders)
    BY DEF LedgerInv, TakenByOrders, RecordKept, Ordered
  <1>3. DOMAIN f = orders /\ DOMAIN g = orders
    OBVIOUS
  <1> HIDE DEF f, g
  <1> QED
    BY <1>1, <1>2, <1>3, SumMonotone DEF SumFunction

\* deductStock never takes a unit that no recorded order asks for: summed over
\* all calls and all orders, under any interleaving of their steps and any
\* interruption.
THEOREM NothingTakenUnordered == Spec => []TakenWasOrdered
  BY TakenIsOrdered, LedgerInvariance, PTL

-----------------------------------------------------------------------------
(* One call at a time.                                                     *)

\* What the run of one call at a time assumes: no call starts while another is in
\* progress, none is cut short, and the carts are such as the chat builds, where a
\* product is on one line only and every quantity is positive.
SerialCalls ==
  /\ MaxInFlight = 1 /\ ~Interruptible
  /\ \A cart \in Carts : \A i, j \in DOMAIN cart : cart[i].product = cart[j].product => i = j
  /\ \A cart \in Carts : \A i \in DOMAIN cart : cart[i].qty > 0

\* Such a line asks for its quantity and puts nothing back.
LEMMA PositiveLine ==
  ASSUME SerialCalls, NEW cart \in Carts, NEW i \in DOMAIN cart
  PROVE  /\ cart[i].qty \in Nat /\ cart[i].qty > 0
         /\ Asked(cart[i]) = cart[i].qty
  <1>1. i \in 1 .. Len(cart)
    <2>1. cart \in Seq(Item)
      BY OrdersAssumption DEF OrdersAssumption
    <2> QED
      BY <2>1
  <1>2. cart[i].qty \in Int /\ cart[i].qty > 0
    BY <1>1, LineOfCart DEF SerialCalls
  <1> QED
    BY <1>2 DEF Asked, Max0

\* Two calls in progress are the same call.
OneAtATime == \A r, s \in Requests : pc[r] \in InProgress /\ pc[s] \in InProgress => r = s
\* No call was cut short.
NoneCutShort == \A r \in Requests : pc[r] # "failed"
\* The row of the line's product holds what the line asks for.
Held(l) == l.product \in Stocked /\ l.qty <= stock[l.product]
\* With nobody else writing, what was validated stays available until it is
\* deducted, and what was read is still the stock of the row.
LinesHeld ==
  \A r \in Requests :
    /\ pc[r] = "validating" =>
         \A i \in DOMAIN items[r] : i < line[r] => Held(items[r][i])
    /\ pc[r] \in {"reading", "writing"} =>
         \A i \in DOMAIN items[r] : i >= line[r] => Held(items[r][i])
    /\ pc[r] = "writing" => seen[r] = stock[Current(r).product]
\* No deduction was lost.
Exact == \A p \in Stocked : stock[p] + taken[p] = InitStock[p]

\* The inductive invariant of calls that run one at a time.
SerialInv == LedgerInv /\ OneAtATime /\ NoneCutShort /\ LinesHeld /\ Exact

\* The initial states satisfy it.
LEMMA InitSerialInv == Init => SerialInv
  <1> SUFFICES ASSUME Init PROVE SerialInv
    OBVIOUS
  <1>1. LedgerInv
    BY InitLedgerInv
  <1>2. OneAtATime /\ NoneCutShort /\ LinesHeld
    BY DEF Init, OneAtATime, NoneCutShort, LinesHeld, InProgress
  <1>3. Exact
    BY OrdersAssumption DEF OrdersAssumption, Init, Exact
  <1> QED
    BY <1>1, <1>2, <1>3 DEF SerialInv

\* MaxInFlight = 1 lets a call start only when none is in progress.
LEMMA SubmitAlone ==
  ASSUME SerialCalls, OneAtATime, NEW r \in Requests, Submit(r)
  PROVE  \A s \in Requests : pc[s] \notin InProgress
  <1> DEFINE B == {s \in Requests : pc[s] \in InProgress}
  <1> SUFFICES ASSUME NEW s \in B PROVE FALSE
    OBVIOUS
  <1>1. B = {s}
    BY DEF OneAtATime
  <1>2. Cardinality(B) < 1
    BY DEF Submit, SerialCalls
  <1>3. Cardinality(B) = 1
    BY <1>1, FS_Singleton
  <1> QED
    BY <1>2, <1>3

\* Whoever takes a step is the only call in progress.
LEMMA StepAlone ==
  ASSUME SerialCalls, SerialInv, NEW r \in Requests, Submit(r) \/ Step(r)
  PROVE  \A s \in Requests : s # r => pc[s] \notin InProgress
  <1>1. CASE Submit(r)
    BY <1>1, SubmitAlone DEF SerialInv
  <1>2. CASE Step(r)
    <2>1. pc[r] \in InProgress
      BY <1>2 DEF Step, Validate, Refuse, Create, ReadStock, WriteStock, Return, InProgress
    <2> QED
      BY <2>1 DEF SerialInv, OneAtATime
  <1> QED
    BY <1>1, <1>2

\* deductStock takes exactly the units of the line: what was read is the stock,
\* and Math.max(0, ...) has nothing to clamp.
LEMMA ExactWrite ==
  ASSUME SerialCalls, SerialInv, NEW r \in Requests, WriteStock(r)
  PROVE  LET p == Current(r).product
             q == Current(r).qty
         IN  /\ line[r] \in DOMAIN items[r] /\ Current(r) = items[r][line[r]]
             /\ p \in Stocked /\ q \in Nat /\ q <= stock[p] /\ stock[p] \in Nat /\ taken[p] \in Nat
             /\ stock' = [stock EXCEPT ![p] = @ - q]
             /\ taken' = [taken EXCEPT ![p] = @ + q]
  <1> USE DEF SerialInv, LedgerInv, IInv
  <1> DEFINE p == Current(r).product
             q == Current(r).qty
  <1>1. pc[r] = "writing" /\ stock' = [stock EXCEPT ![p] = NewStock(seen[r], q)]
        /\ taken' = [taken EXCEPT ![p] = @ + Asked(Current(r))]
    BY DEF WriteStock
  <1>2. line[r] \in 1 .. Len(items[r]) /\ line[r] \in DOMAIN items[r]
    BY <1>1, LinesOf DEF SeenIsBounded
  <1>3. Held(Current(r)) /\ seen[r] = stock[p]
    BY <1>1, <1>2 DEF LinesHeld, Current, TypeOK
  <1>4. q \in Nat /\ Asked(Current(r)) = q
    BY <1>1, <1>2, PositiveLine DEF CartKnown, Current
  <1>5. p \in Stocked /\ q <= stock[p] /\ stock[p] \in Nat /\ taken[p] \in Nat
    BY <1>3 DEF Held, TypeOK
  <1> HIDE DEF p, q
  <1>6. NewStock(seen[r], q) = stock[p] - q
    BY <1>3, <1>4, <1>5 DEF NewStock, Max0
  <1>7. stock' = [stock EXCEPT ![p] = @ - q]
    BY <1>1, <1>6
  <1> QED
    BY <1>1, <1>2, <1>4, <1>5, <1>7 DEF p, q, Current

\* Every step of serial calls keeps the invariant.
LEMMA StepKeepsSerialInv ==
  ASSUME SerialCalls PROVE SerialInv /\ [Next]_vars => SerialInv'
  <1> SUFFICES ASSUME SerialInv, [Next]_vars PROVE SerialInv'
    OBVIOUS
  <1> USE DEF SerialInv
  <1>0. LedgerInv' /\ IInv' /\ TypeOK
    BY StepKeepsLedgerInv DEF LedgerInv, IInv
  <1>1. CASE UNCHANGED vars
    BY <1>0, <1>1 DEF vars, OneAtATime, NoneCutShort, LinesHeld, Held, Exact, Current
  <1>2. CASE Next
    <2>1. PICK r \in Requests : Submit(r) \/ Step(r)
      BY <1>2 DEF Next, Interrupt, SerialCalls
    <2>2. \A s \in Requests : s # r => pc[s] \notin InProgress
      BY <2>1, StepAlone
    <2>3. /\ \A s \in Requests : s # r => pc'[s] = pc[s]
          /\ pc'[r] # "failed"
      BY <1>0, <2>1 DEF TypeOK, NoneCutShort, Submit, Step, Validate, Refuse, Create, ReadStock,
         WriteStock, Return
    <2>4. OneAtATime'
      BY <2>2, <2>3 DEF OneAtATime
    <2>5. NoneCutShort'
      BY <2>3 DEF NoneCutShort
    <2>6. LinesHeld'
      <3> SUFFICES
            /\ pc'[r] = "validating" =>
                 \A i \in DOMAIN items'[r] : i < line'[r] => Held(items[r][i])'
            /\ pc'[r] \in {"reading", "writing"} =>
                 \A i \in DOMAIN items'[r] : i >= line'[r] => Held(items[r][i])'
            /\ pc'[r] = "writing" => seen'[r] = stock'[Current(r)'.product]
        BY <2>2, <2>3 DEF LinesHeld, InProgress
      <3>1. CASE Submit(r)
        <4>1. pc[r] = "new" /\ line' = line /\ pc'[r] = "validating"
          BY <1>0, <3>1 DEF Submit, TypeOK
        <4>2. line'[r] = 1
          BY <4>1 DEF LedgerInv, IInv, FreshLine
        <4>3. items'[r] \in Carts
          BY <1>0, <4>1 DEF IInv, CartKnown
        <4>4. DOMAIN items'[r] = 1 .. Len(items'[r]) /\ Len(items'[r]) \in Nat
          BY <4>3, OrdersAssumption DEF OrdersAssumption
        <4> QED
          BY <4>1, <4>2, <4>4
      <3>2. CASE Validate(r)
        <4>1. line[r] \in DOMAIN items[r] /\ line[r] \in 1 .. Len(items[r])
          BY <1>0, <3>2, LinesOf DEF Validate, LinesLeft, TypeOK
        <4>2. Held(items[r][line[r]])
          <5>1. Current(r).qty \in Nat /\ Current(r).qty > 0
            BY <3>2, <4>1, PositiveLine DEF Validate, LedgerInv, IInv, CartKnown, Current
          <5> QED
            BY <1>0, <3>2, <5>1, AvailableIsStocked DEF Validate, Held, Current
        <4>3. \A i \in DOMAIN items[r] : i < line'[r] => i < line[r] \/ i = line[r]
          BY <1>0, <3>2, LinesOf DEF Validate, NextLine, TypeOK
        <4> QED
          BY <3>2, <4>2, <4>3 DEF Validate, LinesHeld, Held
      <3>3. CASE Refuse(r) \/ Return(r)
        BY <1>0, <3>3 DEF Refuse, Return, TypeOK
      <3>4. CASE Create(r)
        <4>1. \A i \in DOMAIN items[r] : i < line[r]
          BY <1>0, <3>4, LinesOf DEF Create, LinesLeft, TypeOK
        <4> QED
          BY <1>0, <3>4, <4>1 DEF Create, LinesHeld, Held, TypeOK
      <3>5. CASE ReadStock(r)
        <4>1. pc[r] = "reading" /\ line[r] \in DOMAIN items[r]
          BY <1>0, <3>5, LinesOf DEF ReadStock, LinesLeft, TypeOK
        <4>2. Held(Current(r))
          BY <1>0, <4>1 DEF LinesHeld, Current, TypeOK
        <4>3. /\ line' = line /\ items' = items /\ stock' = stock
              /\ pc'[r] = "writing" /\ seen'[r] = stock[Current(r).product]
          BY <1>0, <3>5, <4>2 DEF ReadStock, Held, TypeOK
        <4> QED
          BY <4>1, <4>3 DEF LinesHeld, Held, Current
      <3>6. CASE WriteStock(r)
        <4> DEFINE p == Current(r).product
        <4>1. /\ items' = items /\ line' = NextLine(r) /\ pc' = [pc EXCEPT ![r] = "reading"]
              /\ pc[r] = "writing"
          BY <3>6 DEF WriteStock
        <4>2. /\ line[r] \in DOMAIN items[r] /\ p = items[r][line[r]].product
              /\ \A x \in Stocked : x # p => stock'[x] = stock[x]
          BY <1>0, <3>6, ExactWrite DEF TypeOK
        <4>3. \A i, j \in DOMAIN items[r] : items[r][i].product = items[r][j].product => i = j
          BY <4>1 DEF SerialCalls, LedgerInv, IInv, CartKnown
        <4> HIDE DEF p
        <4>4. ASSUME NEW i \in DOMAIN items[r], i >= line'[r]
              PROVE  Held(items[r][i])'
          <5>1. i >= line[r] /\ i # line[r]
            BY <1>0, <4>1, <4>4, LinesOf DEF NextLine, TypeOK
          <5>2. Held(items[r][i]) /\ items[r][i].product # p
            BY <4>1, <4>2, <4>3, <5>1 DEF LinesHeld
          <5> QED
            BY <4>1, <4>2, <5>2 DEF Held
        <4> QED
          BY <1>0, <4>1, <4>4 DEF TypeOK
      <3> QED
        BY <2>1, <3>1, <3>2, <3>3, <3>4, <3>5, <3>6 DEF Step
    <2>7. Exact'
      <3>1. CASE WriteStock(r)
        <4> SUFFICES ASSUME NEW x \in Stocked PROVE stock'[x] + taken'[x] = InitStock[x]
          BY DEF Exact
        <4> DEFINE p == Current(r).product
                   q == Current(r).qty
        <4>1. /\ q \in Nat /\ stock[p] \in Nat /\ taken[p] \in Nat
              /\ stock' = [stock EXCEPT ![p] = @ - q] /\ taken' = [taken EXCEPT ![p] = @ + q]
          BY <3>1, ExactWrite
        <4>2. stock[x] + taken[x] = InitStock[x] /\ stock \in [Stocked -> Nat] /\ taken \in [Stocked -> Nat]
          BY <1>0 DEF Exact, TypeOK
        <4> HIDE DEF p, q
        <4> QED
          BY <4>1, <4>2
      <3>2. CASE ~WriteStock(r)
        BY <2>1, <3>2 DEF Exact, Submit, Step, Validate, Refuse, Create, ReadStock, Return
      <3> QED
        BY <3>1, <3>2
    <2> QED
      BY <1>0, <2>4, <2>5, <2>6, <2>7
  <1> QED
    BY <1>1, <1>2

\* The invariant of serial calls holds of every reachable state.
THEOREM SerialInvariance ==
  ASSUME SerialCalls PROVE Spec => []SerialInv
  BY InitSerialInv, StepKeepsSerialInv, PTL DEF Spec

\* When nothing is in progress every order is placed and has taken all it asked for.
LEMMA SettledStock == SerialInv => StockReflectsOrders
  <1> SUFFICES ASSUME SerialInv, \A r \in Requests : pc[r] \in {"new", "placed", "refused"},
                      NEW p \in Stocked
               PROVE  stock[p] = Max0(InitStock[p] - Ordered(p))
    BY DEF StockReflectsOrders
  <1> DEFINE f == [o \in orders |-> UnitsTaken(p, o.id)]
             g == [o \in orders |-> UnitsOf(p, o.items)]
  <1>0. LedgerInv /\ TypeOK
    BY DEF SerialInv, LedgerInv, IInv
  <1>1. \A o \in orders : f[o] \in Int /\ f[o] = g[o]
    <2> TAKE o \in orders
    <2>1. pc[o.id] = "placed"
      BY <1>0, UnrecordedCall DEF TypeOK, Order
    <2> QED
      BY <1>0, <2>1, TakenOfOrder
  <1>2. taken[p] = SumFunction(f) /\ Ordered(p) = SumFunction(g) /\ IsFiniteSet(orders)
    BY <1>0 DEF LedgerInv, TakenByOrders, RecordKept, Ordered
  <1>3. DOMAIN f = orders /\ DOMAIN g = orders
    OBVIOUS
  <1> HIDE DEF f, g
  <1>4. taken[p] = Ordered(p)
    BY <1>1, <1>2, <1>3, SumSame DEF SumFunction
  <1>5. stock[p] \in Nat /\ taken[p] \in Nat /\ stock[p] + taken[p] = InitStock[p] /\ InitStock[p] \in Nat
    BY <1>0, OrdersAssumption DEF OrdersAssumption, TypeOK, SerialInv, Exact
  <1> QED
    BY <1>4, <1>5 DEF Max0

\* "Deduct stock upon order confirmation" is kept by one call at a time: once all
\* have returned or been refused, each row shows what was ordered.
THEOREM SerialStockReflectsOrders ==
  ASSUME SerialCalls PROVE Spec => []StockReflectsOrders
  BY SettledStock, SerialInvariance, PTL

\* A sum over one call.
LEMMA SumOverOne ==
  ASSUME NEW r, NEW f, DOMAIN f = {r}, f[r] \in Int
  PROVE  SumFunction(f) = f[r]
  <1>1. IsFiniteSet(DOMAIN f)
    BY FS_Singleton
  <1> QED
    BY <1>1, SumSingle DEF SumFunction

\* A sum over no call.
LEMMA SumOverNone ==
  ASSUME NEW f, DOMAIN f = {}
  PROVE  SumFunction(f) = 0
  BY SumEmpty DEF SumFunction

\* What an order still has to take is a natural number of units.
LEMMA UnitsLeftNat ==
  ASSUME TypeOK, NEW r \in Requests, NEW p
  PROVE  UnitsLeft(p, r) \in Nat
  BY LinesOf, PartOfList DEF UnitsLeft

\* Passing a line takes its units off what the order still has to take.
LEMMA AdvanceLeft ==
  ASSUME TypeOK, NEW r \in Requests, line[r] \in DOMAIN items[r],
         line' = NextLine(r), items' = items, NEW p
  PROVE  UnitsLeft(p, r) = UnitsLeft(p, r)' + LineUnits(p, items[r])[line[r]]
  <1> DEFINE f == LineUnits(p, items[r])
             I == {i \in DOMAIN items[r] : i >= line[r]}
  <1>1. {i \in DOMAIN items'[r] : i >= line'[r]} = I \ {line[r]}
    BY LinesOf DEF NextLine, TypeOK
  <1>2. UnitsLeft(p, r)' = SumFunctionOnSet(f, I \ {line[r]})
    BY <1>1 DEF UnitsLeft
  <1>3. UnitsLeft(p, r) = SumFunctionOnSet(f, I)
    BY DEF UnitsLeft
  <1>4. IsFiniteSet(I) /\ line[r] \in I
    <2>1. I \in SUBSET DOMAIN items[r] /\ line[r] \in I
      BY DEF TypeOK
    <2> QED
      BY <2>1, LinesOf, FS_Subset
  <1>5. \A i \in DOMAIN items[r] : f[i] \in Nat
    BY LinesOf, UnitsOfLine
  <1>6. \A i \in I : f[i] \in Int
    BY <1>5
  <1>7. f[line[r]] \in Nat
    BY <1>5
  <1> HIDE DEF f, I
  <1>8. SumFunctionOnSet(f, I) = f[line[r]] + SumFunctionOnSet(f, I \ {line[r]})
    BY <1>4, <1>6, SumRemove
  <1>9. SumFunctionOnSet(f, I \ {line[r]}) \in Int
    <2>1. IsFiniteSet(I \ {line[r]})
      BY <1>4, FS_RemoveElement
    <2> QED
      BY <1>6, <2>1, SumInt
  <1> QED
    BY <1>2, <1>3, <1>7, <1>8, <1>9 DEF f

\* Lines that are each held are held together when no product is on two of them.
LEMMA HeldTogether ==
  ASSUME TypeOK, SerialCalls, NEW cart \in Carts, NEW I \in SUBSET DOMAIN cart,
         \A i \in I : Held(cart[i]), NEW p \in Stocked
  PROVE  SumFunctionOnSet(LineUnits(p, cart), I) <= stock[p]
  <1> DEFINE f == LineUnits(p, cart)
  <1>1. cart \in Seq(Item)
    BY OrdersAssumption DEF OrdersAssumption
  <1>2. IsFiniteSet(I)
    BY <1>1, PartOfList
  <1>3. \A i \in I : f[i] \in Nat /\ f[i] = IF cart[i].product = p THEN cart[i].qty ELSE 0
    BY <1>1, UnitsOfLine, PositiveLine
  <1>4. stock[p] \in Nat
    BY DEF TypeOK
  <1> HIDE DEF f
  <1>5. CASE \E i \in I : cart[i].product = p
    <2>1. PICK i \in I : cart[i].product = p
      BY <1>5
    <2>2. \A j \in I : j # i => f[j] = 0
      BY <1>3, <2>1 DEF SerialCalls
    <2>3. SumFunctionOnSet(f, I) = f[i]
      BY <1>2, <1>3, <2>2, SumSingle
    <2> QED
      BY <1>3, <2>1, <2>3 DEF Held, f
  <1>6. CASE ~ \E i \in I : cart[i].product = p
    <2>1. \A i \in I : f[i] = 0
      BY <1>3, <1>6
    <2>2. SumFunctionOnSet(f, I) = 0
      BY <1>2, <2>1, SumZero
    <2> QED
      BY <1>4, <2>2 DEF f
  <1> QED
    BY <1>5, <1>6

\* A cart whose lines are all held asks for no more than the row holds.
LEMMA UnitsOfHeldCart ==
  ASSUME TypeOK, SerialCalls, NEW cart \in Carts, NEW p \in Stocked,
         \A i \in DOMAIN cart : Held(cart[i])
  PROVE  UnitsOf(p, cart) \in Nat /\ UnitsOf(p, cart) <= stock[p]
  <1>1. cart \in Seq(Item)
    BY OrdersAssumption DEF OrdersAssumption
  <1>2. UnitsOf(p, cart) = SumFunctionOnSet(LineUnits(p, cart), DOMAIN cart)
    BY DEF UnitsOf, SumFunction, LineUnits
  <1> QED
    BY <1>1, <1>2, PartOfList, HeldTogether, DOMAIN cart \in SUBSET DOMAIN cart

\* The refinement mapping: what a row holds and no recorded order still has to take.
Shelf == [p \in Stocked |-> stock[p] - Owed(p)]

\* With no call deducting, the shelf is the stock.
LEMMA ShelfIfIdle ==
  ASSUME Deducting = {}, TypeOK
  PROVE  Shelf = stock
  <1>1. \A p \in Stocked : Owed(p) = 0
    BY SumOverNone DEF Owed
  <1> QED
    BY <1>1 DEF Shelf, TypeOK

\* The initial states are initial states of Shop.
LEMMA InitShop == Init => Shop!Init
  <1> SUFFICES ASSUME Init PROVE Shelf = InitStock /\ orders = {}
    BY DEF Shop!Init, Shelf
  <1>1. Deducting = {} /\ stock = InitStock /\ orders = {}
    BY DEF Init, Deducting
  <1>2. TypeOK
    BY InitIInv DEF IInv
  <1> QED
    BY <1>1, <1>2, ShelfIfIdle

\* Until the create a call changes nothing a customer could see.
LEMMA BeforeCreateStutters ==
  ASSUME SerialCalls, SerialInv, SerialInv', NEW r \in Requests, Submit(r) \/ Validate(r) \/ Refuse(r)
  PROVE  UNCHANGED Shop!shopVars
  <1>1. TypeOK /\ TypeOK'
    BY DEF SerialInv, LedgerInv, IInv
  <1>2. \A s \in Requests : s # r => pc[s] \notin InProgress
    BY StepAlone DEF Step
  <1>3. Deducting = {} /\ Deducting' = {} /\ stock' = stock /\ orders' = orders
    BY <1>1, <1>2 DEF Submit, Validate, Refuse, Deducting, InProgress, TypeOK
  <1>4. \A p \in Stocked : Owed(p) = 0 /\ Owed(p)' = 0
    BY <1>3, SumOverNone DEF Owed
  <1> QED
    BY <1>3, <1>4 DEF Shop!shopVars

\* The create is the purchase, of all lines at once.
LEMMA CreateSells ==
  ASSUME SerialCalls, SerialInv, SerialInv', NEW r \in Requests, Create(r)
  PROVE  Shop!Next
  <1>1. TypeOK /\ TypeOK' /\ LedgerInv
    BY DEF SerialInv, LedgerInv, IInv
  <1>0. PICK cart \in Carts : cart = items[r]
    BY DEF SerialInv, LedgerInv, IInv, CartKnown, Create
  <1>2. /\ pc[r] = "validating" /\ items' = items /\ stock' = stock
        /\ pc' = [pc EXCEPT ![r] = "reading"] /\ line' = [line EXCEPT ![r] = 1]
        /\ orders' = orders \cup {[id |-> r, items |-> cart]}
    BY <1>0 DEF Create
  <1>3. Deducting = {} /\ Deducting' = {r}
    <2>1. \A s \in Requests : s # r => pc[s] \notin InProgress
      BY StepAlone DEF Step
    <2> QED
      BY <1>1, <1>2, <2>1 DEF Deducting, InProgress, TypeOK
  <1>4. \A i \in DOMAIN cart : Held(cart[i])
    <2>1. \A i \in DOMAIN cart : i < line[r]
      BY <1>0, <1>1, LinesOf DEF Create, LinesLeft, TypeOK
    <2> QED
      BY <1>0, <1>2, <2>1 DEF SerialInv, LinesHeld
  <1>5. \A p \in Stocked : /\ Owed(p) = 0
                           /\ UnitsOf(p, cart) \in Nat /\ UnitsOf(p, cart) <= stock[p]
    BY <1>1, <1>3, <1>4, SumOverNone, UnitsOfHeldCart DEF Owed
  <1>6. \A p \in Stocked : Owed(p)' = UnitsOf(p, cart)
    <2> TAKE p \in Stocked
    <2>1. {i \in DOMAIN items'[r] : i >= line'[r]} = DOMAIN cart
      BY <1>0, <1>1, <1>2, LinesOf DEF TypeOK
    <2>2. UnitsLeft(p, r)' = UnitsOf(p, cart)
      BY <1>0, <1>2, <2>1 DEF UnitsLeft, UnitsOf, SumFunction, LineUnits
    <2> DEFINE f == [s \in Deducting' |-> UnitsLeft(p, s)']
    <2>3. DOMAIN f = {r} /\ f[r] = UnitsOf(p, cart) /\ f[r] \in Int
      BY <1>3, <1>5, <2>2
    <2>4. SumFunction(f) = f[r]
      BY <2>3, SumOverOne
    <2> QED
      BY <2>3, <2>4 DEF Owed
  <1>7. \A p \in Stocked : Shop!Units(p, cart) = UnitsOf(p, cart)
    <2> TAKE p \in Stocked
    <2>1. [i \in DOMAIN cart |-> IF cart[i].product = p THEN cart[i].qty ELSE 0] = LineUnits(p, cart)
      BY PositiveLine DEF LineUnits
    <2>2. Shop!Units(p, cart) = Shop!SumFunction(LineUnits(p, cart))
      BY <2>1 DEF Shop!Units
    <2>3. ASSUME NEW f PROVE Shop!SumFunction(f) = SumFunction(f)
      BY DEF Shop!SumFunction, Shop!SumFunctionOnSet, Shop!FoldFunctionOnSet,
         Shop!MapThenFoldSet, SumFunction, SumFunctionOnSet, FoldFunctionOnSet, MapThenFoldSet
    <2> QED
      BY <2>2, <2>3 DEF UnitsOf
  <1>8. \A s \in orders : s.id # r
    BY <1>1, <1>2, UnrecordedCall
  <1>9. Shop!Sell(r, cart)
    <2>1. \A i \in DOMAIN cart : cart[i].product \in Stocked
      BY <1>4 DEF Held
    <2>2. \A p \in Stocked : stock[p] \in Nat
      BY <1>1 DEF TypeOK
    <2> QED
      BY <1>2, <1>5, <1>6, <1>7, <1>8, <2>1, <2>2 DEF Shop!Sell
  <1> QED
    BY <1>9 DEF Shop!Next

\* A deduction pays what the order owes: the shelf stays as it is.
LEMMA DeductionStutters ==
  ASSUME SerialCalls, SerialInv, SerialInv', NEW r \in Requests, ReadStock(r) \/ WriteStock(r) \/ Return(r)
  PROVE  UNCHANGED Shop!shopVars
  <1>1. TypeOK /\ TypeOK'
    BY DEF SerialInv, LedgerInv, IInv
  <1>2. \A s \in Requests : s # r => pc[s] \notin InProgress
    BY StepAlone DEF Step
  <1>3. /\ Deducting = {r} /\ Deducting' = (IF Return(r) THEN {} ELSE {r})
        /\ orders' = orders /\ items' = items
    BY <1>1, <1>2 DEF ReadStock, WriteStock, Return, Deducting, InProgress, TypeOK
  <1>4. \A p \in Stocked : UnitsLeft(p, r) \in Nat /\ UnitsLeft(p, r)' \in Nat
    BY <1>1, <1>3, LinesOf, PartOfList DEF UnitsLeft
  <1>5. \A p \in Stocked : Owed(p) = UnitsLeft(p, r)
    <2> TAKE p \in Stocked
    <2> DEFINE f == [s \in Deducting |-> UnitsLeft(p, s)]
    <2>1. DOMAIN f = {r} /\ f[r] = UnitsLeft(p, r) /\ f[r] \in Int
      BY <1>3, <1>4
    <2>2. SumFunction(f) = f[r]
      BY <2>1, SumOverOne
    <2> QED
      BY <2>1, <2>2 DEF Owed
  <1>6. \A p \in Stocked : Owed(p)' = IF Return(r) THEN 0 ELSE UnitsLeft(p, r)'
    <2> TAKE p \in Stocked
    <2> DEFINE f == [s \in Deducting' |-> UnitsLeft(p, s)']
    <2>1. CASE Return(r)
      BY <1>3, <2>1, SumOverNone DEF Owed
    <2>2. CASE ~Return(r)
      <3>1. DOMAIN f = {r} /\ f[r] = UnitsLeft(p, r)' /\ f[r] \in Int
        BY <1>3, <1>4, <2>2
      <3>2. SumFunction(f) = f[r]
        BY <3>1, SumOverOne
      <3> QED
        BY <2>2, <3>1, <3>2 DEF Owed
    <2> QED
      BY <2>1, <2>2
  <1>7. \A p \in Stocked : stock'[p] - Owed(p)' = stock[p] - Owed(p)
    <2> TAKE p \in Stocked
    <2>0. stock[p] \in Nat
      BY <1>1 DEF TypeOK
    <2>1. CASE ReadStock(r)
      <3>1. pc[r] = "reading" /\ line[r] \in DOMAIN items[r] /\ ~Return(r)
        BY <1>1, <2>1, LinesOf DEF ReadStock, Return, LinesLeft, TypeOK
      <3>2. Current(r).product \in Stocked
        BY <1>1, <3>1 DEF SerialInv, LinesHeld, Held, Current, TypeOK
      <3>3. stock' = stock /\ line' = line
        BY <2>1, <3>2 DEF ReadStock
      <3>4. UnitsLeft(p, r)' = UnitsLeft(p, r)
        BY <1>3, <3>3 DEF UnitsLeft
      <3> QED
        BY <1>5, <1>6, <3>1, <3>3, <3>4
    <2>2. CASE WriteStock(r)
      <3> DEFINE x == Current(r).product
                 q == Current(r).qty
                 u == LineUnits(p, items[r])[line[r]]
      <3>1. /\ line[r] \in DOMAIN items[r] /\ Current(r) = items[r][line[r]]
            /\ x \in Stocked /\ q \in Nat /\ stock[x] \in Nat
            /\ stock' = [stock EXCEPT ![x] = @ - q]
        BY <2>2, ExactWrite
      <3>2. line' = NextLine(r) /\ ~Return(r)
        BY <2>2 DEF WriteStock, Return
      <3>3. UnitsLeft(p, r) = UnitsLeft(p, r)' + u
        BY <1>1, <1>3, <3>1, <3>2, AdvanceLeft
      <3>4. u = IF x = p THEN q ELSE 0
        <4>1. items[r] \in Carts
          BY <2>2 DEF SerialInv, LedgerInv, IInv, CartKnown, WriteStock
        <4> QED
          BY <1>1, <3>1, <4>1, LinesOf, UnitsOfLine, PositiveLine
      <3>5. stock'[p] = IF x = p THEN stock[p] - q ELSE stock[p]
        BY <1>1, <3>1 DEF TypeOK
      <3> HIDE DEF x, q, u
      <3> QED
        BY <1>4, <1>5, <1>6, <2>0, <3>1, <3>2, <3>3, <3>4, <3>5
    <2>3. CASE Return(r)
      <3>1. {i \in DOMAIN items[r] : i >= line[r]} = {} /\ stock' = stock
        BY <1>1, <2>3, LinesOf DEF Return, LinesLeft, TypeOK
      <3>2. UnitsLeft(p, r) = 0
        BY <3>1, SumEmpty DEF UnitsLeft
      <3> QED
        BY <1>5, <1>6, <2>3, <3>1, <3>2
    <2> QED
      BY <2>1, <2>2, <2>3
  <1> QED
    BY <1>3, <1>7 DEF Shop!shopVars

\* One placeOrder at a time, none of them cut short, is the atomic purchase of
\* Shop: the three walks over the item list and the two calls of each deduction
\* cannot be told from one step.
THEOREM SerialCallsImplementShop ==
  ASSUME SerialCalls PROVE Spec => ImplementsShop
  <1>1. Init => Shop!Init
    BY InitShop
  <1>2. SerialInv /\ SerialInv' /\ [Next]_vars => [Shop!Next]_Shop!shopVars
    <2> SUFFICES ASSUME SerialInv, SerialInv', [Next]_vars PROVE Shop!Next \/ UNCHANGED Shop!shopVars
      OBVIOUS
    <2>1. CASE UNCHANGED vars
      BY <2>1 DEF vars, Shop!shopVars, Owed, Deducting, UnitsLeft
    <2>2. CASE Next
      <3>1. PICK r \in Requests : Submit(r) \/ Step(r)
        BY <2>2 DEF Next, Interrupt, SerialCalls
      <3> QED
        BY <3>1, BeforeCreateStutters, CreateSells, DeductionStutters DEF Step
    <2> QED
      BY <2>1, <2>2
  <1> QED
    BY <1>1, <1>2, SerialInvariance, PTL DEF Spec, ImplementsShop, Shop!Spec

-----------------------------------------------------------------------------
(* Overselling takes overlapping or interrupted calls, a cart that asks    *)
(* for a product twice, or one that puts units back.                       *)

\* An order's units are those it has taken and those it still has to take.
LEMMA TakenAndLeft ==
  ASSUME TypeOK, NEW r \in Requests, NEW p
  PROVE  UnitsOf(p, items[r]) = UnitsTaken(p, r) + UnitsLeft(p, r)
  <1> DEFINE f == LineUnits(p, items[r])
             I == {i \in DOMAIN items[r] : i < line[r]}
             J == {i \in DOMAIN items[r] : i >= line[r]}
  <1>1. J = DOMAIN items[r] \ I /\ I \in SUBSET DOMAIN items[r]
    BY LinesOf DEF TypeOK
  <1>2. IsFiniteSet(DOMAIN items[r]) /\ \A i \in DOMAIN items[r] : f[i] \in Int
    BY LinesOf, UnitsOfLine
  <1>3. UnitsOf(p, items[r]) = SumFunctionOnSet(f, DOMAIN items[r])
    BY DEF UnitsOf, SumFunction, LineUnits
  <1> HIDE DEF f
  <1>4. SumFunctionOnSet(f, DOMAIN items[r]) = SumFunctionOnSet(f, I) + SumFunctionOnSet(f, J)
    <2> HIDE DEF I, J
    <2> QED
      BY <1>1, <1>2, SumSplit
  <1> QED
    BY <1>3, <1>4 DEF UnitsTaken, UnitsLeft, f

\* What the only unfinished order still has to take is still there.
LEMMA SerialNoOversell ==
  ASSUME SerialCalls PROVE SerialInv => NoOversell
  <1> SUFFICES ASSUME SerialInv, NEW p \in Stocked PROVE Ordered(p) <= InitStock[p]
    BY DEF NoOversell
  <1> DEFINE f == [o \in orders |-> UnitsTaken(p, o.id)]
             g == [o \in orders |-> UnitsOf(p, o.items)]
  <1>0. LedgerInv /\ IInv /\ TypeOK /\ LinesHeld
    BY DEF SerialInv, LedgerInv, IInv
  <1>1. \A o \in orders : f[o] \in Int /\ g[o] \in Int
    BY <1>0, TakenOfOrder
  <1>2. /\ taken[p] = SumFunctionOnSet(f, orders) /\ Ordered(p) = SumFunctionOnSet(g, orders)
        /\ IsFiniteSet(orders)
    BY <1>0 DEF LedgerInv, TakenByOrders, RecordKept, Ordered, SumFunction
  <1>3. /\ stock[p] \in Nat /\ taken[p] \in Nat /\ InitStock[p] \in Nat
        /\ stock[p] + taken[p] = InitStock[p]
    BY <1>0, OrdersAssumption DEF OrdersAssumption, TypeOK, SerialInv, Exact
  <1>4. \A o \in orders : o.id \in Requests /\ o.items = items[o.id]
                         /\ pc[o.id] \in {"reading", "writing", "placed"}
    BY <1>0, UnrecordedCall
    DEF LedgerInv, RecordKept, TypeOK, Order, Stages, SerialInv, NoneCutShort
  <1>5. \A o \in orders : pc[o.id] = "placed" => g[o] = f[o]
    BY <1>0, TakenOfOrder
  <1>6. CASE \E o \in orders : pc[o.id] # "placed"
    <2>1. PICK n \in orders : pc[n.id] # "placed"
      BY <1>6
    <2> DEFINE r == n.id
    <2>2. r \in Requests /\ n.items = items[r] /\ pc[r] \in {"reading", "writing"}
      BY <1>4, <2>1
    <2>3. \A o \in orders : o # n => pc[o.id] = "placed"
      <3> SUFFICES ASSUME NEW o \in orders, pc[o.id] # "placed" PROVE o = n
        OBVIOUS
      <3>1. o.id = r
        BY <1>4, <2>2 DEF SerialInv, OneAtATime, InProgress
      <3>2. o.items = n.items
        BY <1>4, <3>1
      <3>3. o \in Order /\ n \in Order
        BY <1>0 DEF TypeOK
      <3> QED
        BY <3>1, <3>2, <3>3 DEF Order
    <2>4. UnitsLeft(p, r) \in Nat /\ UnitsLeft(p, r) <= stock[p]
      <3> DEFINE I == {i \in DOMAIN items[r] : i >= line[r]}
      <3>1. items[r] \in Carts
        BY <1>0, <2>2 DEF IInv, CartKnown
      <3>2. I \in SUBSET DOMAIN items[r] /\ \A i \in I : Held(items[r][i])
        BY <1>0, <2>2 DEF LinesHeld
      <3> HIDE DEF I
      <3>3. SumFunctionOnSet(LineUnits(p, items[r]), I) <= stock[p]
        BY <1>0, <3>1, <3>2, HeldTogether
      <3> QED
        BY <1>0, <2>2, <3>3, UnitsLeftNat DEF UnitsLeft, I
    <2>5. g[n] = f[n] + UnitsLeft(p, r)
      BY <1>0, <2>2, TakenAndLeft
    <2>6. \A o \in orders : f[o] \in Int /\ g[o] \in Int /\ (o # n => g[o] = f[o])
      BY <1>1, <1>5, <2>3
    <2> HIDE DEF f, g, r
    <2>7. SumFunctionOnSet(g, orders) + f[n] = SumFunctionOnSet(f, orders) + g[n]
      BY <1>2, <2>6, SumChange
    <2>8. SumFunctionOnSet(g, orders) \in Int
      BY <1>1, <1>2, SumInt
    <2>9. f[n] \in Int
      BY <2>6
    <2> QED
      BY <1>2, <1>3, <2>4, <2>5, <2>7, <2>8, <2>9
  <1>7. CASE \A o \in orders : pc[o.id] = "placed"
    <2>1. \A o \in orders : f[o] \in Int /\ f[o] = g[o]
      BY <1>1, <1>5, <1>7
    <2> HIDE DEF f, g
    <2>2. SumFunctionOnSet(f, orders) = SumFunctionOnSet(g, orders)
      BY <1>2, <2>1, SumSame
    <2> QED
      BY <1>2, <1>3, <2>2
  <1> QED
    BY <1>6, <1>7

\* "Place an order after stock validation" is kept by one call at a time: no
\* more units are ordered than the shop had.  What orders_oversell finds is the
\* doing of calls that overlap; calls that end early, carts with a repeated product
\* and lines of negative quantity can oversell too.
THEOREM SerialCallsDoNotOversell ==
  ASSUME SerialCalls PROVE Spec => []NoOversell
  BY SerialNoOversell, SerialInvariance, PTL
=============================================================================
