--------------------------- MODULE PaymentsProofs ---------------------------
(***************************************************************************)
(* Theorems about Payments, for any orders, links and number of            *)
(* overlapping calls and webhook requests.                                 *)
(*                                                                         *)
(* The argument: what the webhook records is never taken back (an order    *)
(* stays PAID, a row stays SUCCESS, a paid link stays paid), so whatever a *)
(* request has established at one step is still there at its next, however *)
(* many other requests ran in between.  The inductive invariant says of    *)
(* each request what it has established so far.                            *)
(***************************************************************************)
EXTENDS Payments, TLAPS

-----------------------------------------------------------------------------
(* The inductive invariant.                                                *)

\* A link has one order, and only existing links are acknowledged.
LinkIds ==
  /\ \A k, m \in links : k.id = m.id => k = m
  /\ \A l \in acked : \E k \in links : k.id = l

\* What a request that has reached a stage has established.
Established(job) ==
  job \in Handling =>
    /\ [id |-> job.link, order |-> job.order] \in links
    /\ job.link \in paid
    /\ job.stage \in {"payment", "notify", "answer"} => order[job.order] = "PAID"
    /\ job.stage \in {"notify", "answer"} => Succeeded(job.order)

RequestsEstablish == \A h \in Handlers : Established(handler[h])

Recorded == AckedIsSettled /\ PaidOrdersWerePaid /\ SuccessIsPaid /\ ThanksAreDue

IInv == TypeOK /\ LinkIds /\ RequestsEstablish /\ Recorded

-----------------------------------------------------------------------------
(* What has been recorded stays recorded.                                  *)

Lasting ==
  /\ \A o \in Orders : order[o] = "PAID" => order'[o] = "PAID"
  /\ \A o \in Orders : Succeeded(o) => Succeeded(o)'
  /\ links \subseteq links' /\ paid \subseteq paid'

\* Nothing a request has established is lost in a step.
LEMMA EstablishedLasts ==
  ASSUME NEW j, Established(j), Lasting
  PROVE  Established(j)'
  BY DEF Established, Lasting, Handling

\* payment.update keeps every row's order and link, and settles the order's row.
LEMMA RowUpdate ==
  ASSUME payments \subseteq Payment, NEW o \in Orders,
         payments' = {IF p.order = o THEN [p EXCEPT !.status = "SUCCESS"] ELSE p
                      : p \in payments}
  PROVE  /\ payments' \subseteq Payment
         /\ \A x \in Orders : Succeeded(x) => Succeeded(x)'
         /\ \A x \in Orders : Succeeded(x)' => Succeeded(x) \/ x = o
         /\ HasRow(o) => Succeeded(o)'
  <1> DEFINE Mark(p) == IF p.order = o THEN [p EXCEPT !.status = "SUCCESS"] ELSE p
  <1>1. \A p \in payments : /\ Mark(p) \in Payment /\ Mark(p).order = p.order
                            /\ p.order = o => Mark(p).status = "SUCCESS"
                            /\ p.order # o => Mark(p).status = p.status
                            /\ p.status = "SUCCESS" => Mark(p).status = "SUCCESS"
    BY DEF Payment
  <1>2. payments' = {Mark(p) : p \in payments}
    OBVIOUS
  <1> HIDE DEF Mark
  <1> QED
    BY <1>1, <1>2 DEF Succeeded, HasRow

-----------------------------------------------------------------------------
(* Steps.                                                                  *)

\* The steps of the surroundings and of createPaymentLink leave the requests and
\* what is acknowledged and thanked alone.
LEMMA OtherStep ==
  ASSUME IInv, TypeOK', LinkIds', Lasting, UNCHANGED <<acked, thanked, handler>>,
         \A o \in Orders : order'[o] = "PAID" => order[o] = "PAID",
         \A o \in Orders : Succeeded(o)' => Succeeded(o),
         \A k \in links' : k \in links \/ k.id \notin acked
  PROVE  IInv'
  <1>1. RequestsEstablish'
    BY EstablishedLasts DEF IInv, RequestsEstablish
  <1>2. AckedIsSettled'
    BY DEF IInv, Recorded, AckedIsSettled, Lasting, TypeOK, Link
  <1>3. PaidOrdersWerePaid' /\ SuccessIsPaid'
    BY DEF IInv, Recorded, PaidOrdersWerePaid, SuccessIsPaid, Lasting
  <1>4. ThanksAreDue'
    BY DEF IInv, Recorded, ThanksAreDue, Lasting, TypeOK
  <1> QED
    BY <1>1, <1>2, <1>3, <1>4 DEF IInv, Recorded

LEMMA InitIInv == Init => IInv
  BY DEF Init, IInv, TypeOK, LinkIds, RequestsEstablish, Established, Recorded,
         AckedIsSettled, PaidOrdersWerePaid, SuccessIsPaid, ThanksAreDue, Succeeded,
         OrderStatus, Absent, Idle, Handling

LEMMA PlaceKeepsIInv ==
  ASSUME IInv, NEW o \in Orders, Place(o)
  PROVE  IInv'
  <1>1. TypeOK' /\ LinkIds'
    BY DEF Place, IInv, TypeOK, LinkIds, OrderStatus, razorpay
  <1>2. /\ Lasting
        /\ \A x \in Orders : order'[x] = "PAID" => order[x] = "PAID"
        /\ \A x \in Orders : Succeeded(x)' => Succeeded(x)
    BY DEF Place, IInv, TypeOK, Lasting, Succeeded, Absent, razorpay
  <1> QED
    BY <1>1, <1>2, OtherStep DEF Place, razorpay

LEMMA PayKeepsIInv ==
  ASSUME IInv, NEW l \in Links, Pay(l)
  PROVE  IInv'
  <1>1. TypeOK' /\ LinkIds'
    BY DEF Pay, IInv, TypeOK, LinkIds, database
  <1>2. /\ Lasting
        /\ \A x \in Orders : order'[x] = "PAID" => order[x] = "PAID"
        /\ \A x \in Orders : Succeeded(x)' => Succeeded(x)
    BY DEF Pay, Lasting, Succeeded, database
  <1> QED
    BY <1>1, <1>2, OtherStep DEF Pay

\* The steps of a clerk that write no table and no link.
LEMMA ClerkOnly ==
  ASSUME IInv, clerk' \in [Clerks -> {Idle} \cup Linking \cup Saving],
         UNCHANGED <<database, razorpay, thanked, handler>>
  PROVE  IInv'
  <1>1. TypeOK' /\ LinkIds'
    BY DEF IInv, TypeOK, LinkIds, database, razorpay
  <1>2. /\ Lasting
        /\ \A x \in Orders : order'[x] = "PAID" => order[x] = "PAID"
        /\ \A x \in Orders : Succeeded(x)' => Succeeded(x)
    BY DEF Lasting, Succeeded, database, razorpay
  <1> QED
    BY <1>1, <1>2, OtherStep DEF razorpay

LEMMA FindOrderKeepsIInv ==
  ASSUME IInv, NEW c \in Clerks, FindOrder(c)
  PROVE  IInv'
  <1>1. clerk' \in [Clerks -> {Idle} \cup Linking \cup Saving]
    BY DEF FindOrder, IInv, TypeOK, Linking
  <1> QED
    BY <1>1, ClerkOnly DEF FindOrder

LEMMA InterruptClerkKeepsIInv ==
  ASSUME IInv, NEW c \in Clerks, InterruptClerk(c)
  PROVE  IInv'
  <1>1. clerk' \in [Clerks -> {Idle} \cup Linking \cup Saving]
    BY DEF InterruptClerk, IInv, TypeOK
  <1> QED
    BY <1>1, ClerkOnly DEF InterruptClerk

LEMMA CreateLinkKeepsIInv ==
  ASSUME IInv, NEW c \in Clerks, CreateLink(c)
  PROVE  IInv'
  <1>1. clerk[c] \in Linking
    BY DEF CreateLink, IInv, TypeOK, Idle, Saving
  <1>2. PICK l \in Links :
          /\ \A k \in links : k.id # l
          /\ links' = links \cup {[id |-> l, order |-> clerk[c].order]}
          /\ clerk' = [clerk EXCEPT ![c] =
                        [stage |-> "save", order |-> clerk[c].order, link |-> l]]
    BY DEF CreateLink
  <1> DEFINE new == [id |-> l, order |-> clerk[c].order]
  <1>3. new \in Link /\ new.id = l
    BY <1>1 DEF Link, Linking
  <1>4. l \notin acked
    BY <1>2 DEF IInv, LinkIds
  <1>5. clerk' \in [Clerks -> {Idle} \cup Linking \cup Saving]
    BY <1>1, <1>2 DEF IInv, TypeOK, Linking, Saving
  <1>6. TypeOK'
    BY <1>2, <1>3, <1>5 DEF CreateLink, IInv, TypeOK, database
  <1> HIDE DEF new
  <1>7. links' = links \cup {new}
    BY <1>2 DEF new
  <1>8. LinkIds'
    BY <1>2, <1>3, <1>7 DEF CreateLink, IInv, LinkIds
  <1>9. /\ Lasting
        /\ \A x \in Orders : order'[x] = "PAID" => order[x] = "PAID"
        /\ \A x \in Orders : Succeeded(x)' => Succeeded(x)
    BY <1>7 DEF CreateLink, Lasting, Succeeded, database
  <1>10. \A k \in links' : k \in links \/ k.id \notin acked
    BY <1>3, <1>4, <1>7
  <1> QED
    BY <1>6, <1>8, <1>9, <1>10, OtherStep DEF CreateLink

LEMMA SavePaymentKeepsIInv ==
  ASSUME IInv, NEW c \in Clerks, SavePayment(c)
  PROVE  IInv'
  <1>1. clerk[c] \in Saving
    BY DEF SavePayment, IInv, TypeOK, Idle, Linking
  <1> DEFINE row == [order |-> clerk[c].order, link |-> clerk[c].link, status |-> "PENDING"]
  <1>2. row \in Payment /\ row.status # "SUCCESS"
    BY <1>1 DEF Payment, Saving
  <1>3. clerk' \in [Clerks -> {Idle} \cup Linking \cup Saving]
    BY DEF SavePayment, IInv, TypeOK
  <1>4. payments' = payments \/ payments' = payments \cup {row}
    BY DEF SavePayment
  <1> HIDE DEF row
  <1>5. TypeOK' /\ LinkIds'
    BY <1>2, <1>3, <1>4 DEF SavePayment, IInv, TypeOK, LinkIds, razorpay
  <1>6. /\ Lasting
        /\ \A x \in Orders : order'[x] = "PAID" => order[x] = "PAID"
        /\ \A x \in Orders : Succeeded(x)' => Succeeded(x)
    BY <1>2, <1>4 DEF SavePayment, Lasting, Succeeded, razorpay
  <1> QED
    BY <1>5, <1>6, OtherStep DEF SavePayment, razorpay

-----------------------------------------------------------------------------
(* The steps of a webhook request.                                         *)

LEMMA ReplaceRequest ==
  ASSUME IInv, NEW h \in Handlers, NEW j \in {Idle} \cup Handling, Lasting,
         handler' = [handler EXCEPT ![h] = j], Established(j)'
  PROVE  handler' \in [Handlers -> {Idle} \cup Handling] /\ RequestsEstablish'
  <1>1. handler' \in [Handlers -> {Idle} \cup Handling]
    BY DEF IInv, TypeOK
  <1>2. ASSUME NEW g \in Handlers PROVE Established(handler[g])' 
    <2>1. CASE g = h
      BY <2>1 DEF IInv, TypeOK
    <2>2. CASE g # h
      <3>1. handler'[g] = handler[g] /\ Established(handler[g])
        BY <2>2 DEF IInv, TypeOK, RequestsEstablish
      <3> QED
        BY <3>1, EstablishedLasts
    <2> QED
      BY <2>1, <2>2
  <1> QED
    BY <1>1, <1>2 DEF RequestsEstablish

LEMMA IdleEstablishesNothing == Established(Idle)'
  BY DEF Established, Idle, Handling

\* What a request at work holds.
LEMMA TypeOfRequest ==
  ASSUME IInv, NEW h \in Handlers,
         handler[h].stage \in {"order", "payment", "notify", "answer"}
  PROVE  /\ handler[h] \in Handling /\ Established(handler[h])
         /\ handler[h].order \in Orders /\ handler[h].link \in Links
  <1>1. handler[h] \in Handling
    BY DEF IInv, TypeOK, Idle
  <1> QED
    BY <1>1 DEF IInv, RequestsEstablish, Handling

\* A request about to move on: its order, its link and what it will hold next.
LEMMA NextStage ==
  ASSUME IInv, NEW h \in Handlers, NEW s \in {"payment", "notify", "answer"},
         handler[h].stage \in {"order", "payment", "notify", "answer"}
  PROVE  \E o \in Orders, j \in Handling :
           /\ o = handler[h].order /\ j = [handler[h] EXCEPT !.stage = s]
           /\ j.stage = s /\ j.order = o
           /\ [id |-> j.link, order |-> o] \in links /\ j.link \in paid
           /\ handler[h].stage \in {"payment", "notify", "answer"} => order[o] = "PAID"
           /\ handler[h].stage \in {"notify", "answer"} => Succeeded(o)
  <1>1. /\ handler[h] \in Handling /\ Established(handler[h])
        /\ handler[h].order \in Orders
    BY TypeOfRequest
  <1>2. [handler[h] EXCEPT !.stage = s] \in Handling
    BY <1>1 DEF Handling
  <1> QED
    BY <1>1, <1>2 DEF Established, Handling

\* The steps of a request that write nothing else.
LEMMA RequestOnly ==
  ASSUME IInv, NEW h \in Handlers, NEW j \in {Idle} \cup Handling,
         handler' = [handler EXCEPT ![h] = j], Established(j)',
         UNCHANGED <<database, razorpay, thanked, clerk>>
  PROVE  IInv'
  <1>1. Lasting
    BY DEF Lasting, Succeeded, database, razorpay
  <1>2. handler' \in [Handlers -> {Idle} \cup Handling] /\ RequestsEstablish'
    BY <1>1, ReplaceRequest
  <1>3. TypeOK' /\ LinkIds'
    BY <1>2 DEF IInv, TypeOK, LinkIds, database, razorpay
  <1>4. Recorded'
    BY DEF IInv, Recorded, AckedIsSettled, PaidOrdersWerePaid, SuccessIsPaid,
           ThanksAreDue, Succeeded, database, razorpay
  <1> QED
    BY <1>2, <1>3, <1>4 DEF IInv

LEMMA InterruptHandlerKeepsIInv ==
  ASSUME IInv, NEW h \in Handlers, InterruptHandler(h)
  PROVE  IInv'
  BY RequestOnly, IdleEstablishesNothing DEF InterruptHandler

LEMMA ReceiveKeepsIInv ==
  ASSUME IInv, NEW h \in Handlers, NEW l \in Links, Receive(h, l)
  PROVE  IInv'
  <1>1. PICK r \in Request :
          /\ r.link = l /\ Posted(r) /\ Accepts(r)
          /\ handler' = [handler EXCEPT ![h] =
                          [stage |-> "order", order |-> r.order, link |-> l]]
    BY DEF Receive
  <1> DEFINE j == [stage |-> "order", order |-> r.order, link |-> l]
  <1>2. j \in Handling
    BY DEF Request, Handling
  <1>3. [id |-> l, order |-> r.order] \in links /\ l \in paid
    BY <1>1 DEF Posted, Accepts
  <1>4. UNCHANGED <<links, paid>>
    BY DEF Receive, razorpay
  <1>5. Established(j)'
    BY <1>3, <1>4 DEF Established
  <1>6. handler' = [handler EXCEPT ![h] = j]
    BY <1>1
  <1> HIDE DEF j
  <1> QED
    BY <1>2, <1>5, <1>6, RequestOnly DEF Receive

LEMMA UpdateOrderKeepsIInv ==
  ASSUME IInv, NEW h \in Handlers, NEW l \in Links, UpdateOrder(h, l)
  PROVE  IInv'
  <1>1. PICK o \in Orders, j \in Handling :
          /\ o = handler[h].order /\ j = [handler[h] EXCEPT !.stage = "payment"]
          /\ j.stage = "payment" /\ j.order = o
          /\ [id |-> j.link, order |-> o] \in links /\ j.link \in paid
    BY NextStage DEF UpdateOrder, At
  <1>2. order' = [order EXCEPT ![o] = "PAID"] /\ handler' = [handler EXCEPT ![h] = j]
    BY <1>1 DEF UpdateOrder, Become
  <1>3. UNCHANGED <<payments, links, paid, acked, thanked, clerk>>
    BY DEF UpdateOrder, razorpay
  <1>4. order' \in [Orders -> OrderStatus] /\ order'[o] = "PAID"
    BY <1>2 DEF IInv, TypeOK, OrderStatus
  <1>5. \A x \in Orders : order'[x] = order[x] \/ x = o
    BY <1>2 DEF IInv, TypeOK
  <1>6. Lasting
    BY <1>3, <1>4, <1>5 DEF Lasting, Succeeded
  <1>7. Established(j)'
    BY <1>1, <1>3, <1>4 DEF Established
  <1>8. handler' \in [Handlers -> {Idle} \cup Handling] /\ RequestsEstablish'
    BY <1>2, <1>6, <1>7, ReplaceRequest
  <1>9. TypeOK' /\ LinkIds'
    BY <1>3, <1>4, <1>8 DEF IInv, TypeOK, LinkIds
  <1>10. PaidOrdersWerePaid'
    <2>1. \E k \in links : k.order = o /\ k.id \in paid
      BY <1>1
    <2> QED
      BY <1>3, <1>5, <2>1 DEF IInv, Recorded, PaidOrdersWerePaid
  <1>11. AckedIsSettled' /\ SuccessIsPaid' /\ ThanksAreDue'
    BY <1>3, <1>6 DEF IInv, Recorded, AckedIsSettled, SuccessIsPaid, ThanksAreDue,
                      Lasting, Succeeded, TypeOK, Link
  <1> QED
    BY <1>8, <1>9, <1>10, <1>11 DEF IInv, Recorded

LEMMA UpdatePaymentKeepsIInv ==
  ASSUME IInv, NEW h \in Handlers, NEW l \in Links, UpdatePayment(h, l)
  PROVE  IInv'
  <1>1. PICK o \in Orders, next \in Handling :
          /\ o = handler[h].order /\ next = [handler[h] EXCEPT !.stage = "notify"]
          /\ next.stage = "notify" /\ next.order = o
          /\ [id |-> next.link, order |-> o] \in links /\ next.link \in paid
          /\ order[o] = "PAID"
    BY NextStage DEF UpdatePayment, At
  <1>2. PICK j \in {Idle, next} :
          handler' = [handler EXCEPT ![h] = j] /\ (j = next => HasRow(o))
    <2>1. CASE HasRow(o)
      BY <1>1, <2>1 DEF UpdatePayment, Become
    <2>2. CASE ~HasRow(o)
      <3>1. Idle # next
        BY <1>1 DEF Idle
      <3>2. handler' = [handler EXCEPT ![h] = Idle]
        BY <1>1, <2>2 DEF UpdatePayment
      <3> QED
        BY <3>1, <3>2
    <2> QED
      BY <2>1, <2>2
  <1>3. payments' = {IF p.order = o THEN [p EXCEPT !.status = "SUCCESS"] ELSE p
                     : p \in payments}
    BY <1>1 DEF UpdatePayment
  <1>4. UNCHANGED <<order, links, paid, acked, thanked, clerk>>
    BY DEF UpdatePayment, razorpay
  <1>5. /\ payments' \subseteq Payment
        /\ \A x \in Orders : Succeeded(x) => Succeeded(x)'
        /\ \A x \in Orders : Succeeded(x)' => Succeeded(x) \/ x = o
        /\ HasRow(o) => Succeeded(o)'
    BY <1>3, RowUpdate DEF IInv, TypeOK
  <1>6. Lasting
    BY <1>4, <1>5 DEF Lasting
  <1>7. Established(next)' \/ j = Idle
    BY <1>1, <1>2, <1>4, <1>5 DEF Established
  <1>8. j \in {Idle} \cup Handling /\ Established(j)'
    BY <1>2, <1>7, IdleEstablishesNothing
  <1>9. handler' \in [Handlers -> {Idle} \cup Handling] /\ RequestsEstablish'
    BY <1>2, <1>6, <1>8, ReplaceRequest
  <1>10. TypeOK' /\ LinkIds'
    BY <1>4, <1>5, <1>9 DEF IInv, TypeOK, LinkIds
  <1>11. SuccessIsPaid'
    BY <1>1, <1>4, <1>5 DEF IInv, Recorded, SuccessIsPaid
  <1>12. AckedIsSettled' /\ PaidOrdersWerePaid' /\ ThanksAreDue'
    BY <1>4, <1>5 DEF IInv, Recorded, AckedIsSettled, PaidOrdersWerePaid, ThanksAreDue,
                      TypeOK, Link
  <1> QED
    BY <1>9, <1>10, <1>11, <1>12 DEF IInv, Recorded

LEMMA NotifyKeepsIInv ==
  ASSUME IInv, NEW h \in Handlers, NEW l \in Links, Notify(h, l)
  PROVE  IInv'
  <1>1. PICK o \in Orders, j \in Handling :
          /\ o = handler[h].order /\ j = [handler[h] EXCEPT !.stage = "answer"]
          /\ j.stage = "answer" /\ j.order = o
          /\ [id |-> j.link, order |-> o] \in links /\ j.link \in paid
          /\ order[o] = "PAID" /\ Succeeded(o)
    BY NextStage DEF Notify, At
  <1>2. thanked' \in {thanked, thanked \cup {o}} /\ handler' = [handler EXCEPT ![h] = j]
    BY <1>1 DEF Notify, Become
  <1>3. UNCHANGED <<order, payments, links, paid, acked, clerk>>
    BY DEF Notify, database, razorpay
  <1>4. \A x : Succeeded(x)' <=> Succeeded(x)
    BY <1>3 DEF Succeeded
  <1>5. Lasting
    BY <1>3, <1>4 DEF Lasting
  <1>6. Established(j)'
    BY <1>1, <1>3, <1>4 DEF Established
  <1>7. handler' \in [Handlers -> {Idle} \cup Handling] /\ RequestsEstablish'
    BY <1>2, <1>5, <1>6, ReplaceRequest
  <1>8. TypeOK' /\ LinkIds'
    BY <1>2, <1>3, <1>7 DEF IInv, TypeOK, LinkIds
  <1>9. AckedIsSettled' /\ PaidOrdersWerePaid' /\ SuccessIsPaid' /\ ThanksAreDue'
    BY <1>1, <1>2, <1>3, <1>4 DEF IInv, Recorded, AckedIsSettled, PaidOrdersWerePaid,
                                  SuccessIsPaid, ThanksAreDue
  <1> QED
    BY <1>7, <1>8, <1>9 DEF IInv, Recorded

LEMMA AcknowledgeKeepsIInv ==
  ASSUME IInv, NEW h \in Handlers, NEW l \in Links, Acknowledge(h, l)
  PROVE  IInv'
  <1>1. /\ handler[h] \in Handling /\ Established(handler[h])
        /\ handler[h].order \in Orders
        /\ handler[h].stage = "answer" /\ handler[h].link = l
    BY TypeOfRequest DEF Acknowledge, At
  <1>2. PICK o \in Orders : /\ [id |-> l, order |-> o] \in links
                            /\ order[o] = "PAID" /\ Succeeded(o)
    BY <1>1 DEF Established
  <1>3. /\ acked' = acked \cup {l} /\ handler' = [handler EXCEPT ![h] = Idle]
        /\ UNCHANGED <<order, payments, links, paid, thanked, clerk>>
    BY DEF Acknowledge, database
  <1>4. \A x : Succeeded(x)' <=> Succeeded(x)
    BY <1>3 DEF Succeeded
  <1>5. Lasting
    BY <1>3, <1>4 DEF Lasting
  <1>6. handler' \in [Handlers -> {Idle} \cup Handling] /\ RequestsEstablish'
    BY <1>3, <1>5, ReplaceRequest, IdleEstablishesNothing
  <1>7. TypeOK'
    BY <1>3, <1>6 DEF IInv, TypeOK
  <1>8. LinkIds'
    BY <1>2, <1>3 DEF IInv, LinkIds
  <1>9. AckedIsSettled'
    <2>1. ASSUME NEW k \in links, k.id = l PROVE k.order = o
      BY <1>2, <2>1 DEF IInv, LinkIds
    <2> QED
      BY <1>2, <1>3, <1>4, <2>1 DEF IInv, Recorded, AckedIsSettled
  <1>10. PaidOrdersWerePaid' /\ SuccessIsPaid' /\ ThanksAreDue'
    BY <1>3, <1>4 DEF IInv, Recorded, PaidOrdersWerePaid, SuccessIsPaid, ThanksAreDue
  <1> QED
    BY <1>6, <1>7, <1>8, <1>9, <1>10 DEF IInv, Recorded

-----------------------------------------------------------------------------
(* The theorems.                                                           *)

LEMMA StepKeepsIInv ==
  ASSUME IInv, [Next]_vars
  PROVE  IInv'
  <1>1. CASE UNCHANGED vars
    BY <1>1 DEF vars, IInv, TypeOK, LinkIds, RequestsEstablish, Established, Recorded,
                AckedIsSettled, PaidOrdersWerePaid, SuccessIsPaid, ThanksAreDue, Succeeded
  <1>2. ASSUME NEW h \in Handlers, NEW l \in Links, Handle(h, l) PROVE IInv'
    BY <1>2, UpdateOrderKeepsIInv, UpdatePaymentKeepsIInv, NotifyKeepsIInv,
       AcknowledgeKeepsIInv DEF Handle
  <1>3. CASE Next
    BY <1>2, <1>3, PlaceKeepsIInv, PayKeepsIInv, FindOrderKeepsIInv, CreateLinkKeepsIInv,
       SavePaymentKeepsIInv, InterruptClerkKeepsIInv, InterruptHandlerKeepsIInv,
       ReceiveKeepsIInv DEF Next
  <1> QED
    BY <1>1, <1>3

\* Whatever a request has established still holds at its next step.
THEOREM Invariance == Spec => []IInv
  <1>1. IInv /\ [Next]_vars => IInv'
    BY StepKeepsIInv
  <1> QED
    BY InitIInv, <1>1, PTL DEF Spec

\* Every variable keeps its type.
THEOREM TypeCorrect == Spec => []TypeOK
  <1>1. IInv => TypeOK
    BY DEF IInv
  <1> QED
    BY Invariance, <1>1, PTL

\* A webhook request answered with success has settled both tables for good.
THEOREM AnswersAreSettled == Spec => []AckedIsSettled
  <1>1. IInv => AckedIsSettled
    BY DEF IInv, Recorded
  <1> QED
    BY Invariance, <1>1, PTL

\* No order is PAID without money.
THEOREM PaidMeansPaid == Spec => []PaidOrdersWerePaid
  <1>1. IInv => PaidOrdersWerePaid
    BY DEF IInv, Recorded
  <1> QED
    BY Invariance, <1>1, PTL

\* The payment table is never ahead of the order table.
THEOREM SuccessMeansPaid == Spec => []SuccessIsPaid
  <1>1. IInv => SuccessIsPaid
    BY DEF IInv, Recorded
  <1> QED
    BY Invariance, <1>1, PTL

\* No customer is thanked for a payment the tables do not both record.
THEOREM ThanksMeanSettled == Spec => []ThanksAreDue
  <1>1. IInv => ThanksAreDue
    BY DEF IInv, Recorded
  <1> QED
    BY Invariance, <1>1, PTL
=============================================================================
