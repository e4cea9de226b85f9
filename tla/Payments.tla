------------------------------ MODULE Payments ------------------------------
(***************************************************************************)
(* Online payments: PaymentsService.createPaymentLink, and handleWebhook   *)
(* with Razorpay on the other side.                                        *)
(*                                                                         *)
(* createPaymentLink makes a link at Razorpay, which sends it to the       *)
(* customer itself, and then stores a payment row; an order has at most    *)
(* one row.  When a link is paid, Razorpay posts an event until a post is  *)
(* answered with success, and may post it again after that.  The webhook   *)
(* marks the order, then the row, then thanks the customer.                *)
(*                                                                         *)
(* A clerk is one createPaymentLink call in progress, a handler one        *)
(* webhook request.  Amounts, urls and message texts are left out.         *)
(***************************************************************************)
EXTENDS FiniteSets

CONSTANTS
  Orders,         \* order ids
  Links,          \* ids of payment links at Razorpay
  Clerks,         \* createPaymentLink calls that may be in progress at once
  Handlers,       \* webhook requests that may be in progress at once
  Interruptible   \* whether a call may throw or die between two awaits

ASSUME PaymentsAssumption == Interruptible \in BOOLEAN

VARIABLES
  order,      \* the status of each order in the database
  payments,   \* the rows of the payment table
  links,      \* the payment links that exist at Razorpay
  paid,       \* the ids of the links the customer has paid
  acked,      \* the paid links whose event the webhook answered with success
  thanked,    \* the orders for which the customer was told of the payment
  clerk,      \* what each clerk is doing
  handler     \* what each handler is doing

vars == <<order, payments, links, paid, acked, thanked, clerk, handler>>
database == <<order, payments>>
razorpay == <<links, paid, acked>>

Absent == "ABSENT"   \* no such row

OrderStatus == {Absent, "CREATED", "CONFIRMED", "PAID"}
Link == [id : Links, order : Orders]
Payment == [order : Orders, link : Links, status : {"PENDING", "SUCCESS"}]
Request == [event : {"payment_link.paid", "other"}, signed : BOOLEAN,
            order : Orders, link : Links]

Idle == [stage |-> "idle"]
Linking == [stage : {"create"}, order : Orders]
Saving == [stage : {"save"}, order : Orders, link : Links]
Handling == [stage : {"order", "payment", "notify", "answer"},
             order : Orders, link : Links]

HasRow(o) == \E p \in payments : p.order = o
Succeeded(o) == \E p \in payments : p.order = o /\ p.status = "SUCCESS"

Init ==
  /\ order = [o \in Orders |-> Absent]
  /\ payments = {} /\ links = {} /\ paid = {} /\ acked = {} /\ thanked = {}
  /\ clerk = [c \in Clerks |-> Idle]
  /\ handler = [h \in Handlers |-> Idle]

-----------------------------------------------------------------------------
(* The surroundings: orders are placed, customers pay.                     *)

\* createWithItems: an order to be paid online is CREATED, a cash order CONFIRMED.
Place(o) ==
  /\ order[o] = Absent
  /\ \E status \in {"CREATED", "CONFIRMED"} : order' = [order EXCEPT ![o] = status]
  /\ UNCHANGED <<payments, razorpay, thanked, clerk, handler>>

\* A customer pays a link, whether or not the platform has a row for it.
Pay(l) ==
  /\ l \notin paid
  /\ \E k \in links : k.id = l
  /\ paid' = paid \cup {l}
  /\ UNCHANGED <<database, links, acked, thanked, clerk, handler>>

-----------------------------------------------------------------------------
(* createPaymentLink.                                                      *)

\* The order is looked up, whatever its status; an unknown one is refused.
FindOrder(c) ==
  /\ clerk[c] = Idle
  /\ \E o \in Orders :
       /\ order[o] # Absent
       /\ clerk' = [clerk EXCEPT ![c] = [stage |-> "create", order |-> o]]
  /\ UNCHANGED <<database, razorpay, thanked, handler>>

\* paymentLink.create: a link exists, and its customer gets it from Razorpay.
CreateLink(c) ==
  /\ clerk[c].stage = "create"
  /\ \E l \in Links :
       /\ \A k \in links : k.id # l
       /\ links' = links \cup {[id |-> l, order |-> clerk[c].order]}
       /\ clerk' = [clerk EXCEPT ![c] =
                     [stage |-> "save", order |-> clerk[c].order, link |-> l]]
  /\ UNCHANGED <<database, paid, acked, thanked, handler>>

\* payment.create: a second row for the order breaks the unique index.
SavePayment(c) ==
  /\ clerk[c].stage = "save"
  /\ payments' = IF HasRow(clerk[c].order) THEN payments
                 ELSE payments \cup {[order |-> clerk[c].order, link |-> clerk[c].link,
                                      status |-> "PENDING"]}
  /\ clerk' = [clerk EXCEPT ![c] = Idle]
  /\ UNCHANGED <<order, razorpay, thanked, handler>>

-----------------------------------------------------------------------------
(* handleWebhook.                                                          *)

\* What is posted to the webhook: Razorpay signs what happened at Razorpay, the
\* notes of a link name its order; without a signature there may be anything.
Posted(r) ==
  r.signed => /\ [id |-> r.link, order |-> r.order] \in links
              /\ r.event = "payment_link.paid" => r.link \in paid

\* Mutant: every event of Razorpay is taken for a payment.
AcceptsAnyEvent(r) == r.signed

\* A bad signature is refused, and events of another kind change nothing.
Accepts(r) == r.signed /\ r.event = "payment_link.paid"

\* A request arrives, for the first time or again.
Receive(h, l) ==
  /\ handler[h] = Idle
  /\ \E r \in Request :
       /\ r.link = l /\ Posted(r) /\ Accepts(r)
       /\ handler' = [handler EXCEPT ![h] =
                       [stage |-> "order", order |-> r.order, link |-> l]]
  /\ UNCHANGED <<database, razorpay, thanked, clerk>>

At(h, l, s) == handler[h].stage = s /\ handler[h].link = l
Become(h, s) == handler' = [handler EXCEPT ![h].stage = s]

\* Mutant: the order is given the payment's status.
MisnamedUpdateOrder(h, l) ==
  /\ At(h, l, "order")
  /\ order' = [order EXCEPT ![handler[h].order] = "SUCCESS"]
  /\ Become(h, "payment")
  /\ UNCHANGED <<payments, razorpay, thanked, clerk>>

\* Mutant: an order placed for cash is left as it is.
OnlineOnlyUpdateOrder(h, l) ==
  /\ At(h, l, "order")
  /\ order' = [order EXCEPT ![handler[h].order] = IF @ = "CREATED" THEN "PAID" ELSE @]
  /\ Become(h, "payment")
  /\ UNCHANGED <<payments, razorpay, thanked, clerk>>

\* order.update: whatever the order's status was, it is PAID.
UpdateOrder(h, l) ==
  /\ At(h, l, "order")
  /\ order' = [order EXCEPT ![handler[h].order] = "PAID"]
  /\ Become(h, "payment")
  /\ UNCHANGED <<payments, razorpay, thanked, clerk>>

\* Mutant: a missing row is not taken for an error.
LenientUpdatePayment(h, l) ==
  /\ At(h, l, "payment")
  /\ payments' = {IF p.order = handler[h].order THEN [p EXCEPT !.status = "SUCCESS"]
                  ELSE p : p \in payments}
  /\ Become(h, "notify")
  /\ UNCHANGED <<order, razorpay, thanked, clerk>>

\* payment.update: the row of the order, whichever link it is for; without one
\* the request fails.
UpdatePayment(h, l) ==
  /\ At(h, l, "payment")
  /\ payments' = {IF p.order = handler[h].order THEN [p EXCEPT !.status = "SUCCESS"]
                  ELSE p : p \in payments}
  /\ IF HasRow(handler[h].order) THEN Become(h, "notify")
     ELSE handler' = [handler EXCEPT ![h] = Idle]
  /\ UNCHANGED <<order, razorpay, thanked, clerk>>

\* The customer is thanked; an error in that is caught and logged.
Notify(h, l) ==
  /\ At(h, l, "notify")
  /\ thanked' \in {thanked, thanked \cup {handler[h].order}}
  /\ Become(h, "answer")
  /\ UNCHANGED <<database, razorpay, clerk>>

\* The webhook answers with success and Razorpay stops posting on its own account.
Acknowledge(h, l) ==
  /\ At(h, l, "answer")
  /\ acked' = acked \cup {l}
  /\ handler' = [handler EXCEPT ![h] = Idle]
  /\ UNCHANGED <<database, links, paid, thanked, clerk>>

\* A call throws, Razorpay is out of reach, or the process dies.
InterruptClerk(c) ==
  /\ Interruptible /\ clerk[c] # Idle
  /\ clerk' = [clerk EXCEPT ![c] = Idle]
  /\ UNCHANGED <<database, razorpay, thanked, handler>>

\* Mutant: an error is caught and the request answered with success.
SwallowInterruptHandler(h) ==
  /\ Interruptible /\ handler[h] # Idle
  /\ acked' = acked \cup {handler[h].link}
  /\ handler' = [handler EXCEPT ![h] = Idle]
  /\ UNCHANGED <<database, links, paid, thanked, clerk>>

\* The same during a webhook request, whose poster then sees no success.
InterruptHandler(h) ==
  /\ Interruptible /\ handler[h] # Idle
  /\ handler' = [handler EXCEPT ![h] = Idle]
  /\ UNCHANGED <<database, razorpay, thanked, clerk>>

Handle(h, l) ==
  UpdateOrder(h, l) \/ UpdatePayment(h, l) \/ Notify(h, l) \/ Acknowledge(h, l)

Next ==
  \/ \E o \in Orders : Place(o)
  \/ \E l \in Links : Pay(l)
  \/ \E c \in Clerks :
       FindOrder(c) \/ CreateLink(c) \/ SavePayment(c) \/ InterruptClerk(c)
  \/ \E h \in Handlers :
       InterruptHandler(h) \/ \E l \in Links : Receive(h, l) \/ Handle(h, l)

Spec == Init /\ [][Next]_vars

\* Razorpay posts the event of a paid link until it is answered with success.
Redeliver(l) == l \notin acked /\ \E h \in Handlers : Receive(h, l)

\* Requests that were accepted are worked on, and an event that is posted again
\* and again does not fail at the same step every time.
Fairness ==
  /\ \A h \in Handlers : WF_vars(\E l \in Links : Handle(h, l))
  /\ \A l \in Links :
       /\ SF_vars(Redeliver(l))
       /\ SF_vars(\E h \in Handlers : UpdateOrder(h, l))
       /\ SF_vars(\E h \in Handlers : UpdatePayment(h, l))

FairSpec == Spec /\ Fairness

-----------------------------------------------------------------------------
(* Type invariant.                                                         *)
TypeOK ==
  /\ order \in [Orders -> OrderStatus]
  /\ payments \subseteq Payment
  /\ links \subseteq Link
  /\ paid \subseteq Links /\ acked \subseteq Links
  /\ thanked \subseteq Orders
  /\ clerk \in [Clerks -> {Idle} \cup Linking \cup Saving]
  /\ handler \in [Handlers -> {Idle} \cup Handling]

-----------------------------------------------------------------------------
(* Safety, with lost, repeated and interrupted requests.                   *)

\* Razorpay stops posting only when both tables say that the order is paid: no
\* crash between the two updates can lose the second one.
AckedIsSettled ==
  \A k \in links : k.id \in acked => order[k.order] = "PAID" /\ Succeeded(k.order)

\* An order is PAID only if somebody paid a link made for that order.
PaidOrdersWerePaid ==
  \A o \in Orders : order[o] = "PAID" => \E k \in links : k.order = o /\ k.id \in paid

\* A payment row never says SUCCESS for an order that is not PAID.
SuccessIsPaid == \A o \in Orders : Succeeded(o) => order[o] = "PAID"

\* The customer is thanked only for what both tables record.
ThanksAreDue == \A o \in thanked : order[o] = "PAID" /\ Succeeded(o)

-----------------------------------------------------------------------------
(* Liveness.                                                               *)

Settled(o) == order[o] = "PAID" /\ Succeeded(o)

\* A paid link of an order that has a payment row is settled in the end, through
\* crashes between the updates and whichever link the row was made for.
PaidLinksSettle ==
  \A l \in Links, o \in Orders :
    ([id |-> l, order |-> o] \in links /\ l \in paid /\ HasRow(o)) ~> Settled(o)

\* "Update order and payment status": an order that turns PAID gets a payment row
\* that says SUCCESS.
PaidIsRecorded == \A o \in Orders : order[o] = "PAID" ~> Succeeded(o)
=============================================================================
