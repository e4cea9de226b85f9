---------------------------- MODULE Conversation ----------------------------
(***************************************************************************)
(* The chat side of the platform: WhatsappService.handleIncomingMessage    *)
(* and the FlowHandlerService it drives.                                   *)
(*                                                                         *)
(* Baileys hands each incoming message to the service without waiting for  *)
(* the previous one, so several handlers of one customer can be under way. *)
(* A handler reads the conversation document once, decides from that       *)
(* snapshot, places orders, and writes state and context back together;    *)
(* nothing compares the document with what was read.                       *)
(*                                                                         *)
(* A worker is one handler in progress.  The cart is the set of products   *)
(* in it; the address is whether one was captured and whether anything is  *)
(* left of it once it is trimmed; prices, totals and wording are left out. *)
(* placeOrder and createPaymentLink appear by their outcomes; Orders has   *)
(* placeOrder's own steps.                                                 *)
(***************************************************************************)
EXTENDS Integers, FiniteSets

CONSTANTS
  Customers,      \* phone numbers
  Workers,        \* handlers that may be in progress at once
  Products,       \* product ids of the catalog
  UpperIds,       \* those that toUpperCase leaves unchanged
  Inputs,         \* the messages a customer may send
  Interruptible   \* whether a handler may throw or die between two awaits

\* EMPTY is a message without text, BLANK one of which trim() leaves nothing.
Words == {"MENU", "START_ORDER", "TALK_ADMIN", "CATEGORY", "PRODUCT",
          "CONFIRM_ORDER", "PAY_ONLINE", "PAY_OFFLINE", "CONFIRM_COD",
          "RESUME", "OTHER", "BLANK", "EMPTY"}
Message == [kind : {"text", "response"}, word : Words, product : Products]

ASSUME ConversationAssumption ==
  /\ UpperIds \subseteq Products
  /\ Inputs \subseteq Message
  /\ Interruptible \in BOOLEAN

VARIABLES
  users,      \* the customers with a row in the user table
  known,      \* the customers with a conversation document
  conv,       \* the document of each known customer
  job,        \* what each worker is doing
  orders      \* the orders placed from the chat

vars == <<users, known, conv, job, orders>>

\* The states that the schema's enum and CONVERSATION_STATES list, and the three
\* they do not, which the tree stores all the same: a document is created as NEW,
\* and updateOne, which writes every later state, runs no validators.  Nothing
\* stores COMPLETED.
ListedStates == {"NEW", "GREETING", "BROWSING", "ORDERING", "CONFIRMING", "PAYING", "COMPLETED"}
UnlistedStates == {"PAUSED", "ADDRESS_COLLECTION", "CONFIRMING_OFFLINE"}
States == (ListedStates \ {"COMPLETED"}) \cup UnlistedStates

\* No address yet, one that is the empty string, or one with some text in it.
Addresses == {"none", "blank", "given"}
Doc == [state : States, cart : SUBSET Products, address : Addresses]
Reply == [type : {"text", "button", "list"}, says : {"confirmed", "link", "other"}]
Order == [by : Customers, method : {"ONLINE", "OFFLINE"},
          cart : SUBSET Products, address : Addresses]

\* What a worker holds: a message on its way to the conversation document, an
\* order being placed from a snapshot, the answer about to be stored together
\* with the state it was decided in, a reply being sent, or an AI fallback.
Idle == [stage |-> "idle"]
Arriving == [stage : {"newCustomer", "store", "newState"}, from : Customers, msg : Message]
Placing == [stage : {"place", "link"}, from : Customers, snap : Doc]
Ready == [stage : {"persist"}, from : Customers, saw : States, next : Doc, reply : Reply]
Sending == [stage : {"send", "archive"}, from : Customers, reply : Reply]
Asking == [stage : {"think", "menu", "browse"}, from : Customers, msg : Message]
Job == Arriving \cup Placing \cup Ready \cup Sending \cup Asking

NewDoc == [state |-> "NEW", cart |-> {}, address |-> "none"]
AIText == [type |-> "text", says |-> "other"]

Busy == {w \in Workers : job[w] # Idle}
At(w, s) == job[w].stage = s
Become(w, s) == job' = [job EXCEPT ![w].stage = s]
Finish(w) == job' = [job EXCEPT ![w] = Idle]

-----------------------------------------------------------------------------
(* The decision tree of FlowHandlerService.                                *)

\* What a handler of the tree returns: the document to store and the reply.
Answer(doc, type) == [next |-> doc, reply |-> [type |-> type, says |-> "other"]]
Go(doc, state) == [doc EXCEPT !.state = state]

StartMenu(doc) == {Answer(Go(doc, "GREETING"), "button")}

\* The category list of the catalog, which may be empty when it is read.
CategoryList(doc) ==
  {Answer(Go(doc, "BROWSING"), "list"), Answer(Go(doc, "GREETING"), "text")}

Handover(doc) == {Answer(Go(doc, "PAUSED"), "text")}

Greeting(doc, msg) ==
  CASE msg.word = "TALK_ADMIN" -> Handover(doc)
    [] msg.word = "START_ORDER" -> CategoryList(doc)
    [] OTHER -> {Answer(Go(doc, "GREETING"), "button")}

\* Mutant: the state moves on although the product is not added.
ForgetfulProductSelection(doc, p) ==
  IF p \in UpperIds THEN {Answer(Go(doc, "ORDERING"), "button")}
  ELSE {Answer(Go(doc, "BROWSING"), "text")}

\* handle upper-cases the whole input, so the id looked up is the row's id only
\* when that id has no lower-case letter.
ProductSelection(doc, p) ==
  IF p \in UpperIds
  THEN {Answer(Go([doc EXCEPT !.cart = @ \cup {p}], "ORDERING"), "button")}
  ELSE {Answer(Go(doc, "BROWSING"), "text")}

\* The products of a category, which may be none: a list either way.
ProductList(doc) == {Answer(Go(doc, "BROWSING"), "list")}

Browsing(doc, msg) ==
  CASE msg.word = "TALK_ADMIN" -> Handover(doc)
    [] msg.word = "CATEGORY" -> ProductList(doc)
    [] msg.word = "PRODUCT" -> ProductSelection(doc, msg.product)
    [] OTHER -> CategoryList(doc)

Ordering(doc, msg) ==
  CASE msg.word = "CONFIRM_ORDER" -> {Answer(Go(doc, "ORDERING"), "button")}
    [] msg.word = "PAY_OFFLINE" -> {Answer(Go(doc, "ADDRESS_COLLECTION"), "text")}
    [] msg.word = "START_ORDER" -> CategoryList(doc)
    [] OTHER -> {Answer(Go(doc, "ORDERING"), "text")}

\* Mutant: the address is asked for again and the old answer confirmed.
UncapturedAddressCollection(doc, msg) ==
  {Answer(Go(doc, "CONFIRMING_OFFLINE"), "button")}

\* What handle leaves of a text that is to be the address.
Trimmed(msg) == IF msg.word = "BLANK" THEN "blank" ELSE "given"

\* Whatever was typed, trimmed, is the address, even if nothing is left of it.
AddressCollection(doc, msg) ==
  {Answer(Go([doc EXCEPT !.address = Trimmed(msg)], "CONFIRMING_OFFLINE"), "button")}

\* handle, for every message that does not place an order.
Flow(doc, msg) ==
  CASE msg.word = "MENU" -> StartMenu(doc)
    [] msg.word # "MENU" /\ doc.state \in {"NEW", "GREETING"} -> Greeting(doc, msg)
    [] msg.word # "MENU" /\ doc.state = "BROWSING" -> Browsing(doc, msg)
    [] msg.word # "MENU" /\ doc.state = "ORDERING" -> Ordering(doc, msg)
    [] msg.word # "MENU" /\ doc.state = "ADDRESS_COLLECTION" -> AddressCollection(doc, msg)
    [] msg.word # "MENU" /\ doc.state = "CONFIRMING_OFFLINE" ->
         {Answer(Go(doc, "ADDRESS_COLLECTION"), "text")}
    [] OTHER -> StartMenu(doc)

\* Mutant: the pause is not looked at.
DeafQuiet(doc, msg) == FALSE

\* The pause check of handleIncomingMessage: only RESUME gets past it.
Quiet(doc, msg) == doc.state = "PAUSED" /\ msg.word # "RESUME"

\* The messages that place an order rather than only answer.
PaysOnline(doc, msg) == doc.state = "ORDERING" /\ msg.word = "PAY_ONLINE"
ConfirmsCod(doc, msg) == doc.state = "CONFIRMING_OFFLINE" /\ msg.word = "CONFIRM_COD"

\* Where a handler may go once it has read doc.  Past the pause check the tree
\* has no reply for a paused conversation, and the message goes to the AI;
\* finalizeOrder answers an empty cart instead of ordering it.
Routes(c, doc, msg) ==
  LET ready(a) == [stage |-> "persist", from |-> c, saw |-> doc.state,
                   next |-> a.next, reply |-> a.reply]
      place == [stage |-> "place", from |-> c, snap |-> doc]
  IN CASE Quiet(doc, msg) -> {Idle}
       [] ~Quiet(doc, msg) /\ doc.state = "PAUSED" ->
            {[stage |-> "think", from |-> c, msg |-> msg]}
       [] PaysOnline(doc, msg) /\ doc.cart = {} ->
            {ready(Answer(Go(doc, "GREETING"), "text"))}
       [] PaysOnline(doc, msg) /\ doc.cart # {} -> {place}
       [] ConfirmsCod(doc, msg) -> {place}
       [] OTHER -> {ready(a) : a \in Flow(doc, msg)}

-----------------------------------------------------------------------------
(* handleIncomingMessage.  An action ends where the handler awaits a call   *)
(* whose result another handler can change.  The lookups that precede the   *)
(* snapshot read rows that are never removed, and nothing here reads the    *)
(* incoming messages back, so they are joined to the await that follows.    *)

Init ==
  /\ users = {} /\ known = {}
  /\ conv = [c \in Customers |-> NewDoc]
  /\ job = [w \in Workers |-> Idle]
  /\ orders = {}

\* messages.upsert fires: a handler starts at once, whatever others are doing,
\* and getOrCreateCustomer looks the phone number up ...
Receive(w) ==
  /\ job[w] = Idle
  /\ \E c \in Customers, m \in Inputs :
       job' = [job EXCEPT ![w] =
         [stage |-> IF c \in users THEN "store" ELSE "newCustomer", from |-> c, msg |-> m]]
  /\ UNCHANGED <<users, known, conv, orders>>

\* ... and creates the row; a row created meanwhile breaks the unique index.
CreateCustomer(w) ==
  /\ At(w, "newCustomer")
  /\ IF job[w].from \in users THEN Finish(w) ELSE Become(w, "store")
  /\ users' = users \cup {job[w].from}
  /\ UNCHANGED <<known, conv, orders>>

\* The schema of the messages collection: content is required, which blanks are
\* enough for, and messageType knows no button_response or list_response.
Storable(msg) == msg.kind = "text" /\ msg.word # "EMPTY"

\* messageModel.create of the incoming message fails validation: the handler ends.
RejectIncoming(w) ==
  /\ At(w, "store") /\ ~Storable(job[w].msg)
  /\ Finish(w)
  /\ UNCHANGED <<users, known, conv, orders>>

\* stateModel.findOne finds the document: the snapshot all that follows works from.
FindState(w) ==
  /\ At(w, "store") /\ Storable(job[w].msg)
  /\ LET c == job[w].from IN
       IF c \in known
       THEN \E j \in Routes(c, conv[c], job[w].msg) : job' = [job EXCEPT ![w] = j]
       ELSE Become(w, "newState")
  /\ UNCHANGED <<users, known, conv, orders>>

\* stateModel.create; a document created meanwhile breaks the unique index.
CreateState(w) ==
  /\ At(w, "newState")
  /\ LET c == job[w].from IN
       /\ IF c \in known THEN Finish(w)
          ELSE \E j \in Routes(c, NewDoc, job[w].msg) : job' = [job EXCEPT ![w] = j]
       /\ known' = known \cup {c}
  /\ UNCHANGED <<users, conv, orders>>

Method(w) == IF job[w].snap.state = "ORDERING" THEN "ONLINE" ELSE "OFFLINE"

\* Only finalizeOrderOffline passes the address on.
OrderOf(w) == [by |-> job[w].from, method |-> Method(w), cart |-> job[w].snap.cart,
               address |-> IF Method(w) = "OFFLINE" THEN job[w].snap.address ELSE "none"]

\* A worker that has its answer, decided from the snapshot it still holds.
Conclude(w, doc, text) ==
  job' = [job EXCEPT ![w] =
    [stage |-> "persist", from |-> job[w].from, saw |-> job[w].snap.state,
     next |-> doc, reply |-> [type |-> "text", says |-> text]]]

FailedState(w) == IF Method(w) = "ONLINE" THEN "CONFIRMING" ELSE "ORDERING"

\* Mutant: the error branch of the cash order announces a confirmed order.
PrematureFail(w) == Conclude(w, Go(job[w].snap, FailedState(w)), "confirmed")

\* The catch branches: the error is reported and the context left as it was.
Fail(w) == Conclude(w, Go(job[w].snap, FailedState(w)), "other")

\* placeOrder returns the order: a cash order is done, an online one needs a link.
PlaceOk(w) ==
  /\ At(w, "place")
  /\ orders' = orders \cup {OrderOf(w)}
  /\ IF Method(w) = "ONLINE" THEN Become(w, "link")
     ELSE Conclude(w, [Go(job[w].snap, "GREETING") EXCEPT !.cart = {}], "confirmed")
  /\ UNCHANGED <<users, known, conv>>

\* placeOrder throws: before the order was created, or after (deductStock failed).
PlaceError(w) ==
  /\ At(w, "place")
  /\ Fail(w)
  /\ orders' \in {orders, orders \cup {OrderOf(w)}}
  /\ UNCHANGED <<users, known, conv>>

\* Mutant: a state the dialogue does not know.
MisnamedLinkOk(w) ==
  /\ At(w, "link")
  /\ Conclude(w, Go(job[w].snap, "PAYMENT_PENDING"), "link")
  /\ UNCHANGED <<users, known, conv, orders>>

\* createPaymentLink succeeds: the cart stays in the context.
LinkOk(w) ==
  /\ At(w, "link")
  /\ Conclude(w, Go(job[w].snap, "PAYING"), "link")
  /\ UNCHANGED <<users, known, conv, orders>>

\* createPaymentLink throws: the order stays, the customer is told to try again.
LinkError(w) ==
  /\ At(w, "link")
  /\ Fail(w)
  /\ UNCHANGED <<users, known, conv, orders>>

Send(w, reply) ==
  job' = [job EXCEPT ![w] = [stage |-> "send", from |-> job[w].from, reply |-> reply]]

\* Mutant: the new state is stored without the context that goes with it.
StateOnlyPersist(w) ==
  /\ At(w, "persist")
  /\ conv' = [conv EXCEPT ![job[w].from].state = job[w].next.state]
  /\ Send(w, job[w].reply)
  /\ UNCHANGED <<users, known, orders>>

\* stateModel.updateOne: state and context together, over whatever is there now.
Persist(w) ==
  /\ At(w, "persist")
  /\ conv' = [conv EXCEPT ![job[w].from] = job[w].next]
  /\ Send(w, job[w].reply)
  /\ UNCHANGED <<users, known, orders>>

\* sendMessage: Baileys takes the reply ...
Deliver(w) ==
  /\ At(w, "send")
  /\ Become(w, "archive")
  /\ UNCHANGED <<users, known, conv, orders>>

\* ... and then it is stored; the schema knows no button or list messages, so
\* storing one throws; the handler ends there either way.
Archive(w) ==
  /\ At(w, "archive")
  /\ Finish(w)
  /\ UNCHANGED <<users, known, conv, orders>>

\* The AI answers with a text, which is sent without touching the conversation.
AIReply(w) ==
  /\ At(w, "think")
  /\ Send(w, AIText)
  /\ UNCHANGED <<users, known, conv, orders>>

\* The AI reads a request for the menu ...
AIMenu(w) ==
  /\ At(w, "think")
  /\ Become(w, "menu")
  /\ UNCHANGED <<users, known, conv, orders>>

\* ... which is sent (sendMenuWithImages sends and stores each part) ...
SendMenu(w) ==
  /\ At(w, "menu")
  /\ Become(w, "browse")
  /\ UNCHANGED <<users, known, conv, orders>>

\* ... and the state alone is set to BROWSING.
BrowseAfterMenu(w) ==
  /\ At(w, "browse")
  /\ conv' = [conv EXCEPT ![job[w].from].state = "BROWSING"]
  /\ Finish(w)
  /\ UNCHANGED <<users, known, orders>>

\* An await rejects or the process dies: BaileysClient logs the error and the
\* message is not handled again.
Interrupt(w) ==
  /\ Interruptible /\ job[w] # Idle
  /\ Finish(w)
  /\ UNCHANGED <<users, known, conv, orders>>

Step(w) ==
  \/ CreateCustomer(w) \/ RejectIncoming(w) \/ FindState(w) \/ CreateState(w)
  \/ PlaceOk(w) \/ PlaceError(w) \/ LinkOk(w) \/ LinkError(w)
  \/ Persist(w) \/ Deliver(w) \/ Archive(w)
  \/ AIReply(w) \/ AIMenu(w) \/ SendMenu(w) \/ BrowseAfterMenu(w)

Next == \E w \in Workers : Receive(w) \/ Step(w) \/ Interrupt(w)

Spec == Init /\ [][Next]_vars

-----------------------------------------------------------------------------
(* Type invariant.                                                         *)
TypeOK ==
  /\ users \subseteq Customers /\ known \subseteq Customers
  /\ conv \in [Customers -> Doc]
  /\ job \in [Workers -> {Idle} \cup Job]
  /\ orders \subseteq Order

-----------------------------------------------------------------------------
(* Safety, with overlapping handlers and stale snapshots.                  *)

\* The states from which an order can be placed.
Checkout == {"ORDERING", "ADDRESS_COLLECTION", "CONFIRMING_OFFLINE"}

\* The stored state and the stored cart always fit: nobody is asked to pay for
\* or to confirm an empty cart, however late a stale snapshot is written back.
CheckoutHasCart ==
  \A c \in known : conv[c].state \in Checkout => conv[c].cart # {}

\* finalizeOrderOffline does not check the cart as finalizeOrder does; the tree
\* alone keeps an order without items from being placed.
NoEmptyOrder == \A o \in orders : o.cart # {}

\* A cash order is placed only after the customer answered the question for an
\* address, whatever handlers overlapped.  The answer may be blank: nothing asks
\* again, so such an order has an empty shippingAddress.
CodAddressAnswered == \A o \in orders : o.method = "OFFLINE" => o.address # "none"

\* A reply that announces a confirmed order or a payment link is on its way only
\* when an order of that customer, of that kind, is in the database.
ConfirmationBacked ==
  \A w \in {v \in Busy : job[v].stage \in {"persist", "send", "archive"}} :
    /\ job[w].reply.says = "confirmed" =>
         \E o \in orders : o.by = job[w].from /\ o.method = "OFFLINE"
    /\ job[w].reply.says = "link" =>
         \E o \in orders : o.by = job[w].from /\ o.method = "ONLINE"

\* A handover to a human is undone only by a handler that had read the
\* conversation before the handover began, or by a RESUME the AI takes for a
\* wish to see the menu; no later message of the customer ends it.
HandoverHolds ==
  [][\A c \in known :
       conv[c].state = "PAUSED" /\ conv'[c].state # "PAUSED" =>
         \E w \in Busy :
           /\ job[w].from = c
           /\ \/ At(w, "persist") /\ job[w].saw # "PAUSED"
              \/ At(w, "browse") /\ job[w].msg.word = "RESUME"]_vars

=============================================================================
