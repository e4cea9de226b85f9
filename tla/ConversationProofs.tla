------------------------- MODULE ConversationProofs -------------------------
(***************************************************************************)
(* Theorems about Conversation, for any customers, products, messages and  *)
(* number of overlapping handlers.                                         *)
(*                                                                         *)
(* The argument: state and context are only ever written together, as one  *)
(* document that some handler computed from one document it had read.  If  *)
(* reading a sound document always leads to writing a sound one, then no   *)
(* interleaving and no stale snapshot can store an unsound one.  So the    *)
(* inductive invariant says of every document in the system, stored, held  *)
(* as a snapshot or about to be stored, that it is sound.                  *)
(***************************************************************************)
EXTENDS Conversation, TLAPS

-----------------------------------------------------------------------------
(* The inductive invariant.                                                *)

\* A document is sound when its state and its context fit.
Sound(doc) ==
  /\ doc.state \in Checkout => doc.cart # {}
  /\ doc.state = "CONFIRMING_OFFLINE" => doc.address # "none"

SoundOrder(o) == o.cart # {} /\ (o.method = "OFFLINE" => o.address # "none")

\* The orders are a parameter: what held of fewer orders holds of more.
HasOrder(c, method, placed) == \E o \in placed : o.by = c /\ o.method = method

\* What a reply announces is in the order table.
Backed(c, reply, placed) ==
  /\ reply.says = "confirmed" => HasOrder(c, "OFFLINE", placed)
  /\ reply.says = "link" => HasOrder(c, "ONLINE", placed)

\* What each kind of job holds.
SoundJob(j, placed) ==
  /\ j \in Placing =>
       /\ Sound(j.snap) /\ j.snap.state \in {"ORDERING", "CONFIRMING_OFFLINE"}
       /\ j.stage = "link" => j.snap.state = "ORDERING" /\ HasOrder(j.from, "ONLINE", placed)
  /\ j \in Ready => Sound(j.next) /\ Backed(j.from, j.reply, placed)
  /\ j \in Sending => Backed(j.from, j.reply, placed)

SoundConv == \A c \in Customers : Sound(conv[c])
SoundJobs == \A w \in Workers : SoundJob(job[w], orders)
SoundOrders == \A o \in orders : SoundOrder(o)

IInv == TypeOK /\ SoundConv /\ SoundJobs /\ SoundOrders

-----------------------------------------------------------------------------
(* The decision tree turns a sound document into sound answers.            *)

Types == {"text", "button", "list"}

\* An answer that stores a sound document and announces nothing.
Harmless(a) ==
  /\ a.next \in Doc /\ Sound(a.next)
  /\ a.reply \in Reply /\ a.reply.says = "other"

LEMMA GoShape ==
  ASSUME NEW doc \in Doc, NEW s \in States
  PROVE  /\ Go(doc, s) \in Doc /\ Go(doc, s).state = s
         /\ Go(doc, s).cart = doc.cart /\ Go(doc, s).address = doc.address
  BY DEF Go, Doc

LEMMA AnswerShape ==
  ASSUME NEW doc \in Doc, Sound(doc), NEW t \in Types
  PROVE  Harmless(Answer(doc, t))
  BY DEF Harmless, Answer, Reply, Types

\* Leaving the checkout is sound from anywhere ...
LEMMA LeaveCheckout ==
  ASSUME NEW doc \in Doc, NEW s \in States \ Checkout, NEW t \in Types
  PROVE  Harmless(Answer(Go(doc, s), t))
  <1>1. Go(doc, s) \in Doc /\ Sound(Go(doc, s))
    BY GoShape DEF Sound, Checkout
  <1> QED
    BY <1>1, AnswerShape

\* ... and entering or staying in it is sound with a cart.
LEMMA StayInCheckout ==
  ASSUME NEW doc \in Doc, doc.cart # {}, NEW s \in {"ORDERING", "ADDRESS_COLLECTION"},
         NEW t \in Types
  PROVE  Harmless(Answer(Go(doc, s), t))
  <1>1. Go(doc, s) \in Doc /\ Sound(Go(doc, s))
    BY GoShape DEF Sound, States, ListedStates, UnlistedStates
  <1> QED
    BY <1>1, AnswerShape

LEMMA TreeIsHarmless ==
  ASSUME NEW doc \in Doc, Sound(doc), NEW msg \in Message, NEW a \in Flow(doc, msg)
  PROVE  Harmless(a)
  <1>0. {"GREETING", "BROWSING", "PAUSED"} \subseteq States \ Checkout
    BY DEF States, ListedStates, UnlistedStates, Checkout
  <1>1. ASSUME a \in StartMenu(doc) PROVE Harmless(a)
    BY <1>0, <1>1, LeaveCheckout DEF StartMenu, Types
  <1>2. ASSUME a \in CategoryList(doc) PROVE Harmless(a)
    BY <1>0, <1>2, LeaveCheckout DEF CategoryList, Types
  <1>3. ASSUME a \in Greeting(doc, msg) PROVE Harmless(a)
    BY <1>0, <1>2, <1>3, LeaveCheckout DEF Greeting, Handover, Types
  <1>4. ASSUME a \in ProductSelection(doc, msg.product) PROVE Harmless(a)
    <2>1. [doc EXCEPT !.cart = @ \cup {msg.product}] \in Doc
      BY DEF Doc, Message
    <2>2. [doc EXCEPT !.cart = @ \cup {msg.product}].cart # {}
      BY DEF Doc
    <2>3. CASE msg.product \in UpperIds
      BY <1>4, <2>1, <2>2, <2>3, StayInCheckout DEF ProductSelection, Types
    <2>4. CASE msg.product \notin UpperIds
      BY <1>0, <1>4, <2>4, LeaveCheckout DEF ProductSelection, Types
    <2> QED
      BY <2>3, <2>4
  <1>5. ASSUME a \in Browsing(doc, msg) PROVE Harmless(a)
    BY <1>0, <1>2, <1>4, <1>5, LeaveCheckout DEF Browsing, ProductList, Handover, Types
  <1>6. ASSUME doc.state = "ORDERING", a \in Ordering(doc, msg) PROVE Harmless(a)
    <2>1. doc.cart # {}
      BY <1>6 DEF Sound, Checkout
    <2> QED
      BY <1>2, <1>6, <2>1, StayInCheckout DEF Ordering, Types
  <1>7. ASSUME doc.state = "ADDRESS_COLLECTION", a \in AddressCollection(doc, msg)
        PROVE  Harmless(a)
    <2> DEFINE d == Go([doc EXCEPT !.address = Trimmed(msg)], "CONFIRMING_OFFLINE")
    <2>1. doc.cart # {}
      BY <1>7 DEF Sound, Checkout
    <2>2. d \in Doc /\ Sound(d)
      <3>1. Trimmed(msg) \in Addresses /\ Trimmed(msg) # "none"
        BY DEF Trimmed, Addresses
      <3> QED
        BY <2>1, <3>1 DEF Go, Doc, Sound, States, UnlistedStates
    <2> QED
      BY <1>7, <2>2, AnswerShape DEF AddressCollection, Types
  <1>8. ASSUME doc.state = "CONFIRMING_OFFLINE",
               a = Answer(Go(doc, "ADDRESS_COLLECTION"), "text")
        PROVE  Harmless(a)
    BY <1>8, StayInCheckout DEF Sound, Checkout, Types
  <1> QED
    BY <1>1, <1>3, <1>5, <1>6, <1>7, <1>8 DEF Flow

-----------------------------------------------------------------------------
(* Jobs.                                                                   *)

\* The stage tells the kind of a job.
LEMMA KindOfJob ==
  ASSUME NEW j \in {Idle} \cup Job
  PROVE  /\ j.stage \in {"newCustomer", "store", "newState"} => j \in Arriving
         /\ j.stage \in {"place", "link"} => j \in Placing
         /\ j.stage = "persist" => j \in Ready
         /\ j.stage \in {"send", "archive"} => j \in Sending
         /\ j.stage \in {"think", "menu", "browse"} => j \in Asking
  BY DEF Job, Idle, Arriving, Placing, Ready, Sending, Asking

\* A job that holds no document and no reply has nothing to be sound about.
LEMMA PlainJobIsSound ==
  ASSUME NEW j \in {Idle} \cup Arriving \cup Asking, NEW placed
  PROVE  j \in {Idle} \cup Job /\ SoundJob(j, placed)
  BY DEF SoundJob, Job, Idle, Arriving, Placing, Ready, Sending, Asking

\* Reading a sound document leads to a sound job.
LEMMA RoutesAreSound ==
  ASSUME NEW c \in Customers, NEW doc \in Doc, Sound(doc), NEW msg \in Message,
         NEW j \in Routes(c, doc, msg), NEW placed
  PROVE  j \in {Idle} \cup Job /\ SoundJob(j, placed)
  <1> DEFINE Ready0(a) == [stage |-> "persist", from |-> c, saw |-> doc.state,
                           next |-> a.next, reply |-> a.reply]
  <1>1. ASSUME NEW a, Harmless(a), j = Ready0(a)
        PROVE  j \in {Idle} \cup Job /\ SoundJob(j, placed)
    <2>1. j \in Ready
      BY <1>1 DEF Harmless, Ready, Doc
    <2>2. j \notin Placing /\ j \notin Sending
      BY <1>1 DEF Placing, Sending
    <2>3. Sound(j.next) /\ Backed(j.from, j.reply, placed)
      BY <1>1 DEF Harmless, Backed
    <2> QED
      BY <2>1, <2>2, <2>3 DEF SoundJob, Job
  <1>2. ASSUME j = [stage |-> "place", from |-> c, snap |-> doc],
               doc.state \in {"ORDERING", "CONFIRMING_OFFLINE"}
        PROVE  j \in {Idle} \cup Job /\ SoundJob(j, placed)
    <2>1. j \in Placing
      BY <1>2 DEF Placing
    <2>2. j \notin Ready /\ j \notin Sending
      BY <1>2 DEF Ready, Sending
    <2> QED
      BY <1>2, <2>1, <2>2 DEF SoundJob, Job
  <1>3. ASSUME j = Idle \/ j = [stage |-> "think", from |-> c, msg |-> msg]
        PROVE  j \in {Idle} \cup Job /\ SoundJob(j, placed)
    <2>1. j \in {Idle} \cup Asking
      BY <1>3 DEF Asking
    <2> QED
      BY <2>1, PlainJobIsSound
  <1>4. Harmless(Answer(Go(doc, "GREETING"), "text"))
    BY LeaveCheckout DEF States, ListedStates, UnlistedStates, Checkout, Types
  <1>5. CASE Quiet(doc, msg)
    BY <1>3, <1>5 DEF Routes, PaysOnline, ConfirmsCod, Quiet
  <1>6. CASE ~Quiet(doc, msg) /\ doc.state = "PAUSED"
    BY <1>3, <1>6 DEF Routes, PaysOnline, ConfirmsCod, Quiet
  <1>7. CASE PaysOnline(doc, msg) /\ doc.cart = {}
    BY <1>1, <1>4, <1>7 DEF Routes, PaysOnline, ConfirmsCod, Quiet
  <1>8. CASE PaysOnline(doc, msg) /\ doc.cart # {}
    BY <1>2, <1>8 DEF Routes, PaysOnline, ConfirmsCod, Quiet
  <1>9. CASE ConfirmsCod(doc, msg)
    BY <1>2, <1>9 DEF Routes, PaysOnline, ConfirmsCod, Quiet
  <1>10. CASE doc.state # "PAUSED" /\ ~PaysOnline(doc, msg) /\ ~ConfirmsCod(doc, msg)
    <2>1. PICK a \in Flow(doc, msg) : j = Ready0(a)
      BY <1>10 DEF Routes, Quiet
    <2> QED
      BY <2>1, <1>1, TreeIsHarmless
  <1> QED
    BY <1>5, <1>6, <1>7, <1>8, <1>9, <1>10

\* More orders take nothing away from a job.
LEMMA SoundWithMoreOrders ==
  ASSUME NEW j, NEW placed, NEW more, placed \subseteq more, SoundJob(j, placed)
  PROVE  SoundJob(j, more)
  BY DEF SoundJob, Backed, HasOrder

\* A step that gives one worker a sound job and only adds orders keeps all jobs
\* sound.
LEMMA ReplaceJob ==
  ASSUME TypeOK, SoundJobs, NEW w \in Workers, NEW j \in {Idle} \cup Job,
         job' = [job EXCEPT ![w] = j], orders \subseteq orders', SoundJob(j, orders')
  PROVE  job' \in [Workers -> {Idle} \cup Job] /\ SoundJobs'
  <1>1. job' \in [Workers -> {Idle} \cup Job]
    BY DEF TypeOK
  <1>2. ASSUME NEW v \in Workers PROVE SoundJob(job'[v], orders')
    <2>1. CASE v = w
      BY <2>1 DEF TypeOK
    <2>2. CASE v # w
      <3>1. job'[v] = job[v] /\ SoundJob(job[v], orders)
        BY <2>2 DEF TypeOK, SoundJobs
      <3> QED
        BY <3>1, SoundWithMoreOrders
    <2> QED
      BY <2>1, <2>2
  <1> QED
    BY <1>1, <1>2 DEF SoundJobs

-----------------------------------------------------------------------------
(* Steps.                                                                  *)

LEMMA InitIInv == Init => IInv
  <1> SUFFICES ASSUME Init PROVE IInv
    OBVIOUS
  <1>1. NewDoc \in Doc /\ Sound(NewDoc)
    BY DEF NewDoc, Doc, Addresses, States, ListedStates, UnlistedStates, Sound, Checkout
  <1>2. TypeOK /\ SoundConv /\ SoundOrders
    BY <1>1 DEF Init, TypeOK, SoundConv, SoundOrders
  <1>3. SoundJobs
    BY PlainJobIsSound DEF Init, SoundJobs
  <1> QED
    BY <1>2, <1>3 DEF IInv

\* A step is described by the job it leaves its worker with and by the rows and
\* documents it writes.
LEMMA StepOfWorker ==
  ASSUME IInv, NEW w \in Workers, NEW j \in {Idle} \cup Job,
         job' = [job EXCEPT ![w] = j], SoundJob(j, orders'),
         users' \subseteq Customers, known' \subseteq Customers,
         conv' \in [Customers -> Doc], SoundConv',
         orders \subseteq orders', orders' \subseteq Order, SoundOrders'
  PROVE  IInv'
  BY ReplaceJob DEF IInv, TypeOK

\* The steps that write neither a document nor an order.
LEMMA StepOfJob ==
  ASSUME IInv, NEW w \in Workers, NEW j \in {Idle} \cup Job,
         job' = [job EXCEPT ![w] = j], SoundJob(j, orders),
         users' \subseteq Customers, known' \subseteq Customers,
         UNCHANGED <<conv, orders>>
  PROVE  IInv'
  BY StepOfWorker DEF IInv, TypeOK, SoundConv, SoundOrders

LEMMA TypesOfRows ==
  ASSUME IInv
  PROVE  users \subseteq Customers /\ known \subseteq Customers
  BY DEF IInv, TypeOK

LEMMA TypeOfJob ==
  ASSUME IInv, NEW w \in Workers
  PROVE  job[w] \in {Idle} \cup Job /\ SoundJob(job[w], orders)
  BY DEF IInv, TypeOK, SoundJobs

\* The steps after which the worker is idle.
LEMMA FinishKeepsIInv ==
  ASSUME IInv, NEW w \in Workers, Finish(w), users' \subseteq Customers,
         known' \subseteq Customers, UNCHANGED <<conv, orders>>
  PROVE  IInv'
  BY StepOfJob, PlainJobIsSound DEF Finish

LEMMA ReceiveKeepsIInv ==
  ASSUME IInv, ConversationAssumption, NEW w \in Workers, Receive(w)
  PROVE  IInv'
  <1> DEFINE J(c, m) == [stage |-> IF c \in users THEN "store" ELSE "newCustomer",
                         from |-> c, msg |-> m]
  <1>1. PICK c \in Customers, m \in Inputs : job' = [job EXCEPT ![w] = J(c, m)]
    BY DEF Receive
  <1>2. J(c, m) \in Arriving
    BY DEF ConversationAssumption, Arriving
  <1>3. J(c, m) \in {Idle} \cup Job /\ SoundJob(J(c, m), orders)
    BY <1>2, PlainJobIsSound
  <1> HIDE DEF J
  <1> QED
    BY <1>1, <1>3, StepOfJob, TypesOfRows DEF Receive

LEMMA CreateCustomerKeepsIInv ==
  ASSUME IInv, NEW w \in Workers, CreateCustomer(w)
  PROVE  IInv'
  <1>1. job[w] \in Arriving
    BY TypeOfJob, KindOfJob DEF CreateCustomer, At
  <1>2. users' \subseteq Customers
    BY <1>1, TypesOfRows DEF CreateCustomer, Arriving
  <1>3. CASE job[w].from \in users
    BY <1>2, <1>3, FinishKeepsIInv, TypesOfRows DEF CreateCustomer
  <1>4. CASE job[w].from \notin users
    <2> DEFINE j == [job[w] EXCEPT !.stage = "store"]
    <2>1. j \in Arriving
      BY <1>1 DEF Arriving
    <2>2. job' = [job EXCEPT ![w] = j]
      BY <1>4 DEF CreateCustomer, Become
    <2> HIDE DEF j
    <2> QED
      BY <1>2, <2>1, <2>2, StepOfJob, PlainJobIsSound, TypesOfRows DEF CreateCustomer
  <1> QED
    BY <1>3, <1>4

\* What a handler that reads the document does next.
LEMMA RouteKeepsIInv ==
  ASSUME IInv, NEW w \in Workers, NEW c \in Customers, NEW doc \in Doc, Sound(doc),
         NEW msg \in Message, NEW j \in Routes(c, doc, msg), job' = [job EXCEPT ![w] = j],
         known' \subseteq Customers, UNCHANGED <<users, conv, orders>>
  PROVE  IInv'
  BY RoutesAreSound, StepOfJob, TypesOfRows

LEMMA FindStateKeepsIInv ==
  ASSUME IInv, NEW w \in Workers, FindState(w)
  PROVE  IInv'
  <1> DEFINE c == job[w].from
  <1>1. job[w] \in Arriving
    BY TypeOfJob, KindOfJob DEF FindState, At
  <1>2. c \in Customers /\ job[w].msg \in Message
    BY <1>1 DEF Arriving
  <1>3. conv[c] \in Doc /\ Sound(conv[c])
    BY <1>2 DEF IInv, TypeOK, SoundConv
  <1>4. CASE c \in known
    <2>1. PICK j \in Routes(c, conv[c], job[w].msg) : job' = [job EXCEPT ![w] = j]
      BY <1>4 DEF FindState
    <2> HIDE DEF c
    <2> QED
      BY <1>2, <1>3, <2>1, RouteKeepsIInv, TypesOfRows DEF FindState
  <1>5. CASE c \notin known
    <2> DEFINE j == [job[w] EXCEPT !.stage = "newState"]
    <2>1. j \in Arriving
      BY <1>1 DEF Arriving
    <2>2. job' = [job EXCEPT ![w] = j]
      BY <1>5 DEF FindState, Become
    <2> HIDE DEF j
    <2> QED
      BY <2>1, <2>2, StepOfJob, PlainJobIsSound, TypesOfRows DEF FindState
  <1> QED
    BY <1>4, <1>5

LEMMA CreateStateKeepsIInv ==
  ASSUME IInv, NEW w \in Workers, CreateState(w)
  PROVE  IInv'
  <1> DEFINE c == job[w].from
  <1>1. job[w] \in Arriving
    BY TypeOfJob, KindOfJob DEF CreateState, At
  <1>2. c \in Customers /\ job[w].msg \in Message
    BY <1>1 DEF Arriving
  <1>3. known' \subseteq Customers
    BY <1>2, TypesOfRows DEF CreateState
  <1>4. CASE c \in known
    BY <1>3, <1>4, FinishKeepsIInv, TypesOfRows DEF CreateState
  <1>5. CASE c \notin known
    <2>1. PICK j \in Routes(c, NewDoc, job[w].msg) : job' = [job EXCEPT ![w] = j]
      BY <1>5 DEF CreateState
    <2>2. NewDoc \in Doc /\ Sound(NewDoc)
      BY DEF NewDoc, Doc, Addresses, States, ListedStates, UnlistedStates, Sound, Checkout
    <2> HIDE DEF c
    <2> QED
      BY <1>2, <1>3, <2>1, <2>2, RouteKeepsIInv DEF CreateState
  <1> QED
    BY <1>4, <1>5

\* The order a worker places is a sound one.
LEMMA PlacedOrder ==
  ASSUME IInv, NEW w \in Workers, job[w] \in Placing
  PROVE  /\ OrderOf(w) \in Order /\ SoundOrder(OrderOf(w))
         /\ orders \cup {OrderOf(w)} \subseteq Order
         /\ \A o \in orders \cup {OrderOf(w)} : SoundOrder(o)
         /\ HasOrder(job[w].from, Method(w), orders \cup {OrderOf(w)})
  <1>1. /\ job[w].snap \in Doc /\ job[w].from \in Customers /\ Sound(job[w].snap)
        /\ job[w].snap.state \in {"ORDERING", "CONFIRMING_OFFLINE"}
    BY TypeOfJob DEF Placing, SoundJob
  <1>2. /\ Method(w) \in {"ONLINE", "OFFLINE"}
        /\ Method(w) = "OFFLINE" => job[w].snap.address # "none"
    BY <1>1 DEF Method, Sound
  <1>3. job[w].snap.cart # {} /\ job[w].snap.cart \subseteq Products
    BY <1>1 DEF Sound, Checkout, Doc
  <1>4. (IF Method(w) = "OFFLINE" THEN job[w].snap.address ELSE "none") \in Addresses
    BY <1>1 DEF Addresses, Doc
  <1>5. OrderOf(w) \in Order
    BY <1>1, <1>2, <1>3, <1>4 DEF OrderOf, Order
  <1>6. SoundOrder(OrderOf(w))
    BY <1>2, <1>3 DEF OrderOf, SoundOrder
  <1>7. HasOrder(job[w].from, Method(w), orders \cup {OrderOf(w)})
    <2>1. OrderOf(w).by = job[w].from /\ OrderOf(w).method = Method(w)
      BY DEF OrderOf
    <2> QED
      BY <2>1, Zenon DEF HasOrder
  <1> QED
    BY <1>5, <1>6, <1>7 DEF IInv, TypeOK, SoundOrders

\* A worker that concludes from its snapshot holds a sound document, and a reply
\* that is backed if it announces nothing or what was just placed.
LEMMA ConcludeKeepsIInv ==
  ASSUME IInv, NEW w \in Workers, job[w] \in Placing, NEW doc \in Doc, Sound(doc),
         NEW text \in {"confirmed", "link", "other"}, Conclude(w, doc, text),
         text = "confirmed" => HasOrder(job[w].from, "OFFLINE", orders'),
         text = "link" => HasOrder(job[w].from, "ONLINE", orders'),
         orders \subseteq orders', orders' \subseteq Order, SoundOrders',
         UNCHANGED <<users, known, conv>>
  PROVE  IInv'
  <1> DEFINE j == [stage |-> "persist", from |-> job[w].from, saw |-> job[w].snap.state,
                   next |-> doc, reply |-> [type |-> "text", says |-> text]]
  <1>1. j \in Ready
    BY DEF Ready, Placing, Doc, Reply
  <1>2. j \in {Idle} \cup Job
    BY <1>1 DEF Job
  <1>3. j \notin Placing /\ j \notin Sending
    BY DEF Placing, Sending
  <1>4. Sound(j.next) /\ Backed(j.from, j.reply, orders')
    BY DEF Backed
  <1>5. SoundJob(j, orders')
    BY <1>1, <1>3, <1>4 DEF SoundJob
  <1>6. job' = [job EXCEPT ![w] = j]
    BY DEF Conclude
  <1>7. conv' \in [Customers -> Doc] /\ SoundConv'
    BY DEF IInv, TypeOK, SoundConv
  <1> HIDE DEF j
  <1> QED
    BY <1>2, <1>5, <1>6, <1>7, StepOfWorker, TypesOfRows

\* The document the error branches store is sound.
LEMMA FailKeepsIInv ==
  ASSUME IInv, NEW w \in Workers, job[w] \in Placing, Fail(w),
         orders' \in {orders, orders \cup {OrderOf(w)}},
         UNCHANGED <<users, known, conv>>
  PROVE  IInv'
  <1>1. job[w].snap \in Doc /\ Sound(job[w].snap)
        /\ job[w].snap.state \in {"ORDERING", "CONFIRMING_OFFLINE"}
    BY TypeOfJob DEF Placing, SoundJob
  <1>2. FailedState(w) \in {"CONFIRMING", "ORDERING"} /\ FailedState(w) \in States
    BY DEF FailedState, States, ListedStates, UnlistedStates
  <1>3. Go(job[w].snap, FailedState(w)) \in Doc /\ Sound(Go(job[w].snap, FailedState(w)))
    BY <1>1, <1>2, GoShape DEF Sound, Checkout
  <1>4. orders \subseteq orders' /\ orders' \subseteq Order /\ SoundOrders'
    BY PlacedOrder DEF IInv, TypeOK, SoundOrders
  <1> QED
    BY <1>3, <1>4, ConcludeKeepsIInv DEF Fail

LEMMA PlaceErrorKeepsIInv ==
  ASSUME IInv, NEW w \in Workers, PlaceError(w)
  PROVE  IInv'
  <1>1. job[w] \in Placing
    BY TypeOfJob, KindOfJob DEF PlaceError, At
  <1> QED
    BY <1>1, FailKeepsIInv DEF PlaceError

LEMMA LinkErrorKeepsIInv ==
  ASSUME IInv, NEW w \in Workers, LinkError(w)
  PROVE  IInv'
  <1>1. job[w] \in Placing
    BY TypeOfJob, KindOfJob DEF LinkError, At
  <1> QED
    BY <1>1, FailKeepsIInv DEF LinkError

LEMMA PlaceOkKeepsIInv ==
  ASSUME IInv, NEW w \in Workers, PlaceOk(w)
  PROVE  IInv'
  <1>1. job[w] \in Placing /\ job[w].stage = "place"
    BY TypeOfJob, KindOfJob DEF PlaceOk, At
  <1>2. /\ job[w].snap \in Doc /\ Sound(job[w].snap)
        /\ job[w].snap.state \in {"ORDERING", "CONFIRMING_OFFLINE"}
    BY <1>1, TypeOfJob DEF Placing, SoundJob
  <1>3. /\ orders' = orders \cup {OrderOf(w)}
        /\ orders' \subseteq Order /\ SoundOrders'
        /\ HasOrder(job[w].from, Method(w), orders')
    BY <1>1, PlacedOrder DEF PlaceOk, SoundOrders
  <1>4. CASE Method(w) = "ONLINE"
    <2> DEFINE j == [job[w] EXCEPT !.stage = "link"]
    <2>1. j \in Placing
      BY <1>1 DEF Placing
    <2>2. j \in {Idle} \cup Job
      BY <2>1 DEF Job
    <2>3. j \notin Ready /\ j \notin Sending /\ j.snap = job[w].snap /\ j.from = job[w].from
      BY <1>1 DEF Ready, Sending, Placing
    <2>4. job[w].snap.state = "ORDERING"
      BY <1>4 DEF Method
    <2>5. SoundJob(j, orders')
      BY <1>2, <1>3, <1>4, <2>3, <2>4 DEF SoundJob
    <2>6. job' = [job EXCEPT ![w] = j]
      BY <1>4 DEF PlaceOk, Become
    <2>7. conv' \in [Customers -> Doc] /\ SoundConv'
      BY DEF PlaceOk, IInv, TypeOK, SoundConv
    <2> HIDE DEF j
    <2> QED
      BY <1>3, <2>2, <2>5, <2>6, <2>7, StepOfWorker, TypesOfRows DEF PlaceOk
  <1>5. CASE Method(w) # "ONLINE"
    <2> DEFINE d == [Go(job[w].snap, "GREETING") EXCEPT !.cart = {}]
    <2>1. Method(w) = "OFFLINE"
      BY <1>5 DEF Method
    <2>2. d \in Doc /\ Sound(d)
      BY <1>2 DEF Go, Doc, States, ListedStates, UnlistedStates, Sound, Checkout
    <2>3. Conclude(w, d, "confirmed")
      BY <1>5 DEF PlaceOk
    <2> HIDE DEF d
    <2> QED
      BY <1>1, <1>3, <2>1, <2>2, <2>3, ConcludeKeepsIInv DEF PlaceOk
  <1> QED
    BY <1>4, <1>5

LEMMA LinkOkKeepsIInv ==
  ASSUME IInv, NEW w \in Workers, LinkOk(w)
  PROVE  IInv'
  <1>1. job[w] \in Placing /\ job[w].stage = "link"
    BY TypeOfJob, KindOfJob DEF LinkOk, At
  <1>2. /\ job[w].snap \in Doc /\ Sound(job[w].snap)
        /\ HasOrder(job[w].from, "ONLINE", orders)
    BY <1>1, TypeOfJob DEF Placing, SoundJob
  <1>3. Go(job[w].snap, "PAYING") \in Doc /\ Sound(Go(job[w].snap, "PAYING"))
    BY <1>2, GoShape DEF Sound, Checkout, States, ListedStates, UnlistedStates
  <1> QED
    BY <1>1, <1>2, <1>3, ConcludeKeepsIInv DEF LinkOk, IInv, TypeOK, SoundOrders

-----------------------------------------------------------------------------
(* Writing the document and replying.                                      *)

\* A worker that sends a backed reply.
LEMMA SendIsSound ==
  ASSUME NEW c \in Customers, NEW reply \in Reply, NEW placed, Backed(c, reply, placed),
         NEW s \in {"send", "archive"}
  PROVE  LET j == [stage |-> s, from |-> c, reply |-> reply]
         IN  j \in {Idle} \cup Job /\ SoundJob(j, placed)
  <1> DEFINE j == [stage |-> s, from |-> c, reply |-> reply]
  <1>1. j \in Sending
    BY DEF Sending
  <1>2. j \notin Placing /\ j \notin Ready
    BY DEF Placing, Ready
  <1> QED
    BY <1>1, <1>2 DEF SoundJob, Job

LEMMA PersistKeepsIInv ==
  ASSUME IInv, NEW w \in Workers, Persist(w)
  PROVE  IInv'
  <1>1. job[w] \in Ready
    BY TypeOfJob, KindOfJob DEF Persist, At
  <1>2. /\ job[w].from \in Customers /\ job[w].next \in Doc /\ job[w].reply \in Reply
        /\ Sound(job[w].next) /\ Backed(job[w].from, job[w].reply, orders)
    BY <1>1, TypeOfJob DEF Ready, SoundJob
  <1>3. conv' \in [Customers -> Doc] /\ SoundConv'
    BY <1>2 DEF Persist, IInv, TypeOK, SoundConv
  <1> DEFINE j == [stage |-> "send", from |-> job[w].from, reply |-> job[w].reply]
  <1>4. j \in {Idle} \cup Job /\ SoundJob(j, orders)
    BY <1>2, SendIsSound
  <1>5. job' = [job EXCEPT ![w] = j]
    BY DEF Persist, Send
  <1>6. UNCHANGED <<users, known, orders>> /\ orders' \subseteq Order /\ SoundOrders'
    BY DEF Persist, IInv, TypeOK, SoundOrders
  <1> HIDE DEF j
  <1> QED
    BY <1>3, <1>4, <1>5, <1>6, StepOfWorker, TypesOfRows

LEMMA DeliverKeepsIInv ==
  ASSUME IInv, NEW w \in Workers, Deliver(w)
  PROVE  IInv'
  <1>1. job[w] \in Sending
    BY TypeOfJob, KindOfJob DEF Deliver, At
  <1>2. /\ job[w].from \in Customers /\ job[w].reply \in Reply
        /\ Backed(job[w].from, job[w].reply, orders)
    BY <1>1, TypeOfJob DEF Sending, SoundJob
  <1> DEFINE j == [stage |-> "archive", from |-> job[w].from, reply |-> job[w].reply]
  <1>3. j \in {Idle} \cup Job /\ SoundJob(j, orders)
    BY <1>2, SendIsSound
  <1>4. [job[w] EXCEPT !.stage = "archive"] = j
    BY <1>1 DEF Sending
  <1>5. job' = [job EXCEPT ![w] = j]
    BY <1>4 DEF Deliver, Become
  <1> HIDE DEF j
  <1> QED
    BY <1>3, <1>5, StepOfJob, TypesOfRows DEF Deliver

LEMMA ArchiveKeepsIInv ==
  ASSUME IInv, NEW w \in Workers, Archive(w)
  PROVE  IInv'
  BY FinishKeepsIInv, TypesOfRows DEF Archive

LEMMA AIReplyKeepsIInv ==
  ASSUME IInv, NEW w \in Workers, AIReply(w)
  PROVE  IInv'
  <1>1. job[w] \in Asking
    BY TypeOfJob, KindOfJob DEF AIReply, At
  <1>2. job[w].from \in Customers /\ AIText \in Reply /\ Backed(job[w].from, AIText, orders)
    BY <1>1 DEF Asking, AIText, Reply, Backed
  <1> DEFINE j == [stage |-> "send", from |-> job[w].from, reply |-> AIText]
  <1>3. j \in {Idle} \cup Job /\ SoundJob(j, orders)
    BY <1>2, SendIsSound
  <1>4. job' = [job EXCEPT ![w] = j]
    BY DEF AIReply, Send
  <1> HIDE DEF j
  <1> QED
    BY <1>3, <1>4, StepOfJob, TypesOfRows DEF AIReply

LEMMA AIMenuKeepsIInv ==
  ASSUME IInv, NEW w \in Workers, AIMenu(w)
  PROVE  IInv'
  <1> DEFINE j == [job[w] EXCEPT !.stage = "menu"]
  <1>1. job[w] \in Asking
    BY TypeOfJob, KindOfJob DEF AIMenu, At
  <1>2. j \in Asking
    BY <1>1 DEF Asking
  <1>3. job' = [job EXCEPT ![w] = j]
    BY DEF AIMenu, Become
  <1> HIDE DEF j
  <1> QED
    BY <1>2, <1>3, StepOfJob, PlainJobIsSound, TypesOfRows DEF AIMenu

LEMMA SendMenuKeepsIInv ==
  ASSUME IInv, NEW w \in Workers, SendMenu(w)
  PROVE  IInv'
  <1> DEFINE j == [job[w] EXCEPT !.stage = "browse"]
  <1>1. job[w] \in Asking
    BY TypeOfJob, KindOfJob DEF SendMenu, At
  <1>2. j \in Asking
    BY <1>1 DEF Asking
  <1>3. job' = [job EXCEPT ![w] = j]
    BY DEF SendMenu, Become
  <1> HIDE DEF j
  <1> QED
    BY <1>2, <1>3, StepOfJob, PlainJobIsSound, TypesOfRows DEF SendMenu

\* The one write of a state without a context: BROWSING is sound with any cart.
LEMMA BrowseAfterMenuKeepsIInv ==
  ASSUME IInv, NEW w \in Workers, BrowseAfterMenu(w)
  PROVE  IInv'
  <1> DEFINE c == job[w].from
  <1>1. c \in Customers
    BY TypeOfJob, KindOfJob DEF BrowseAfterMenu, At, Asking
  <1>2. conv[c] \in Doc /\ Go(conv[c], "BROWSING") \in Doc /\ Sound(Go(conv[c], "BROWSING"))
    <2>1. conv[c] \in Doc /\ "BROWSING" \in States
      BY <1>1 DEF IInv, TypeOK, States, ListedStates
    <2> QED
      BY <2>1, GoShape DEF Sound, Checkout
  <1>3. conv' = [conv EXCEPT ![c] = Go(conv[c], "BROWSING")]
    BY DEF BrowseAfterMenu, Go
  <1>4. conv' \in [Customers -> Doc] /\ SoundConv'
    BY <1>1, <1>2, <1>3 DEF IInv, TypeOK, SoundConv
  <1>5. /\ job' = [job EXCEPT ![w] = Idle] /\ Idle \in {Idle} \cup Job
        /\ SoundJob(Idle, orders')
    BY PlainJobIsSound DEF BrowseAfterMenu, Finish
  <1>6. UNCHANGED <<users, known, orders>> /\ orders' \subseteq Order /\ SoundOrders'
    BY DEF BrowseAfterMenu, IInv, TypeOK, SoundOrders
  <1> QED
    BY <1>4, <1>5, <1>6, StepOfWorker, TypesOfRows

-----------------------------------------------------------------------------
(* The theorems.                                                           *)

LEMMA StepKeepsIInv ==
  ASSUME IInv, ConversationAssumption, [Next]_vars
  PROVE  IInv'
  <1>1. ASSUME NEW w \in Workers, RejectIncoming(w) PROVE IInv'
    BY <1>1, FinishKeepsIInv, TypesOfRows DEF RejectIncoming
  <1>2. ASSUME NEW w \in Workers, Interrupt(w) PROVE IInv'
    BY <1>2, FinishKeepsIInv, TypesOfRows DEF Interrupt
  <1>3. ASSUME NEW w \in Workers, Step(w) PROVE IInv'
    BY <1>1, <1>3, CreateCustomerKeepsIInv, FindStateKeepsIInv, CreateStateKeepsIInv,
       PlaceOkKeepsIInv, PlaceErrorKeepsIInv, LinkOkKeepsIInv, LinkErrorKeepsIInv,
       PersistKeepsIInv, DeliverKeepsIInv, ArchiveKeepsIInv, AIReplyKeepsIInv,
       AIMenuKeepsIInv, SendMenuKeepsIInv, BrowseAfterMenuKeepsIInv DEF Step
  <1>4. CASE UNCHANGED vars
    BY <1>4 DEF vars, IInv, TypeOK, SoundConv, SoundJobs, SoundOrders
  <1> QED
    BY <1>2, <1>3, <1>4, ReceiveKeepsIInv DEF Next

\* Every document stored, held or about to be stored is sound, always.
THEOREM Invariance == Spec => []IInv
  <1>1. IInv /\ [Next]_vars => IInv'
    BY StepKeepsIInv, ConversationAssumption
  <1> QED
    BY InitIInv, <1>1, PTL DEF Spec

\* Every variable keeps its type.  For the stored document that is: its state is
\* one of the schema's enum other than COMPLETED, or one of the three states that
\* the tree stores although neither the enum nor CONVERSATION_STATES lists them.
THEOREM TypeCorrect == Spec => []TypeOK
  <1>1. IInv => TypeOK
    BY DEF IInv
  <1> QED
    BY Invariance, <1>1, PTL

\* Nobody is in the checkout with an empty cart, whatever handlers overlap.
THEOREM CartInCheckout == Spec => []CheckoutHasCart
  <1>1. IInv => CheckoutHasCart
    BY DEF IInv, TypeOK, SoundConv, Sound, CheckoutHasCart
  <1> QED
    BY Invariance, <1>1, PTL

\* finalizeOrderOffline, which does not look, never orders an empty cart.
THEOREM OrdersHaveItems == Spec => []NoEmptyOrder
  <1>1. IInv => NoEmptyOrder
    BY DEF IInv, SoundOrders, SoundOrder, NoEmptyOrder
  <1> QED
    BY Invariance, <1>1, PTL

\* The customer of every cash order has answered the question for an address,
\* be it with blanks.
THEOREM CashOrdersWereAnswered == Spec => []CodAddressAnswered
  <1>1. IInv => CodAddressAnswered
    BY DEF IInv, SoundOrders, SoundOrder, CodAddressAnswered
  <1> QED
    BY Invariance, <1>1, PTL

\* What a reply announces has been placed.
THEOREM AnnouncementsAreTrue == Spec => []ConfirmationBacked
  <1>1. ASSUME IInv, NEW w \in Workers, job[w] # Idle,
               job[w].stage \in {"persist", "send", "archive"}
        PROVE  Backed(job[w].from, job[w].reply, orders)
    BY <1>1, TypeOfJob, KindOfJob DEF SoundJob
  <1>2. IInv => ConfirmationBacked
    BY <1>1 DEF ConfirmationBacked, Busy, Backed, HasOrder
  <1> QED
    BY Invariance, <1>2, PTL

-----------------------------------------------------------------------------
(* The handover to a human.                                                *)

\* What a worker holds was not decided from a paused conversation, unless the
\* customer's RESUME was put to the AI.
Heeds(j) ==
  /\ j.stage = "persist" => j.saw # "PAUSED"
  /\ j.stage \in {"think", "menu", "browse"} => j.msg.word = "RESUME"

Heeding == \A w \in Workers : Heeds(job[w])

\* A step that gives one worker a heeding job keeps the others as they are.
LEMMA ReplaceHeeding ==
  ASSUME TypeOK, Heeding, NEW w \in Workers, NEW j, Heeds(j), job' = [job EXCEPT ![w] = j]
  PROVE  Heeding'
  <1>1. ASSUME NEW v \in Workers PROVE Heeds(job'[v])
    <2>1. CASE v = w
      BY <2>1 DEF TypeOK
    <2>2. CASE v # w
      BY <2>2 DEF TypeOK, Heeding
    <2> QED
      BY <2>1, <2>2
  <1> QED
    BY <1>1 DEF Heeding, Heeds

\* Whatever follows the reading of a document heeds the pause it shows.
LEMMA RoutesHeed ==
  ASSUME NEW c, NEW doc, NEW msg, NEW j \in Routes(c, doc, msg)
  PROVE  Heeds(j)
  <1> DEFINE Ready0(a) == [stage |-> "persist", from |-> c, saw |-> doc.state,
                           next |-> a.next, reply |-> a.reply]
  <1>1. CASE Quiet(doc, msg)
    <2>1. j = Idle
      BY <1>1 DEF Routes, PaysOnline, ConfirmsCod, Quiet
    <2> QED
      BY <2>1 DEF Idle, Heeds
  <1>2. CASE ~Quiet(doc, msg) /\ doc.state = "PAUSED"
    <2>1. j = [stage |-> "think", from |-> c, msg |-> msg]
      BY <1>2 DEF Routes, PaysOnline, ConfirmsCod, Quiet
    <2> QED
      BY <1>2, <2>1 DEF Quiet, Heeds
  <1>3. CASE doc.state # "PAUSED"
    <2>1. \/ j = [stage |-> "place", from |-> c, snap |-> doc]
          \/ \E a : j = Ready0(a)
      <3>1. CASE PaysOnline(doc, msg) /\ doc.cart = {}
        BY <3>1, <1>3 DEF Routes, PaysOnline, ConfirmsCod, Quiet
      <3>2. CASE PaysOnline(doc, msg) /\ doc.cart # {}
        BY <3>2, <1>3 DEF Routes, PaysOnline, ConfirmsCod, Quiet
      <3>3. CASE ConfirmsCod(doc, msg)
        BY <3>3, <1>3 DEF Routes, PaysOnline, ConfirmsCod, Quiet
      <3>4. CASE ~PaysOnline(doc, msg) /\ ~ConfirmsCod(doc, msg)
        BY <3>4, <1>3 DEF Routes, Quiet
      <3> QED
        BY <3>1, <3>2, <3>3, <3>4
    <2> QED
      BY <1>3, <2>1 DEF Heeds
  <1> QED
    BY <1>1, <1>2, <1>3 DEF Quiet

\* A step that only changes the stage of a job.
LEMMA BecomeHeeds ==
  ASSUME IInv, Heeding, NEW w \in Workers, job[w] \in Job, NEW s, Become(w, s),
         \/ s \in {"store", "newState", "link", "archive"}
         \/ s \in {"menu", "browse"} /\ job[w].stage \in {"think", "menu"}
  PROVE  Heeding'
  <1> DEFINE j == [job[w] EXCEPT !.stage = s]
  <1>1. j.stage = s
    BY DEF Job, Arriving, Placing, Ready, Sending, Asking
  <1>2. s \in {"menu", "browse"} => j.msg.word = "RESUME"
    <2>1. ASSUME s \in {"menu", "browse"} PROVE j.msg = job[w].msg
      BY <2>1, TypeOfJob, KindOfJob DEF Asking
    <2> QED
      BY <2>1 DEF Heeding, Heeds
  <1>3. Heeds(j)
    BY <1>1, <1>2 DEF Heeds
  <1>4. job' = [job EXCEPT ![w] = j]
    BY DEF Become
  <1> HIDE DEF j
  <1> QED
    BY <1>3, <1>4, ReplaceHeeding DEF IInv

LEMMA FinishHeeds ==
  ASSUME IInv, Heeding, NEW w \in Workers, Finish(w)
  PROVE  Heeding'
  <1>1. Heeds(Idle)
    BY DEF Heeds, Idle
  <1> QED
    BY <1>1, ReplaceHeeding DEF Finish, IInv

LEMMA SendHeeds ==
  ASSUME IInv, Heeding, NEW w \in Workers, NEW reply, Send(w, reply)
  PROVE  Heeding'
  <1> DEFINE j == [stage |-> "send", from |-> job[w].from, reply |-> reply]
  <1>1. Heeds(j)
    BY DEF Heeds
  <1>2. job' = [job EXCEPT ![w] = j]
    BY DEF Send
  <1> HIDE DEF j
  <1> QED
    BY <1>1, <1>2, ReplaceHeeding DEF IInv

\* Orders are placed from snapshots that were not paused.
LEMMA ConcludeHeeds ==
  ASSUME IInv, Heeding, NEW w \in Workers, job[w].stage \in {"place", "link"},
         NEW doc, NEW text, Conclude(w, doc, text)
  PROVE  Heeding'
  <1> DEFINE j == [stage |-> "persist", from |-> job[w].from, saw |-> job[w].snap.state,
                   next |-> doc, reply |-> [type |-> "text", says |-> text]]
  <1>1. job[w].snap.state # "PAUSED"
    BY TypeOfJob, KindOfJob DEF SoundJob
  <1>2. Heeds(j)
    BY <1>1 DEF Heeds
  <1>3. job' = [job EXCEPT ![w] = j]
    BY DEF Conclude
  <1> HIDE DEF j
  <1> QED
    BY <1>2, <1>3, ReplaceHeeding DEF IInv

\* A worker at a stage that has one is not idle.
LEMMA WorkingIsJob ==
  ASSUME IInv, NEW w \in Workers, job[w].stage # "idle"
  PROVE  job[w] \in Job
  BY TypeOfJob DEF Idle

LEMMA StepHeeds ==
  ASSUME IInv, Heeding, ConversationAssumption, [Next]_vars
  PROVE  Heeding'
  <1>1. ASSUME NEW w \in Workers, Receive(w) PROVE Heeding'
    <2>1. PICK c \in Customers, m \in Inputs : job' = [job EXCEPT ![w] =
            [stage |-> IF c \in users THEN "store" ELSE "newCustomer", from |-> c, msg |-> m]]
      BY <1>1 DEF Receive
    <2>2. Heeds([stage |-> IF c \in users THEN "store" ELSE "newCustomer",
                 from |-> c, msg |-> m])
      BY DEF Heeds
    <2> QED
      BY <2>1, <2>2, ReplaceHeeding DEF IInv
  <1>2. ASSUME NEW w \in Workers, CreateCustomer(w) PROVE Heeding'
    BY <1>2, WorkingIsJob, FinishHeeds, BecomeHeeds DEF CreateCustomer, At
  <1>3. ASSUME NEW w \in Workers, RejectIncoming(w) \/ Archive(w) \/ BrowseAfterMenu(w)
                                  \/ Interrupt(w)
        PROVE  Heeding'
    BY <1>3, FinishHeeds DEF RejectIncoming, Archive, BrowseAfterMenu, Interrupt
  <1>4. ASSUME NEW w \in Workers, FindState(w) PROVE Heeding'
    <2>1. CASE job[w].from \in known
      <3>1. PICK j \in Routes(job[w].from, conv[job[w].from], job[w].msg) :
              job' = [job EXCEPT ![w] = j]
        BY <1>4, <2>1 DEF FindState
      <3> QED
        BY <3>1, RoutesHeed, ReplaceHeeding DEF IInv
    <2>2. CASE job[w].from \notin known
      BY <1>4, <2>2, WorkingIsJob, BecomeHeeds DEF FindState, At
    <2> QED
      BY <2>1, <2>2
  <1>5. ASSUME NEW w \in Workers, CreateState(w) PROVE Heeding'
    <2>1. CASE job[w].from \in known
      BY <1>5, <2>1, FinishHeeds DEF CreateState
    <2>2. CASE job[w].from \notin known
      <3>1. PICK j \in Routes(job[w].from, NewDoc, job[w].msg) : job' = [job EXCEPT ![w] = j]
        BY <1>5, <2>2 DEF CreateState
      <3> QED
        BY <3>1, RoutesHeed, ReplaceHeeding DEF IInv
    <2> QED
      BY <2>1, <2>2
  <1>6. ASSUME NEW w \in Workers, PlaceOk(w) PROVE Heeding'
    BY <1>6, WorkingIsJob, BecomeHeeds, ConcludeHeeds DEF PlaceOk, At
  <1>7. ASSUME NEW w \in Workers, PlaceError(w) \/ LinkError(w) \/ LinkOk(w) PROVE Heeding'
    BY <1>7, ConcludeHeeds DEF PlaceError, LinkError, LinkOk, Fail, At
  <1>8. ASSUME NEW w \in Workers, Persist(w) \/ AIReply(w) PROVE Heeding'
    BY <1>8, SendHeeds DEF Persist, AIReply
  <1>9. ASSUME NEW w \in Workers, Deliver(w) \/ AIMenu(w) \/ SendMenu(w) PROVE Heeding'
    BY <1>9, WorkingIsJob, BecomeHeeds DEF Deliver, AIMenu, SendMenu, At
  <1>10. CASE UNCHANGED vars
    BY <1>10 DEF vars, Heeding, Heeds
  <1> QED
    BY <1>1, <1>2, <1>3, <1>4, <1>5, <1>6, <1>7, <1>8, <1>9, <1>10 DEF Next, Step

\* Only the two writes of the document can end a pause, and both are by a worker
\* that heeds it.
LEMMA PauseHolds ==
  ASSUME IInv, Heeding, [Next]_vars, NEW c \in known,
         conv[c].state = "PAUSED", conv'[c].state # "PAUSED"
  PROVE  \E w \in Busy : /\ job[w].from = c
                        /\ \/ At(w, "persist") /\ job[w].saw # "PAUSED"
                           \/ At(w, "browse") /\ job[w].msg.word = "RESUME"
  <1>1. c \in Customers /\ conv \in [Customers -> Doc]
    BY DEF IInv, TypeOK
  <1>2. conv' # conv
    OBVIOUS
  <1>3. PICK w \in Workers : Persist(w) \/ BrowseAfterMenu(w)
    BY <1>2 DEF Next, Step, vars, Receive, Interrupt, CreateCustomer, RejectIncoming, FindState,
       CreateState, PlaceOk, PlaceError, LinkOk, LinkError, Deliver, Archive, AIReply, AIMenu,
       SendMenu
  <1>4. At(w, "persist") \/ At(w, "browse")
    BY <1>3 DEF Persist, BrowseAfterMenu
  <1>5. w \in Busy
    BY <1>4 DEF Busy, At, Idle
  <1>6. job[w].from = c
    BY <1>1, <1>3 DEF Persist, BrowseAfterMenu
  <1>7. \/ At(w, "persist") /\ job[w].saw # "PAUSED"
        \/ At(w, "browse") /\ job[w].msg.word = "RESUME"
    BY <1>4 DEF Heeding, Heeds, At
  <1> QED
    BY <1>5, <1>6, <1>7

\* A handover to a human is ended only by a handler that had read the document
\* before it, or by the AI after a RESUME.
THEOREM HandoversHold == Spec => HandoverHolds
  <1>1. Init => Heeding
    BY DEF Init, Heeding, Heeds, Idle
  <1>2. IInv /\ Heeding /\ [Next]_vars => Heeding'
    BY StepHeeds, ConversationAssumption
  <1>3. IInv /\ Heeding /\ [Next]_vars =>
          [\A c \in known :
             conv[c].state = "PAUSED" /\ conv'[c].state # "PAUSED" =>
               \E w \in Busy :
                 /\ job[w].from = c
                 /\ \/ At(w, "persist") /\ job[w].saw # "PAUSED"
                    \/ At(w, "browse") /\ job[w].msg.word = "RESUME"]_vars
    BY PauseHolds
  <1> QED
    BY Invariance, <1>1, <1>2, <1>3, PTL DEF Spec, HandoverHolds
=============================================================================
