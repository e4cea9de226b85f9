# Verification of the WhatsApp commerce platform

TLA+ specifications of the platform's back end (NestJS services over PostgreSQL, MongoDB,
Redis, RabbitMQ and a Baileys WhatsApp socket) and of the inbox page of its dashboard, TLC
configurations that check them on small instances, and TLAPS proofs that hold for every
instance. All definitions are translated from the TypeScript sources and the Prisma and
Mongoose schemas; `PROJECT.json` maps each definition to the lines it stands for.

## 1. The system

A customer writes on WhatsApp. `BaileysClient` turns the event into a message and calls
`WhatsappService.handleIncomingMessage`, which looks the customer up in PostgreSQL, stores
the message and reads the conversation document in MongoDB, asks `FlowHandlerService` for a
reply and a next state, stores both and sends the reply. The flow handler places orders
(`OrdersService` -> `InventoryService`) and creates payment links (`PaymentsService` ->
Razorpay). Razorpay later posts webhooks to `PaymentsService`. Admins import contacts and run
campaigns, whose messages go through a RabbitMQ consumer back to the WhatsApp socket. Users
log in with passwords or one-time codes kept in Redis and hold refresh tokens kept in
PostgreSQL. Operators watch and answer conversations on the inbox page, which the WebSocket
gateway tells of every message.

Everything is asynchronous code on one thread: a handler runs without interruption between
two `await`s and can be overtaken by any other handler, or by the death of the process, at
each of them. There is no transaction longer than one call and no lock anywhere. That is the
source of nearly all hazards, and it fixes the grain of the models: **one action per await**
whose result or effect another handler can observe.

| component | state | operations | what makes it correct |
|---|---|---|---|
| Inventory | `inventory.stock` | validateStock, deductStock (read, then write an absolute value) | no unit given up twice, no negative stock |
| Orders | `orders`, `order_items` | placeOrder: validate all, create, deduct all | one atomic purchase for a single caller; the answer agrees with the table |
| Conversation | one document per customer: state, context (cart, address) | handleIncomingMessage, sendMessage | state and context fit, orders have items and, for cash, an answered address question, the handover to a human holds |
| Flow handler | none (works on a snapshot) | the decision tree | a sound document yields a sound document |
| Payments | `orders.status`, `payments`; links and events at Razorpay | createPaymentLink, handleWebhook | answered events are settled, PAID means paid, paid links settle |
| Users | `users`, `user_settings` | getOrCreateCustomer, createUser, settings | one row per phone and tenant |
| One-time codes | Redis keys for code, attempts, block, pending sign-up | request, verify, resend, sign up, forgotten password | bounded guesses, a block that holds, a code used once, no key for ever |
| Sessions | refresh tokens, token version | login, refresh, logout, logoutAllDevices | a session never has two tokens; what is left after logout-all |
| Campaigns | `campaigns.status`, Bull job, messages in RabbitMQ, campaign logs | create, start, scheduled start, bulk route, consumer | nobody is messaged twice but after a delivery that came back; logs say what happened; what is queued is handled |
| Contacts | `contacts` | import a file, list | a campaign takes what is there when it starts |
| Baileys client | socket, reconnect timers, session files | connect, event handlers, send with timeout, disconnect | one socket, connect or timer; the pairing is kept; it never gives up |
| Gateway | `latestStatus` | emit status and messages | dashboards are told what is so |
| Inbox page | selection, window, list, requests under way | select, history, events, optimistic send | the window shows the chat it names; what is missing could come neither with the history nor by announcement |
| Tenants, Catalog, Storage, Mail, AI | rows or nothing | CRUD, formatting, external calls | see section 7 |

## 2. Modules

| module | models | state and actions |
|---|---|---|
| `Shop` | what placeOrder promises | `shelf`, `sales`; one atomic `Sell` |
| `Orders` | `placeOrder` with `validateStock` and `deductStock` | `stock`, `orders` are tables; `pc`, `items`, `line`, `seen` are a call's local variables; `taken` and `added` are history |
| `Conversation` | `handleIncomingMessage`, the flow handler, `sendMessage`, the AI fallback | `users`, `known`/`conv` are tables, `job` is what each handler holds between two awaits, `orders` is what it left behind |
| `Payments` | `createPaymentLink`, `handleWebhook`, Razorpay and the customer | `order`, `payments` are tables; `links`, `paid`, `acked` are Razorpay's side; `clerk`, `handler` are calls and requests in progress |
| `Sessions` | `generateTokenPair`, `refresh`, `logout`, `logoutAllDevices`, the version check of `JwtStrategy` | `rows`, `version` are tables; `job` is what each call holds; `issued` is what clients have; `revoked`, `escaped` are history |
| `Otp` | the code routes of `AuthService`, the user and settings rows they make | `otp`, `attempts`, `blocked`, `signup` are the Redis keys, `volatile` those with a deadline; `account` the two rows; `job` each call; `guesses`, `spent`, `elders`, `slips` are history |
| `Campaign` | `CampaignService`, its scheduler, the RabbitMQ consumer, `sendBulkMessages`, the contact import | `status`, `logs`, `contacts` are tables; `job` is Bull's, `place` says where each message and its current handler are, `left` counts the handlers of earlier deliveries; `start`, `bulk` are calls; `returned`, `received`, `marked`, `unlogged` are history |
| `Connection` | `BaileysClient` without message parsing, `latestStatus` of the gateway | `sock`, `isConnected`, `connecting`, `reconnectAttempts`, `qrCode`, `timers` are the client's; `session` the files; `send` each send; `lastClose`, `failures` are history |
| `Inbox` | the inbox page, the two routes it reads, the send route, the gateway | `createdAt` is the messages collection, `emitted` and `events` are the gateway's; `selected`, `listed`, `loading`, `shown`, `drafts` are state of the page, `rendered` is what its handlers see; `requests`, `loads`, `send` are calls under way; `answered`, `asof`, `before`, `dropped` are history |
| `OrdersProofs`, `ConversationProofs`, `PaymentsProofs`, `SessionsProofs`, `OtpProofs`, `CampaignProofs`, `ConnectionProofs`, `InboxProofs` | theorems | |
| `MCOrders`, `MCConversation`, `MCPayments`, `MCSessions`, `MCOtp`, `MCCampaign`, `MCConnection`, `MCInbox` | small instances | |

The components meet at tables, and each module carries as much of its neighbour as it needs:
`Conversation` contains an order's placing as one step with the outcomes `Orders` shows it
to have, `Payments` takes an order as given, `Campaign` takes a send as one call with the
outcomes of `Connection` (delivered, failed, or failed although delivered), and `Inbox` takes
messages as `Conversation` and `sendMessage` store and announce them.

What the plan has left: a `Checkout` that composes Conversation, Orders and Payments with a
bag of equal orders, for the path on which a customer is asked to try again.

## 3. How the code becomes actions

**Orders.** A call walks its item list three times. `Validate`/`Refuse` are one iteration of
the validation loop, `Create` is the nested `order.create` (one statement, hence atomic),
`ReadStock`/`WriteStock` are the two awaits of `deductStock`. `seen` is the row a call read
and has not used yet. A product without an inventory row counts as stock 0 when validated
and is skipped when deducted, as in the code. Quantities are integers of any sign:
`POST /orders` hands its body on unchecked (`orders.controller.ts:18`), a zero or negative
quantity passes every validation, and a negative one raises the row it is deducted from.
Only the chat's own carts are positive. A quantity that is no integer is refused or fails
at the create, like any rejected call. `Interrupt` ends a call anywhere: a database
error and a crash look the same, since nothing is undone or resumed.

**Conversation.** `job[w]` is the record of what a handler needs later: first the message,
then the snapshot or the answer, then the reply. `Routes` is the whole decision between
reading the document and the next await: pause check, tree, AI fallback. Context is
abstracted to the set of products in the cart and whether the address is missing, empty or
has text in it; numbers, prices and other texts decide nothing. `handle` trims what is typed,
so a message of blanks (`BLANK`), which the collection stores, becomes the empty address
(`Trimmed`). `States` are those the tree stores, three of which the schema does not list
(see "Seen while modelling"). Words stand for the inputs the tree distinguishes; product
ids are in `UpperIds` or not, because the tree upper-cases them. `PlaceError` covers a throw
before and after the order was created.

**Payments.** Razorpay is modelled from its use: `CreateLink` makes a link and the customer
has it (`notify: { sms, email }`), `Pay` pays it, and the event of a paid link may be posted
at any time, repeatedly and to several handlers at once. An unsigned request may contain
anything; `Accepts` is the signature and event check. `UpdateOrder` and `UpdatePayment` are
the two updates of the webhook, the second of which throws without a row.

**Sessions.** A token is the pair of what makes two strings differ: the user's version and
the second of signing. `refresh` is `FindToken`, `FindUser`, `DeleteOld`, `CreateToken`, one
action for each of its awaits; the version of the new pair is the one read by `FindUser`.
`DeleteOld` and `CreateToken` fail as Prisma does, on a row that is gone and on a string that
is stored already. `Login` is any accepted login; it shares `CreateToken`. Both logouts start
with `Admit`, the guard of their routes, whose answer may be outdated when they act. A
session is what one login starts: the code has no such id, the model keeps it to say what
rotation means.

**Otp.** Every route is a disjunction of its awaits, and all of them work on the same four
keys of one identity. A code is a number, so that being overwritten, deleted or used can be
told apart; that two random codes coincide is left out. There is no clock. `TimePasses` lets
any deadline pass, restricted by what the two lengths imply: a key of 15 minutes that got its
deadline in the life of a code outlives the code (`young`, and the block), and no call lasts
as long as a block (`elders`, the calls older than it). A stored code may be past its
`expiresAt` while Redis still has it (`late`). `Interrupt` ends a call between two Redis
commands and counts a slip.

**Campaign.** A message is known by the start that emitted it and by its contact, and moves
through places: in the process (`memory`) until the broker has it, `queue`, the stages of
`handleCampaignSend`, `gone` when acknowledged, `lost` when it never reached the broker.
`Emit` is one step, since the loop over the contacts has no await. Two things bring an
unacknowledged message back to the queue. `Die` ends what the process was doing, loses what
it had not published, and has Bull run a stalled job once more. `LoseConnection` ends
nothing: the handlers under way go on beside those of the next delivery (`left` counts them
at each stage, as nothing else tells them apart), and what they acknowledge on the closed
channel throws, is swallowed (`whatsapp-rmq.controller.ts:59`) and changes nothing. A contact row that cannot be parsed
ends an import where it is. The prefetch count is left unlimited, as in the code.

**Connection.** `connect` is split at its awaits: the version, the bundled version if that
fails, the auth state. The handler of `connection.update` is one action per branch: `Qr`,
`Open`, and the four ends of a close (515 after pairing, lost with attempts left, lost
without, logged out). A timer is a pending call of `connect`; timers are counted, so that two
of them would be seen. An exception out of `connect` is caught by nobody and ends the
process, which its container restarts. `Timeout` tells the caller of a send that it failed
while the socket goes on, so `Answer` may still deliver it.

**Inbox.** On the server a customer's message is announced and then stored, one of the bot
or the operator stored and then announced, in two steps with a possible end between them
(`Incoming`, `Persist`; `Outgoing`, `SendMessage`, `EmitOutgoing`). Button and list replies
fail the enum of the collection: they are neither stored nor announced, so the page can learn
of them in no way and they are no messages here. `createdAt` is the place of a message in the
collection: Mongoose sets the date just before the insert, which is one step here.
`AnswerHistory` gives the newest `HistoryLimit` messages (20 in the code, and the page asks
for no other number). On the page each answer and each event is a callback. `selected` is the
state, `rendered` the selection of the render whose closures the handlers are: a click
renders at once, a selection made by an answer somewhat later (`Render`). `SetHistory`
replaces the window whatever is selected by then, as in the code; `HandleNewMessage` asks the
rendered selection. Several requests for the conversations may be under way (`loads`), as the
refresh button waits for none; only the first answer ends the spinner that hides the list.
Messages on a socket that closes are lost, and the page does not ask again when it is back.

## 4. Runs

| run | question | bounds | states |
|---|---|---|---|
| `orders` | what holds with overlapping calls and failures | 3 calls, 2 in progress, stock 2 and 1, a product without a row, carts that are empty, repeat a product, cannot be filled, or have a line of zero and one of negative quantity | 294,990 |
| `orders_serial` | does a single caller get an atomic shop | 3 calls one after the other, no failure, carts as the chat builds them | 2,132 |
| `orders_oversell` | is stock validated as the comment says (refuted) | 2 calls | - |
| `conversation` | what holds with overlapping handlers | 1 customer, 2 handlers, 15 inputs, a message of blanks among them, a product with an upper-case id and one without, failures anywhere | 684,454 |
| `payments` | what the tables say, and whether paid links settle | 1 order, 2 links, 2 calls, 2 requests, failures anywhere | 17,203 |
| `payments_recorded` | is every PAID order's payment recorded (refuted) | 1 order, 2 links, 1 call, 1 request | - |
| `sessions` | how many rows a session has, and what outlives logout-all | 2 logins, 3 calls, 2 versions, 2 seconds, failures anywhere | 54,684 |
| `sessions_logout_all` | does logout-all invalidate every token (refuted) | 1 login, 3 calls, no failure | - |
| `otp` | what the keys allow and for how long | 2 calls at once, 2 codes, 2 attempts, 1 call that breaks off, the default login method | 1,681,184 |
| `campaign` | who is messaged, how often, and what the logs say of it | 1 contact, 2 starts (routes or jobs) beside the bulk route, 2 failed calls, 1 death or lost connection | 1,006,893 |
| `connection` | is there always one way back to a connection | 2 attempts, 6 closes, 2 exceptions or deaths, a text send and a button send | 91,275 |
| `inbox` | what the window shows and misses | 2 chats, 2 messages, a history of 1, 2 sends, 2 history requests at once, 2 requests for the conversations | 1,449,663 |

The bounds are the smallest in which the hazards happen. Two calls in progress are enough for
a lost update and a double sale, a third call runs after both and meets what they left; the
second row of stock and two-line carts let a call be between two rows. Two handlers make
snapshots stale; customers share no state, so one is enough. Two links for one order are what
the unique index on `payments.order_id` is about, and two requests let one event be handled
twice at once. Two logins make strings collide, and three calls let two refreshes of one
token run beside a logout. Two attempts are the least that let a counter be started, time out
and be filled while a second call is between its commands; a second code lets a call be
overtaken by it. The other login methods only end calls before they touch a key. Contacts of
a campaign share nothing but the process, so one is enough for double sending; two starts
race; one death makes Bull run the job again, and one lost connection puts an old handler
beside the one of the next delivery; two failed calls let a message be sent and neither of
its logs be written. A second death would only end Bull's second run and bring a message back
once more; the theorems about receipts, logs and late starts hold for any number. Six
closes use up two attempts in a row and begin again. Two chats are what a late answer
confuses; two messages of one chat exceed a history of one. The proofs lift the safety results to any number.

Symmetry is used only in runs without liveness properties, over calls, chats, sends and
requests, which nothing distinguishes.

Deadlock is checked for `Conversation` and `Payments`, which never stop. The other systems
rest: `Orders` when its finitely many calls are done, `Sessions`, `Otp`, `Campaign`,
`Connection` and `Inbox` at their bounds on calls, codes, failures, closes and messages.

## 5. What holds

Orders and stock:

* `StockNeverOverdeducted`: stale writes lose deductions but never take a unit twice, and a
  line of negative quantity takes none.
* `OnlyFillableLines`: a lost deduction raises a row back up, never above a ceiling, the
  opening stock plus what lines of negative quantity have put on top of it. So no order holds
  a line above the ceiling.
* `TakenWasOrdered`, `AnswerMatchesRecord`: wherever a call broke off, stock was only taken
  for recorded units, and a refusal recorded nothing.
* `ImplementsShop`, `StockReflectsOrders`: alone, a caller gets the atomic purchase. The
  refinement maps the shelf to the stock minus what recorded orders still have to deduct, so
  the purchase takes effect at the create.
* `EveryRequestAnswered`: a call that started is answered or cut short.

Conversations and payments:

* `CheckoutHasCart`, `NoEmptyOrder`, `CodAddressAnswered`: no overlap of handlers, stale
  snapshot, error path or MENU in the wrong place leads to an empty order, or to a cash order
  of a customer who was not asked for the address or did not answer, although
  `finalizeOrderOffline` checks neither. The answer may be empty: blanks are one.
* `ConfirmationBacked`: an announced order exists.
* `HandoverHolds`: a pause is undone only by a handler that read the document before it, or
  through the AI's menu intent after RESUME.
* `AckedIsSettled`, `SuccessIsPaid`, `PaidOrdersWerePaid`, `ThanksAreDue`, `PaidLinksSettle`:
  an answered event has been recorded, the tables say PAID only of what was paid, and a paid
  link with a row is settled in the end.

Logins:

* `GuessesBounded`: with n calls at a time a code meets at most `(n + 1) * MaxAttempts - 2`
  wrong guesses, and one more per call that broke off before it counted. The budget is not
  simply MaxAttempts: a counter may time out, or be deleted by a call that is still busy with
  a block that was cleared, in the life of a code. The bound is reached: with two calls, two
  attempts and three codes a code can meet four wrong guesses.
* `KeysHaveDeadlines`: no key counts or blocks for ever, but a counter cut off between `incr`
  and `expire`.
* `BlockStands`: while a block stands, nobody makes, deletes, guesses at or accepts a code,
  counts a failure or lifts the block, but a call in progress when it was set, a deadline, or
  `passwordLogin`, which does not ask: it deletes the block and makes a code
  (`auth.service.ts:229`).
* `SpentIsGone`: a code whose acceptance has cleared the keys never comes back. Two calls
  that read it before may both accept it; no statement of the code is against that.
* `OneTokenPerSession`: calls that present the same refresh token at once never turn one
  session into two: only the call that really removed the row creates the next one.
* `SurvivorsWereUnderWay`: a session survives logout-all only through a call that was about
  to create its row at that moment. This is about sessions, not token strings: a token is
  fixed by version and second, so such a call, or a login that read the version before it was
  incremented, may sign the very string of a deleted row again, and a device that was logged
  out and kept that string is then accepted with it.

Campaigns and the connection:

* `LateStartsEmitNothing`: a campaign is queued twice only by starts that all read it before
  any of them set PROCESSING; nobody who comes later, a job that is run again included, adds
  a message.
* `OnceAndOncePerReturn`: a message reaches its contact once, and once more for each time that
  this message came back unacknowledged, by a death or by a lost connection with the old
  handler still at work; the bulk route sends to a contact once.
* `LogsAreTrue`: SENT is logged only of what was received, an acknowledged message has a log
  unless both attempts to write one failed, and the bulk route completes only what it logged.
* `QueuedIsHandled`: no message stays in the queue or unacknowledged for ever.
* `OneChain`: while the process lives there is exactly one of a live socket, a connect under
  way and a timer; neither two sockets that would answer every message twice nor none at all.
* `StatusIsTrue`: dashboards are told connected exactly when a paired socket is open, with no
  QR code left over.
* `SessionKept`: the session files of a paired phone are deleted only when it logged out or
  when more than MaxReconnectAttempts connections were lost in a row.
* `KeepsTrying`: whatever closed the socket or ended the process, a new socket is made.

The inbox:

* `WindowIsTrue`: once the history of the selected chat was the last one to be set, the window
  holds messages of that chat only, and an optimistic message stays only while its send or
  its refresh is open or failed.
* `NothingElseIsMissed`: a message of that chat is missing only if both ways to the window
  failed. The history: the message was not stored when it was read, or a full history of newer
  ones was. And the announcement: it has not come, found the socket closed, or came before
  that history replaced the window. What is left out of each way is computed from the
  collection and the gateway, not from what the answer lacks, so a history with the wrong
  messages is caught.

Both say nothing of the time in which the history set last is another chat's, or a click was
overridden: see the last points below.

### What the code refutes

* **Overselling** (`NoOversell`): validation reserves nothing.
* **Payments never recorded** (`PaidIsRecorded`): a link whose row was not saved can be
  paid; the order turns PAID and each retry of the event fails on the missing row.
* **Sessions that survive logout-all** (`AllDevicesLoggedOut`): a refresh that has deleted
  its old row stores its next one after `deleteMany`, and `refresh` never compares versions.

### Seen while modelling

No run is about the following; they need no interleaving, or contradict no statement of the
code. The models contain the behaviour unless it says otherwise.

* `CONVERSATION_STATES` (`common/constants/index.ts:30`) and the enum of the schema
  (`conversation-state.schema.ts:22`) know neither PAUSED nor ADDRESS_COLLECTION nor
  CONFIRMING_OFFLINE. The tree stores all three: `updateOne` runs no validators by default,
  and a document is created as NEW. With validators switched on, the handover and the cash
  order would fail. The model keeps both lists (`ListedStates`, `UnlistedStates`).
* A message of blanks is a valid address: it is trimmed to the empty string, and the cash
  order is confirmed with it (`flow-handler.service.ts:27`, `:251`).
* `POST /orders` takes quantities of any sign. A negative one raises the stock, and orders can
  then be filled that the opening stock could not fill (`inventory.service.ts:30`).
* `passwordLogin` lifts a block (`auth.service.ts:229`).
* Two calls that compare before either clears both accept one code.
* A token deleted by logout-all can be signed again, to the letter, in the same second.
* An acknowledgement on a closed channel fails and is swallowed; the message comes again, and
  the contact may get it twice without any process having died.
* Button and list replies are sent and then fail the enum of `messageType`, so they are never
  stored nor announced (`whatsapp.service.ts`, `sendMessage`): `Archive` just finishes, and
  `Inbox` has no such messages.
* A reply that was stored but not announced (the answer of the database got lost, or the
  process died) shows only with the next history.
* The tree upper-cases its input, so product ids with a lower-case letter are never found
  (`flow-handler.service.ts:27`, `:109`).
* `resendOtp` deletes the code of a pending sign-up before it finds that there is no such
  user (`auth.service.ts:542`).
* Nobody marks a campaign that went through the queue COMPLETED
  (`campaign.service.ts:110`), and one that died between PROCESSING and the emit cannot be
  started again.
* The consumer waits a second after each message, but many are delivered at once, so the
  throttle does not throttle.
* Answers of the inbox act on whatever is selected when they arrive: a late refresh shows
  another chat's history until the next one (`page.tsx:57`), and the conversation list may
  override a click (`page.tsx:43`).
* Events of the gateway carry `timestamp` where the page reads `createdAt`, so its duplicate
  check compares NaN (`page.tsx:79`). Left out: the window is a set.

### Fairness

`Orders`: weak fairness of each call's steps; every awaited database call is answered or
rejected, and `Interrupt` is always a possible alternative. `Payments`: requests in progress
are worked on (weak fairness); Razorpay posts an event again until it is answered, and an
event that is posted again and again is not interrupted at the same update every time (strong
fairness of `Redeliver`, `UpdateOrder` and `UpdatePayment` for each link). `Campaign`: weak
fairness of `Handle(m)` for each message: the broker delivers what it has, handlers run
concurrently, and each of their calls is answered or rejected; the client connects and
subscribes again after a lost connection, as the RabbitMQ transport of NestJS does; failures,
deaths and lost connections are finitely many. Publishing is not fair, and neither are starts. `Connection`: weak fairness of
`Connecting`: a timer fires, the awaits of `connect` return or throw, and the container
(`restart: unless-stopped`) starts a dead process again; the server may close every socket it
is offered, and no phone has to scan anything. Nothing forces anybody to order, pay or send,
and nothing forces a crash. `Conversation`, `Sessions`, `Otp` and `Inbox` make no liveness
claim and have no fairness.

## 6. What is proved

Proved by TLAPS for every value of the constants (any number of products, customers, links,
codes, messages, chats, deaths, lost connections and overlapping calls, lines of any
quantity, any length of a history), from the assumptions `OrdersAssumption`,
`ConversationAssumption`, `PaymentsAssumption`, `SessionsAssumption`, `OtpAssumption`,
`CampaignAssumption`, `ConnectionAssumption` and `InboxAssumption`, which TLC also evaluates in
the runs. Each proof module has an inductive invariant `IInv` and a theorem `Invariance`
(`InboxProofs` proves the types it needs inside of it); the others follow from it.

* `OrdersProofs`. Quantities are any integers. The invariant adds to the types that a row never
  exceeds its ceiling (the opening stock and what negative lines have put back), that a value
  a call has read is not above it either and together with what was taken accounts for the
  opening stock, and that each line a call has passed was below the ceiling. The value read
  has to be in it: without it a stale write could do anything. Theorems: `TypeCorrect`,
  `NeverOverdeducted`, `LinesFillable`, `AnswersAreTrue`.
  Two more invariants build on it. `LedgerInv` is the exact account: what was taken from a row
  is the sum, over all calls, of the lines each has deducted, and each call past its create has
  its record. It holds however calls overlap (`LedgerInvariance`), and no unit is taken that no
  order asks for (`NothingTakenUnordered`). `SerialInv` adds what is true under `SerialCalls`,
  which is what the run `orders_serial` sets up: one call in progress at a time, none cut
  short, and carts as the flow handler builds them: no product twice, quantities positive.
  Then a value read is still in the row when it is written, so no deduction is lost. Theorems:
  `SerialInvariance`, `SerialStockReflectsOrders`, `SerialCallsImplementShop` (each step of
  `Orders` is a step of `Shop` or changes nothing it sees: the create is the `Sell`, and a
  deduction moves a unit from what is owed to what is gone), and `SerialCallsDoNotOversell`:
  the statement that `orders_oversell` refutes for overlapping calls is true of serial ones.
  All four need `SerialCalls`; without it the runs refute what they say.
  The sums are those of the module `Functions`, over any finite set. What they are when an
  element is added, removed or changed cannot come from the library's induction theorems; it
  is proved by a smallest counterexample: a set of finite sets that is not empty has one with
  no proper subset in it, since strict inclusion of finite sets is well-founded.
* `ConversationProofs`. A document is *sound* if a checkout state comes with a cart and
  `CONFIRMING_OFFLINE` with an answered address question. The invariant says that every document in the
  system is sound: stored, held as a snapshot, or about to be stored. State and context are
  written together (except BROWSING, which is sound with any cart), so what is stored is
  always something a handler computed from one sound snapshot, however old. Theorems:
  `TypeCorrect`, `CartInCheckout`, `OrdersHaveItems`, `CashOrdersWereAnswered`,
  `AnnouncementsAreTrue`. For the action property a second invariant says of each handler
  what it decided from: one that read a paused document holds nothing that leaves the pause
  but the answer to RESUME, so whoever ends a pause had read the document before it.
  Theorem: `HandoversHold`.
* `PaymentsProofs`. Whatever the webhook records lasts (`Lasting`), so the invariant may say
  of each request what it has established at its stage, and other requests cannot take it
  away. Theorems: `TypeCorrect`, `AnswersAreSettled`, `PaidMeansPaid`, `SuccessMeansPaid`,
  `ThanksMeanSettled`.
* `SessionsProofs`. A session is *carried* by a row or by a call that is to create the next
  one. The invariant says that each session is carried once, that only a login starts one,
  and that a revoked session is carried only by what was a call at that moment or stems from
  it. Without the calls in it, the statements about rows would not be inductive: a row comes
  from a call. Theorems: `TypeCorrect`, `RotationKeepsOne`, `OnlyCallsUnderWaySurvive`.
* `OtpProofs`. A stored code is newer than every code accepted, and whoever was told that a
  code is right holds one that was stored before; so what is stored later was never spent.
  When the block is set, all calls in progress become its elders, and a later call that asks
  does not get in; so whoever is past `assertNotBlocked` is an elder or a password login, and
  every other step leaves the keys alone. Theorems: `TypeCorrect`, `NothingCountsForEver`,
  `BlockStopsTheOthers`, `CodesAreSpentOnce`.
  The wrong guesses have a second invariant, `GuessInv`, a credit. While there is no block,
  the guesses a code has met are at most what its counter holds or may have lost when it timed
  out, plus a counter's worth for each call that is not yet deleting one, plus the guesses
  compared and not yet counted, plus the slips. `incr` moves a guess from those not counted to
  the counter, the deletion of a counter is paid by the call that deletes it, and the block
  turns the credit into a limit that only calls already past `assertNotBlocked` can use up.
  That needs the number of calls in progress to be finite (`OtpAssumption`), which it is in a
  running process. Theorems: `CreditInvariance`, `GuessesAreBounded`.
* `CampaignProofs`. Three parts that share little: once PROCESSING is set no status may be
  started from; what is still to be sent was received at most as often as it came back. Handlers
  that have still to send count as receipts to come: a receipt uses one up, and the only step
  that adds one, the redelivery of a message that came back, has `returned` count it. And the
  bulk call takes each contact off its list once and moves on only with a log. Theorems:
  `TypeCorrect`, `LateStartsAreHarmless`, `OneReceiptPerReturn`, `LogsCanBeTrusted`.
* `ConnectionProofs`. One baton goes round: from a socket that closes to a timer, from the
  timer to connect, from connect to the next socket; a dead process holds none, and the next
  begins with one. For the session, the attempts counted never outnumber the connections lost
  in a row, so giving up means that more than MaxReconnectAttempts were lost. Theorems:
  `TypeCorrect`, `ChainNeitherForksNorBreaks`, `DashboardsAreToldTheTruth`, `PairingIsKept`.
* `InboxProofs`. Once the history of the rendered chat was the last to be set, the screen is
  of that chat, because events are shown only for the rendered one. An answer under way is
  the newest part of what was stored when it was read, whatever is stored meanwhile, so a
  message that is not on the screen was not stored then or was crowded out by newer ones; and
  an announcement that was handled after the history was set has left its message on the
  screen. Both survive every step of server, socket and page, for any limit of a history.
  Theorems: `NoOtherChatsMessages`, `MissedForAReason`.

Every invariant and action property that a passing run checks is a theorem, and so is the
refinement of `Shop`. Only
model-checked are the liveness properties `EveryRequestAnswered`, `PaidLinksSettle`,
`QueuedIsHandled` and `KeepsTrying`, which are out of the prover's reach. The two refuted
statements `PaidIsRecorded` and `AllDevicesLoggedOut` have no theorem either.

## 7. What is not modelled

* **Tenants**: one look-up and create on the tenant's name; the rest edits single rows, and
  no state is shared across tenants.
* **Catalog**: reads and formatting; `Conversation` has its answer as a list or an empty one.
* **AI**: an external language model; its answer is a choice in `Conversation`.
* **Storage and mail**: thin wrappers of external services.
* **Message queue service**: a Bull queue that nothing in the repository calls or processes.
* **RabbitMQ microservice** (`rabbitmq-service`): a second consumer that the deployment does
  not start.
* **Configuration, filters, interceptors, logging**: without state.
* **Other pages of the frontend, scripts, seeds, container files**: pages that show what one
  request returned, and data.

Left out of the modelled parts: prices, totals, order numbers and quantities in the chat's
cart, texts and layout, the expiry of access and refresh tokens, how a code reaches its
reader, `updateOrderStatus`, `logout` of the Baileys client and the gateway's rooms of tenants
(none of which has a caller or a sender), and edits of single rows. An order whose products
are deleted meanwhile is not modelled: the schema restricts deletion of ordered products,
and nothing else deletes rows.
