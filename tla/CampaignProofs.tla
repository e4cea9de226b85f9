---------------------------- MODULE CampaignProofs ----------------------------
(***************************************************************************)
(* Theorems about Campaign, for any number of contacts, overlapping        *)
(* starts, failed calls, deaths of the process and lost connections.       *)
(*                                                                         *)
(* The argument has three parts that share little.  Starts: once somebody  *)
(* has set PROCESSING the status never becomes one that may be started, so *)
(* a start that reads it later ends there.  Messages: what the contact got *)
(* and what handlers have still to send it, the old ones and one for a     *)
(* message that is to be delivered, is together no more than one for each  *)
(* time the message came back, and one.  The bulk call:                    *)
(* it takes each contact off its list once, and moves on only with a log.  *)
(***************************************************************************)
EXTENDS Campaign, TLAPS

-----------------------------------------------------------------------------
(* The inductive invariant.                                                *)

\* Starts.  PROCESSING is set for good, late starts end at once, and only a
\* start that is over and was not late has emitted messages.
StartsInv ==
  /\ marked => status \in {"PROCESSING", "COMPLETED"}
  /\ \A s \in Starts : start[s].late => start[s].stage = "done"
  /\ \A m \in Message :
       place[m] # "none" => start[m[1]].stage = "done" /\ ~start[m[1]].late

Logged(m) == \E l \in logs : l.message = m

Unsent == {"none", "memory", "queue", "send"}

\* Messages.  What was sent and what is still to be sent is accounted for.
Accounted(m) ==
  /\ received[m] + left[m]["send"] <= 1 + returned[m]
  /\ place[m] \in Unsent => received[m] + left[m]["send"] <= returned[m]
  /\ place[m] = "sent" \/ left[m]["sent"] > 0 => received[m] > 0
  /\ place[m] \in {"ack", "gone"} => m \in unlogged \/ Logged(m)

MessagesInv ==
  /\ \A m \in Message : Accounted(m)
  /\ \A l \in logs : l.status = "SENT" => received[l.message] > 0

\* The bulk call.  Contacts still to come got nothing, those behind have a log,
\* and there is at most one in hand.
BulkInv ==
  /\ \A c \in Contacts :
       /\ received[<<Bulk, c>>] <= 1
       /\ bulk.stage \in {"none", "read", "listed"} \/ c \in bulk.todo => received[<<Bulk, c>>] = 0
  /\ \A c, d \in bulk.now : c = d
  /\ bulk.stage = "sent" => \A c \in bulk.now : received[<<Bulk, c>>] > 0
  /\ bulk.stage = "listed" => bulk.list \subseteq bulk.todo
  /\ bulk.stage \in {"send", "sent", "fail"} =>
       \A c \in bulk.list :
         c \in bulk.todo \/ (bulk.stage # "send" /\ c \in bulk.now) \/ Logged(<<Bulk, c>>)
  /\ status = "COMPLETED" =>
       bulk.stage = "done" /\ \A c \in bulk.list : Logged(<<Bulk, c>>)

IInv == TypeOK /\ StartsInv /\ MessagesInv /\ BulkInv

-----------------------------------------------------------------------------
(* What the parts do not depend on.                                        *)

\* The messages know nothing of the campaign and its starts.
LEMMA MessagesFrame ==
  ASSUME MessagesInv, UNCHANGED <<mail, received, logs, unlogged>>
  PROVE  MessagesInv'
  BY DEF MessagesInv, Accounted, Logged, mail

\* The bulk call depends on the status only when that becomes COMPLETED.
LEMMA BulkFrame ==
  ASSUME BulkInv, UNCHANGED <<bulk, received, logs>>,
         status' = status \/ status' # "COMPLETED"
  PROVE  BulkInv'
  BY DEF BulkInv, Logged

\* A message is no business of the bulk call.
LEMMA MessageIsNotBulk ==
  ASSUME NEW m \in Message, NEW c \in Contacts
  PROVE  m # <<Bulk, c>> /\ m \in Sender \X Contacts /\ m[1] \in Starts
  BY CampaignAssumption DEF Message, Sender

\* A log more makes nothing unlogged.
LEMMA LoggedStays ==
  ASSUME logs \subseteq logs', NEW m, Logged(m)
  PROVE  Logged(m)'
  BY DEF Logged

-----------------------------------------------------------------------------
(* The initial state, the campaign, its job and the contacts.              *)

LEMMA Initially == Init => IInv
  <1> SUFFICES ASSUME Init PROVE IInv
    OBVIOUS
  <1>1. start \in [Starts -> Start] /\ \A s \in Starts : start[s].late = FALSE
    BY DEF Init, Start
  <1>2. bulk \in BulkCall /\ bulk.now = {} /\ bulk.stage = "none"
    BY DEF Init, BulkCall
  <1>3. /\ place \in [Message -> Place] /\ \A m \in Message : place[m] = "none"
        /\ left \in [Message -> [Handling -> Nat]] /\ returned \in [Message -> Nat]
        /\ \A m \in Message : returned[m] = 0 /\ left[m]["send"] = 0 /\ left[m]["sent"] = 0
    BY DEF Init, Place, Handling
  <1>4. /\ received \in [Sender \X Contacts -> Nat]
        /\ \A m \in Sender \X Contacts : received[m] = 0
    BY DEF Init
  <1>5. /\ status = "none" /\ marked = FALSE /\ adding = FALSE /\ job = "none"
        /\ contacts = {} /\ file = {} /\ logs = {} /\ unlogged = {}
        /\ errors = 0 /\ breaks = 0
        /\ 0 \in 0 .. MaxErrors /\ 0 \in 0 .. MaxBreaks
    BY CampaignAssumption DEF Init
  <1>6. TypeOK
    BY <1>1, <1>2, <1>3, <1>4, <1>5, Zenon DEF TypeOK, Status
  <1>7. StartsInv
    BY <1>1, <1>3, <1>5 DEF StartsInv
  <1>8. MessagesInv
    BY <1>3, <1>4, <1>5, MessageIsNotBulk DEF MessagesInv, Accounted, Unsent, Message, Sender
  <1>9. BulkInv
    BY <1>2, <1>4, <1>5 DEF BulkInv, Sender
  <1> QED
    BY <1>6, <1>7, <1>8, <1>9 DEF IInv

LEMMA CampaignSteps ==
  ASSUME IInv, CreateCampaign \/ AddJob \/ Upload \/ StoreRow \/ RejectRow
  PROVE  IInv'
  <1>1. UNCHANGED <<marked, start, bulk, mail, logs, received, unlogged, breaks>>
    BY DEF CreateCampaign, AddJob, Upload, StoreRow, RejectRow, Fail, row, schedule, people, faults
  <1>2. \/ UNCHANGED status
        \/ status = "none" /\ status' \in {"DRAFT", "SCHEDULED"}
    BY DEF CreateCampaign, AddJob, Upload, StoreRow, RejectRow, row
  <1>3. TypeOK'
    <2>1. status' \in Status
      BY <1>2 DEF IInv, TypeOK, Status
    <2>2. adding' \in BOOLEAN /\ job' \in {"none", "waiting", "active", "again", "rerun", "over"}
      BY DEF CreateCampaign, AddJob, Upload, StoreRow, RejectRow, schedule, IInv, TypeOK
    <2>3. contacts' \subseteq Contacts /\ file' \subseteq Contacts
      BY DEF CreateCampaign, AddJob, Upload, StoreRow, RejectRow, people, IInv, TypeOK
    <2>4. errors' \in 0 .. MaxErrors
      BY CampaignAssumption
      DEF CreateCampaign, AddJob, Upload, StoreRow, RejectRow, Fail, faults, IInv, TypeOK
    <2> QED
      BY <1>1, <2>1, <2>2, <2>3, <2>4 DEF mail, IInv, TypeOK
  <1>4. StartsInv'
    BY <1>1, <1>2 DEF mail, IInv, StartsInv
  <1>5. MessagesInv' /\ BulkInv'
    BY <1>1, <1>2, MessagesFrame, BulkFrame DEF IInv
  <1> QED
    BY <1>3, <1>4, <1>5 DEF IInv

-----------------------------------------------------------------------------
(* startBulkCampaign.                                                      *)

\* A step of a start that emits nothing.
LEMMA StartMoves ==
  ASSUME IInv, NEW s \in Starts, NEW r \in Start,
         start' = [start EXCEPT ![s] = r],
         start[s].stage # "done", r.late => r.stage = "done",
         UNCHANGED <<mail, marked>>
  PROVE  start' \in [Starts -> Start] /\ (marked => status' \in {"PROCESSING", "COMPLETED"}) =>
           StartsInv'
  <1>1. start \in [Starts -> Start]
    BY DEF IInv, TypeOK
  <1>2. start'[s] = r /\ \A t \in Starts \ {s} : start'[t] = start[t]
    BY <1>1
  <1>3. \A t \in Starts : start'[t].late => start'[t].stage = "done"
    BY <1>2 DEF IInv, StartsInv
  <1>4. \A m \in Message : place[m] # "none" => m[1] \in Starts \ {s}
    BY DEF IInv, StartsInv, Message
  <1>5. \A m \in Message :
          place'[m] # "none" => start'[m[1]].stage = "done" /\ ~start'[m[1]].late
    BY <1>2, <1>4 DEF mail, IInv, StartsInv
  <1> QED
    BY <1>3, <1>5 DEF StartsInv

LEMMA ReadKeeps ==
  ASSUME IInv, NEW s \in Starts, SendCampaign(s) \/ Process(s)
  PROVE  IInv'
  <1>1. PICK byJob \in BOOLEAN : Read(s, byJob)
    BY DEF SendCampaign, Process
  <1>2. /\ UNCHANGED <<status, marked, adding, people, bulk, mail, logs, received, unlogged, faults>>
        /\ start[s].stage = "none"
    BY DEF SendCampaign, Process, row, schedule
  <1>3. PICK r : r = [stage |-> IF status \in Startable THEN "read" ELSE "done",
                      list |-> {}, job |-> byJob /\ status \in Startable, late |-> marked]
    OBVIOUS
  <1>4. r \in Start /\ (r.late => r.stage = "done")
    BY <1>3 DEF IInv, TypeOK, StartsInv, Start, Startable
  <1>5. start' = [start EXCEPT ![s] = r]
    BY <1>1, <1>3 DEF Read
  <1>6. start' \in [Starts -> Start]
    BY <1>4, <1>5 DEF IInv, TypeOK
  <1>7. job' \in {"none", "waiting", "active", "again", "rerun", "over"}
    BY DEF SendCampaign, Process, schedule, IInv, TypeOK
  <1>8. TypeOK'
    BY <1>2, <1>6, <1>7 DEF people, mail, faults, IInv, TypeOK
  <1>9. StartsInv'
    BY <1>2, <1>4, <1>5, <1>6, StartMoves DEF IInv, StartsInv
  <1> QED
    BY <1>2, <1>8, <1>9, MessagesFrame, BulkFrame DEF IInv, faults

LEMMA GetContactsKeeps ==
  ASSUME IInv, NEW s \in Starts, GetContacts(s)
  PROVE  IInv'
  <1>1. /\ UNCHANGED <<status, marked, adding, people, bulk, mail, logs, received, unlogged, faults>>
        /\ start[s].stage = "read" /\ start[s] \in Start /\ contacts \subseteq Contacts
    BY DEF GetContacts, row, IInv, TypeOK
  <1>2. PICK r : r = IF contacts = {} THEN Over(start[s])
                     ELSE [start[s] EXCEPT !.stage = "listed", !.list = contacts]
    OBVIOUS
  <1>3. start[s].late = FALSE
    BY <1>1 DEF IInv, StartsInv, Start
  <1>4. r \in Start /\ r.late = FALSE
    BY <1>1, <1>2, <1>3 DEF Start, Over
  <1>5. start' = [start EXCEPT ![s] = r]
    BY <1>2 DEF GetContacts, Finish, IInv, TypeOK
  <1>6. start' \in [Starts -> Start]
    BY <1>4, <1>5 DEF IInv, TypeOK
  <1>7. job' \in {"none", "waiting", "active", "again", "rerun", "over"}
    BY DEF GetContacts, EndJob, IInv, TypeOK
  <1>8. TypeOK'
    BY <1>1, <1>6, <1>7 DEF people, mail, faults, IInv, TypeOK
  <1>9. StartsInv'
    BY <1>1, <1>4, <1>5, <1>6, StartMoves DEF IInv, StartsInv
  <1> QED
    BY <1>1, <1>8, <1>9, MessagesFrame, BulkFrame DEF IInv, faults

LEMMA MarkProcessingKeeps ==
  ASSUME IInv, NEW s \in Starts, MarkProcessing(s)
  PROVE  IInv'
  <1>1. /\ UNCHANGED <<adding, job, people, bulk, mail, logs, received, unlogged, faults>>
        /\ status' = "PROCESSING" /\ marked' = TRUE
        /\ start[s].stage = "listed" /\ start[s] \in Start
    BY DEF MarkProcessing, schedule, IInv, TypeOK
  <1>2. PICK r : r = [start[s] EXCEPT !.stage = "emit"]
    OBVIOUS
  <1>3. start[s].late = FALSE
    BY <1>1 DEF IInv, StartsInv, Start
  <1>4. r \in Start /\ r.late = FALSE /\ r.stage = "emit"
    BY <1>1, <1>2, <1>3 DEF Start
  <1>5. start' = [start EXCEPT ![s] = r]
    BY <1>2 DEF MarkProcessing, Become, IInv, TypeOK
  <1>6. start' \in [Starts -> Start]
    BY <1>4, <1>5 DEF IInv, TypeOK
  <1>7. TypeOK'
    BY <1>1, <1>6 DEF people, mail, faults, Status, IInv, TypeOK
  <1>8. StartsInv'
    <2>1. start'[s] = r /\ \A t \in Starts \ {s} : start'[t] = start[t]
      BY <1>5 DEF IInv, TypeOK
    <2>2. \A t \in Starts : start'[t].late => start'[t].stage = "done"
      BY <1>4, <2>1 DEF IInv, StartsInv
    <2>3. \A m \in Message : place[m] # "none" => m[1] \in Starts \ {s}
      BY <1>1 DEF IInv, StartsInv, Message
    <2> QED
      BY <1>1, <2>1, <2>2, <2>3 DEF mail, IInv, StartsInv
  <1> QED
    BY <1>1, <1>7, <1>8, MessagesFrame, BulkFrame DEF IInv, faults

LEMMA EmitKeeps ==
  ASSUME IInv, NEW s \in Starts, Emit(s)
  PROVE  IInv'
  <1>1. /\ UNCHANGED <<status, marked, adding, people, bulk, logs, received, unlogged, faults>>
        /\ UNCHANGED <<left, returned>>
        /\ start[s].stage = "emit" /\ start[s] \in Start
    BY DEF Emit, row, IInv, TypeOK
  <1>2. start[s].late = FALSE
    BY <1>1 DEF IInv, StartsInv, Start
  <1>3. PICK r : r = Over(start[s])
    OBVIOUS
  <1>4. r \in Start /\ r.late = FALSE /\ r.stage = "done"
    BY <1>1, <1>2, <1>3 DEF Start, Over
  <1>5. start' = [start EXCEPT ![s] = r]
    BY <1>3 DEF Emit, Finish, IInv, TypeOK
  <1>6. /\ start' \in [Starts -> Start] /\ start'[s] = r
        /\ \A t \in Starts \ {s} : start'[t] = start[t]
    BY <1>4, <1>5 DEF IInv, TypeOK
  <1>7. place' \in [Message -> Place]
    BY DEF Emit, Place, IInv, TypeOK
  <1>8. \A m \in Message : \/ place'[m] = place[m]
                           \/ place'[m] = "memory" /\ place[m] = "none" /\ m[1] = s
    BY <1>1 DEF Emit, IInv, StartsInv
  <1>9. TypeOK'
    <2>1. job' \in {"none", "waiting", "active", "again", "rerun", "over"}
      BY DEF Emit, EndJob, IInv, TypeOK
    <2> QED
      BY <1>1, <1>6, <1>7, <2>1 DEF people, mail, faults, IInv, TypeOK
  <1>10. StartsInv'
    <2>1. \A t \in Starts : start'[t].late => start'[t].stage = "done"
      BY <1>4, <1>6 DEF IInv, StartsInv
    <2>2. ASSUME NEW m \in Message, place'[m] # "none"
          PROVE  start'[m[1]].stage = "done" /\ ~start'[m[1]].late
      <3>1. CASE m[1] = s
        BY <1>4, <1>6, <3>1
      <3>2. CASE m[1] # s
        BY <1>6, <1>8, <2>2, <3>2, MessageIsNotBulk DEF IInv, StartsInv, Message
      <3> QED
        BY <3>1, <3>2
    <2> QED
      BY <1>1, <2>1, <2>2 DEF IInv, StartsInv
  <1>11. MessagesInv'
    BY <1>1, <1>8 DEF IInv, MessagesInv, Accounted, Unsent, Logged
  <1>12. BulkInv'
    BY <1>1, BulkFrame DEF IInv
  <1> QED
    BY <1>9, <1>10, <1>11, <1>12 DEF IInv

-----------------------------------------------------------------------------
(* The broker and the handler.                                             *)

\* Of one message something changed, and it is accounted for.
LEMMA MessageMoves ==
  ASSUME IInv, NEW m \in Message, place'[m] # "none" => place[m] # "none",
         place' \in [Message -> Place], left' \in [Message -> [Handling -> Nat]],
         \A n \in Message \ {m} : place'[n] = place[n] /\ left'[n] = left[n],
         Accounted(m)',
         UNCHANGED received \/ Got(m),
         logs \subseteq logs', logs' \subseteq Log,
         \A l \in logs' \ logs : l.status = "SENT" => l.message = m /\ received[m] > 0,
         unlogged \subseteq unlogged', unlogged' \subseteq Message,
         errors' \in 0 .. MaxErrors,
         UNCHANGED <<returned, row, schedule, people, start, bulk, breaks>>
  PROVE  IInv'
  <1>1. m \in Sender \X Contacts /\ received \in [Sender \X Contacts -> Nat]
    BY MessageIsNotBulk DEF IInv, TypeOK, Message
  <1>2. /\ received' \in [Sender \X Contacts -> Nat]
        /\ \A n \in (Sender \X Contacts) \ {m} : received'[n] = received[n]
        /\ received'[m] = received[m] \/ received'[m] = received[m] + 1
    BY <1>1 DEF Got
  <1>3. TypeOK'
    BY <1>2 DEF row, schedule, people, IInv, TypeOK
  <1>4. StartsInv'
    BY DEF row, IInv, StartsInv
  <1>5. MessagesInv'
    <2>1. ASSUME NEW n \in Message \ {m}
          PROVE  Accounted(n)'
      <3>1. n \in Sender \X Contacts /\ Accounted(n)
        BY DEF Message, Sender, IInv, MessagesInv
      <3>2. Logged(n) => Logged(n)'
        BY LoggedStays
      <3> QED
        BY <1>2, <3>1, <3>2 DEF Accounted
    <2>2. ASSUME NEW l \in logs', l.status = "SENT"
          PROVE  received'[l.message] > 0
      <3>1. l.message \in Sender \X Contacts /\ received[l.message] > 0
        BY <1>1, <2>2 DEF IInv, MessagesInv, Log
      <3>2. received[l.message] \in Nat /\ received[m] \in Nat
        BY <1>1, <3>1
      <3> QED
        BY <1>2, <3>1, <3>2
    <2> QED
      BY <2>1, <2>2 DEF MessagesInv
  <1>6. BulkInv'
    <2>1. \A c \in Contacts : received'[<<Bulk, c>>] = received[<<Bulk, c>>]
      BY <1>2, MessageIsNotBulk DEF Sender
    <2>2. bulk.now \subseteq Contacts /\ bulk.list \subseteq Contacts
      BY DEF IInv, TypeOK, BulkCall
    <2>3. UNCHANGED <<bulk, status>>
      BY DEF row
    <2>4. \A c \in Contacts : Logged(<<Bulk, c>>) => Logged(<<Bulk, c>>)'
      BY LoggedStays
    <2> QED
      BY <2>1, <2>2, <2>3, <2>4 DEF IInv, BulkInv
  <1> QED
    BY <1>3, <1>4, <1>5, <1>6 DEF IInv

\* What is known of a message.
LEMMA MessageTypes ==
  ASSUME IInv, NEW m \in Message
  PROVE  /\ m \in Sender \X Contacts /\ received[m] \in Nat /\ returned[m] \in Nat
         /\ left[m] \in [Handling -> Nat] /\ place[m] \in Place
         /\ place \in [Message -> Place] /\ left \in [Message -> [Handling -> Nat]]
         /\ received \in [Sender \X Contacts -> Nat]
         /\ logs \subseteq Log /\ unlogged \subseteq Message
         /\ left[m]["send"] \in Nat /\ left[m]["sent"] \in Nat
         /\ left[m]["fail"] \in Nat /\ left[m]["ack"] \in Nat
         /\ Accounted(m)
  BY DEF IInv, TypeOK, MessagesInv, Message, Sender, Handling

\* The current handler goes on, or an old one.
LEMMA PassMoves ==
  ASSUME IInv, NEW m \in Message, NEW old \in BOOLEAN, NEW p \in Handling, NEW q \in Handling \ {p},
         Stands(m, old, p), Pass(m, old, p, q)
  PROVE  /\ place'[m] # "none" => place[m] # "none"
         /\ place' \in [Message -> Place] /\ left' \in [Message -> [Handling -> Nat]]
         /\ UNCHANGED returned
         /\ \A n \in Message \ {m} : place'[n] = place[n] /\ left'[n] = left[n]
         /\ \/ place[m] = p /\ place'[m] = q /\ left'[m] = left[m] /\ ~old
            \/ /\ place'[m] = place[m] /\ left[m][p] > 0 /\ old
               /\ left'[m][p] = left[m][p] - 1 /\ left'[m][q] = left[m][q] + 1
               /\ \A h \in Handling \ {p, q} : left'[m][h] = left[m][h]
  <1>1. /\ place \in [Message -> Place] /\ left \in [Message -> [Handling -> Nat]]
        /\ left[m][p] \in Nat /\ left[m][q] \in Nat /\ Handling \subseteq Place
    BY MessageTypes DEF Handling, Place
  <1>2. CASE old
    <2>1. left[m][p] > 0 /\ left[m][p] - 1 \in Nat /\ left[m][q] + 1 \in Nat
      BY <1>1, <1>2 DEF Stands
    <2>2. PICK f : f = [left[m] EXCEPT ![p] = @ - 1, ![q] = @ + 1]
      OBVIOUS
    <2>3. left' = [left EXCEPT ![m] = f] /\ UNCHANGED <<place, returned>>
      BY <1>1, <1>2, <2>2 DEF Pass
    <2>4. /\ f \in [Handling -> Nat] /\ f[p] = left[m][p] - 1 /\ f[q] = left[m][q] + 1
          /\ \A h \in Handling \ {p, q} : f[h] = left[m][h]
      BY <1>1, <2>1, <2>2
    <2> QED
      BY <1>1, <1>2, <2>1, <2>3, <2>4
  <1>3. CASE ~old
    BY <1>1, <1>3 DEF Stands, Pass, Move, Handling
  <1> QED
    BY <1>2, <1>3

\* A failed call is counted.
LEMMA Counting ==
  ASSUME IInv, Fail \/ UNCHANGED faults
  PROVE  errors' \in 0 .. MaxErrors /\ UNCHANGED breaks
  BY CampaignAssumption DEF Fail, faults, IInv, TypeOK

\* What Written adds.
LEMMA Writing ==
  ASSUME IInv, NEW m \in Sender \X Contacts, NEW s \in {"SENT", "FAILED"}, Written(m, s)
  PROVE  /\ logs \subseteq logs' /\ logs' \subseteq Log /\ Logged(m)'
         /\ \A l \in logs' \ logs : l.message = m /\ l.status = s
  <1>1. PICK l : l = [message |-> m, status |-> s]
    OBVIOUS
  <1>2. l \in Log /\ l.message = m /\ l.status = s /\ logs' = logs \cup {l}
    BY <1>1 DEF Written, Log
  <1> QED
    BY <1>2 DEF IInv, TypeOK, Logged

\* The broker gets a message, or loses it, or delivers it.
LEMMA BrokerKeeps ==
  ASSUME IInv, NEW m \in Message, Publish(m) \/ Deliver(m)
  PROVE  IInv'
  <1>1. PICK p \in {"queue", "lost", "send"} : Move(m, p) /\ place[m] \in Unsent \ {"none"}
    BY DEF Publish, Deliver, Unsent
  <1>2. UNCHANGED <<left, returned, row, schedule, people, start, bulk, logs, received, unlogged>>
    BY DEF Publish, Deliver
  <1>3. errors' \in 0 .. MaxErrors /\ UNCHANGED breaks
    BY Counting DEF Publish, Deliver
  <1>4. /\ place' \in [Message -> Place] /\ place'[m] = p
        /\ \A n \in Message \ {m} : place'[n] = place[n]
    BY <1>1, MessageTypes DEF Move, Place
  <1>5. Accounted(m)'
    BY <1>1, <1>2, <1>4, MessageTypes DEF Accounted, Unsent
  <1> QED
    BY <1>1, <1>2, <1>3, <1>4, <1>5, MessageTypes, MessageMoves DEF Unsent

\* A handler sends: one less that has to, one more that the contact may have got.
LEMMA SendKeeps ==
  ASSUME IInv, NEW m \in Message, NEW old \in BOOLEAN, SendMessage(m, old)
  PROVE  IInv'
  <1>1. PICK q \in {"sent", "fail"} :
          /\ Stands(m, old, "send") /\ Pass(m, old, "send", q)
          /\ Got(m) \/ UNCHANGED received
          /\ q = "sent" => Got(m)
          /\ Fail \/ UNCHANGED faults
    BY DEF SendMessage
  <1>2. UNCHANGED <<row, schedule, people, start, bulk, logs, unlogged>>
    BY DEF SendMessage
  <1>3. "send" \in Handling /\ q \in Handling \ {"send"} /\ "sent" \in Handling
    BY DEF Handling
  <1>4. /\ place'[m] # "none" => place[m] # "none"
        /\ place' \in [Message -> Place] /\ left' \in [Message -> [Handling -> Nat]]
        /\ UNCHANGED returned
        /\ \A n \in Message \ {m} : place'[n] = place[n] /\ left'[n] = left[n]
        /\ \/ place[m] = "send" /\ place'[m] = q /\ left'[m] = left[m]
           \/ /\ place'[m] = place[m] /\ left'[m]["send"] = left[m]["send"] - 1
              /\ q = "sent" \/ left'[m]["sent"] = left[m]["sent"]
    BY <1>1, <1>3, PassMoves
  <1>5. /\ received'[m] = received[m] \/ received'[m] = received[m] + 1
        /\ q = "sent" => received'[m] = received[m] + 1
    BY <1>1, MessageTypes DEF Got
  <1>6. Accounted(m)'
    <2>1. Logged(m) => Logged(m)'
      BY <1>2, LoggedStays
    <2>2. PICK a \in Nat, b \in Nat, c \in Nat :
            a = received[m] /\ b = left[m]["send"] /\ c = returned[m]
      BY MessageTypes
    <2>3. CASE place[m] = "send" /\ place'[m] = q /\ left'[m] = left[m]
      BY <1>3, <1>4, <1>5, <2>2, <2>3, MessageTypes DEF Accounted, Unsent
    <2>4. CASE /\ place'[m] = place[m] /\ left'[m]["send"] = left[m]["send"] - 1
               /\ q = "sent" \/ left'[m]["sent"] = left[m]["sent"]
      BY <1>2, <1>4, <1>5, <2>1, <2>2, <2>4, MessageTypes DEF Accounted
    <2> QED
      BY <1>4, <2>3, <2>4
  <1> QED
    BY <1>1, <1>2, <1>4, <1>6, Counting, MessageTypes, MessageMoves

\* A handler writes a log, or fails to.
LEMMA LogKeeps ==
  ASSUME IInv, NEW m \in Message, NEW old \in BOOLEAN, LogSent(m, old) \/ LogFailed(m, old)
  PROVE  IInv'
  <1>1. PICK p \in {"sent", "fail"}, q \in {"fail", "ack"} :
          /\ p # q /\ Stands(m, old, p) /\ Pass(m, old, p, q)
          /\ \/ p = "sent" /\ q = "ack" /\ Written(m, "SENT") /\ UNCHANGED <<unlogged, faults>>
             \/ p = "sent" /\ q = "fail" /\ Fail /\ UNCHANGED <<logs, unlogged>>
             \/ p = "fail" /\ Written(m, "FAILED") /\ UNCHANGED <<unlogged, faults>>
             \/ p = "fail" /\ Fail /\ unlogged' = unlogged \cup {m} /\ UNCHANGED logs
    BY DEF LogSent, LogFailed
  <1>2. UNCHANGED <<row, schedule, people, start, bulk, received>>
    BY DEF LogSent, LogFailed
  <1>3. p \in Handling /\ q \in Handling \ {p} /\ {"send", "sent"} \subseteq Handling
    BY <1>1 DEF Handling
  <1>4. /\ place'[m] # "none" => place[m] # "none"
        /\ place' \in [Message -> Place] /\ left' \in [Message -> [Handling -> Nat]]
        /\ UNCHANGED returned
        /\ \A n \in Message \ {m} : place'[n] = place[n] /\ left'[n] = left[n]
        /\ \/ place[m] = p /\ place'[m] = q /\ left'[m] = left[m]
           \/ /\ place'[m] = place[m] /\ left[m][p] > 0 /\ left'[m][p] = left[m][p] - 1
              /\ \A h \in Handling \ {p, q} : left'[m][h] = left[m][h]
    BY <1>1, <1>3, PassMoves
  <1>5. p = "sent" => received[m] > 0
    BY <1>4, MessageTypes DEF Accounted
  <1>6. /\ logs \subseteq logs' /\ logs' \subseteq Log
        /\ \A l \in logs' \ logs : l.status = "SENT" => l.message = m /\ received[m] > 0
        /\ q = "ack" => m \in unlogged' \/ Logged(m)'
        /\ unlogged \subseteq unlogged' /\ unlogged' \subseteq Message
    <2>1. CASE p = "sent" /\ Written(m, "SENT") /\ UNCHANGED unlogged
      BY <1>5, <2>1, MessageTypes, Writing
    <2>2. CASE Written(m, "FAILED") /\ UNCHANGED unlogged
      BY <2>2, MessageTypes, Writing
    <2>3. CASE q = "fail" /\ UNCHANGED <<logs, unlogged>>
      BY <2>3, MessageTypes
    <2>4. CASE unlogged' = unlogged \cup {m} /\ UNCHANGED logs
      BY <2>4, MessageTypes
    <2> QED
      BY <1>1, <2>1, <2>2, <2>3, <2>4
  <1>7. Accounted(m)'
    <2>1. Logged(m) => Logged(m)'
      BY <1>6, LoggedStays
    <2>2. left'[m]["send"] = left[m]["send"]
          /\ (left'[m]["sent"] > 0 => left[m]["sent"] > 0)
      BY <1>3, <1>4, MessageTypes
    <2>3. place'[m] \in Unsent => place[m] \in Unsent
      BY <1>4 DEF Unsent
    <2>4. place'[m] # "sent" \/ place[m] = "sent"
      BY <1>4
    <2>5. place'[m] \in {"ack", "gone"} => m \in unlogged' \/ Logged(m)'
      BY <1>4, <1>6, <2>1, MessageTypes DEF Accounted
    <2> QED
      BY <1>2, <1>4, <2>2, <2>3, <2>4, <2>5, MessageTypes DEF Accounted
  <1>8. Fail \/ UNCHANGED faults
    BY <1>1
  <1> QED
    BY <1>2, <1>4, <1>6, <1>7, <1>8, Counting, MessageMoves

\* An acknowledgement, of which that of an old handler comes to nothing.
LEMMA AcknowledgeKeeps ==
  ASSUME IInv, NEW m \in Message, NEW old \in BOOLEAN, Acknowledge(m, old)
  PROVE  IInv'
  <1>1. /\ UNCHANGED <<returned, row, schedule, people, start, bulk, logs, received, unlogged, faults>>
        /\ Stands(m, old, "ack")
    BY DEF Acknowledge
  <1>2. /\ place'[m] # "none" => place[m] # "none"
        /\ place' \in [Message -> Place] /\ left' \in [Message -> [Handling -> Nat]]
        /\ \A n \in Message \ {m} : place'[n] = place[n] /\ left'[n] = left[n]
        /\ place'[m] = place[m] \/ (place[m] = "ack" /\ place'[m] = "gone")
        /\ left'[m]["send"] = left[m]["send"] /\ left'[m]["sent"] = left[m]["sent"]
    <2>1. CASE old
      <3>1. PICK f : f = [left[m] EXCEPT !["ack"] = @ - 1]
        OBVIOUS
      <3>2. left[m]["ack"] > 0 /\ left[m]["ack"] - 1 \in Nat /\ "ack" \in Handling
        BY <1>1, <2>1, MessageTypes DEF Stands, Handling
      <3>3. left' = [left EXCEPT ![m] = f] /\ UNCHANGED place
        BY <2>1, <3>1, MessageTypes DEF Acknowledge
      <3>4. f \in [Handling -> Nat] /\ f["send"] = left[m]["send"] /\ f["sent"] = left[m]["sent"]
        BY <3>1, <3>2, MessageTypes DEF Handling
      <3> QED
        BY <3>3, <3>4, MessageTypes
    <2>2. CASE ~old
      BY <1>1, <2>2, MessageTypes DEF Acknowledge, Stands, Move, Place
    <2> QED
      BY <2>1, <2>2
  <1>3. Accounted(m)'
    <2>1. Logged(m) => Logged(m)'
      BY <1>1, LoggedStays
    <2> QED
      BY <1>1, <1>2, <2>1, MessageTypes DEF Accounted, Unsent
  <1> QED
    BY <1>1, <1>2, <1>3, Counting, MessageTypes, MessageMoves

LEMMA MessageKeeps ==
  ASSUME IInv, NEW m \in Message, Publish(m) \/ Handle(m)
  PROVE  IInv'
  BY BrokerKeeps, SendKeeps, LogKeeps, AcknowledgeKeeps DEF Handle, HandlerStep

-----------------------------------------------------------------------------
(* sendBulkMessages.                                                       *)

\* A step of the bulk call leaves starts and messages alone.
LEMMA BulkElsewhere ==
  ASSUME IInv, logs \subseteq logs', logs' \subseteq Log,
         errors' \in 0 .. MaxErrors, bulk' \in BulkCall,
         received' \in [Sender \X Contacts -> Nat],
         \A n \in Message : received'[n] = received[n],
         \A n \in Sender \X Contacts : received'[n] >= received[n],
         \A l \in logs' \ logs : l.status = "SENT" => received'[l.message] > 0,
         UNCHANGED <<schedule, people, start, mail, unlogged, breaks>>,
         \/ UNCHANGED row
         \/ status' \in {"PROCESSING", "COMPLETED"} /\ marked' \in BOOLEAN
  PROVE  TypeOK' /\ StartsInv' /\ MessagesInv'
  <1>1. TypeOK'
    BY DEF schedule, people, row, mail, Status, IInv, TypeOK
  <1>2. StartsInv'
    BY DEF row, mail, IInv, StartsInv
  <1>3. MessagesInv'
    <2>1. ASSUME NEW n \in Message
          PROVE  Accounted(n)'
      <3>1. Accounted(n) /\ (Logged(n) => Logged(n)')
        BY LoggedStays DEF IInv, MessagesInv
      <3> QED
        BY <3>1 DEF Accounted, mail
    <2>2. ASSUME NEW l \in logs', l.status = "SENT"
          PROVE  received'[l.message] > 0
      <3>1. CASE l \in logs
        <4>1. l.message \in Sender \X Contacts /\ received[l.message] > 0
          BY <2>2, <3>1 DEF IInv, MessagesInv, Log
        <4>2. received[l.message] \in Nat /\ received'[l.message] \in Nat
          BY <4>1 DEF IInv, TypeOK
        <4> QED
          BY <4>1, <4>2
      <3> QED
        BY <2>2, <3>1
    <2> QED
      BY <2>1, <2>2 DEF MessagesInv
  <1> QED
    BY <1>1, <1>2, <1>3

\* The steps that read, list and mark, and the last one.
LEMMA BulkQuietKeeps ==
  ASSUME IInv, BulkRead \/ BulkContacts \/ BulkMark \/ BulkComplete
  PROVE  IInv'
  <1>1. /\ UNCHANGED <<schedule, people, start, mail, logs, received, unlogged, faults>>
        /\ bulk \in BulkCall /\ contacts \subseteq Contacts
    BY DEF BulkRead, BulkContacts, BulkMark, BulkComplete, IInv, TypeOK
  <1>2. bulk' \in BulkCall
    <2>1. CASE BulkRead \/ BulkMark \/ BulkComplete
      BY <1>1, <2>1 DEF BulkRead, BulkMark, BulkComplete, BulkTo, BulkCall
    <2>2. CASE BulkContacts
      BY <1>1, <2>2 DEF BulkContacts, BulkCall
    <2> QED
      BY <2>1, <2>2
  <1>3. \/ UNCHANGED row
        \/ status' \in {"PROCESSING", "COMPLETED"} /\ marked' \in BOOLEAN
    BY DEF BulkRead, BulkContacts, BulkMark, BulkComplete, IInv, TypeOK
  <1>4. received \in [Sender \X Contacts -> Nat] /\ logs \subseteq Log /\ errors \in 0 .. MaxErrors
    BY DEF IInv, TypeOK
  <1>5. TypeOK' /\ StartsInv' /\ MessagesInv'
    <2>1. \A n \in Sender \X Contacts : received'[n] >= received[n]
      BY <1>1, <1>4
    <2> QED
      BY <1>1, <1>2, <1>3, <1>4, <2>1, BulkElsewhere DEF faults
  <1>6. \A m : Logged(m)' <=> Logged(m)
    BY <1>1 DEF Logged
  <1>7. BulkInv'
    <2>1. CASE BulkRead
      <3>1. bulk.stage = "none" /\ UNCHANGED status
        BY <2>1 DEF BulkRead, row
      <3>2. bulk' = [bulk EXCEPT !.stage = "read"]
        BY <2>1 DEF BulkRead, BulkTo
      <3>3. bulk'.stage = "read" /\ bulk'.list = bulk.list /\ bulk'.todo = bulk.todo /\ bulk'.now = bulk.now
        BY <1>1, <3>2 DEF BulkCall
      <3> QED
        BY <1>1, <1>6, <3>1, <3>3 DEF IInv, BulkInv
    <2>2. CASE BulkContacts
      <3>1. bulk.stage = "read" /\ UNCHANGED status
        BY <2>2 DEF BulkContacts, row
      <3>2. CASE contacts = {}
        <4>1. bulk' = [bulk EXCEPT !.stage = "done"]
          BY <2>2, <3>2 DEF BulkContacts
        <4>2. bulk'.stage = "done" /\ bulk'.list = bulk.list /\ bulk'.todo = bulk.todo /\ bulk'.now = bulk.now
          BY <1>1, <4>1 DEF BulkCall
        <4> QED
          BY <1>1, <1>6, <3>1, <4>2 DEF IInv, BulkInv
      <3>3. CASE contacts # {}
        <4>1. bulk'.stage = "listed" /\ bulk'.list = bulk'.todo /\ bulk'.now = {}
          BY <2>2, <3>3 DEF BulkContacts
        <4> QED
          BY <1>1, <1>6, <3>1, <4>1 DEF IInv, BulkInv
      <3> QED
        BY <3>2, <3>3
    <2>3. CASE BulkMark
      <3>1. bulk.stage = "listed" /\ status' = "PROCESSING"
        BY <2>3 DEF BulkMark
      <3>2. bulk' = [bulk EXCEPT !.stage = "send"]
        BY <2>3 DEF BulkMark, BulkTo
      <3>3. bulk'.stage = "send" /\ bulk'.list = bulk.list /\ bulk'.todo = bulk.todo /\ bulk'.now = bulk.now
        BY <1>1, <3>2 DEF BulkCall
      <3> QED
        BY <1>1, <1>6, <3>1, <3>3 DEF IInv, BulkInv
    <2>4. CASE BulkComplete
      <3>1. bulk.stage = "send" /\ bulk.todo = {} /\ status' = "COMPLETED"
        BY <2>4 DEF BulkComplete
      <3>2. bulk' = [bulk EXCEPT !.stage = "done"]
        BY <2>4 DEF BulkComplete, BulkTo
      <3>3. bulk'.stage = "done" /\ bulk'.list = bulk.list /\ bulk'.todo = bulk.todo /\ bulk'.now = bulk.now
        BY <1>1, <3>2 DEF BulkCall
      <3> QED
        BY <1>1, <1>6, <3>1, <3>3 DEF IInv, BulkInv
    <2> QED
      BY <2>1, <2>2, <2>3, <2>4
  <1> QED
    BY <1>5, <1>7 DEF IInv

\* The next contact gets the message, or not.
LEMMA BulkSendKeeps ==
  ASSUME IInv, BulkSend
  PROVE  IInv'
  <1>1. PICK c \in bulk.todo, stage \in {"sent", "fail"} :
          /\ BulkTakes(c, stage)
          /\ Got(<<Bulk, c>>) \/ UNCHANGED received
          /\ stage = "sent" => Got(<<Bulk, c>>)
          /\ Fail \/ UNCHANGED faults
    BY DEF BulkSend
  <1>2. /\ bulk.stage = "send" /\ bulk \in BulkCall /\ c \in Contacts
        /\ UNCHANGED <<row, schedule, people, start, mail, logs, unlogged>>
    BY DEF BulkSend, BulkCall, IInv, TypeOK
  <1>3. bulk' = [bulk EXCEPT !.stage = stage, !.todo = @ \ {c}, !.now = {c}]
    BY <1>1 DEF BulkTakes
  <1>4. /\ bulk' \in BulkCall /\ bulk'.stage = stage /\ bulk'.list = bulk.list
        /\ bulk'.todo = bulk.todo \ {c} /\ bulk'.now = {c}
    BY <1>1, <1>2, <1>3 DEF BulkCall
  <1>5. /\ received \in [Sender \X Contacts -> Nat] /\ logs \subseteq Log
        /\ <<Bulk, c>> \in Sender \X Contacts
    BY <1>2 DEF IInv, TypeOK, Sender
  <1>6. /\ received' \in [Sender \X Contacts -> Nat]
        /\ \A n \in (Sender \X Contacts) \ {<<Bulk, c>>} : received'[n] = received[n]
        /\ received'[<<Bulk, c>>] \in {received[<<Bulk, c>>], received[<<Bulk, c>>] + 1}
        /\ stage = "sent" => received'[<<Bulk, c>>] = received[<<Bulk, c>>] + 1
    BY <1>1, <1>5 DEF Got
  <1>7. received[<<Bulk, c>>] = 0
    BY <1>1, <1>2 DEF IInv, BulkInv
  <1>8. TypeOK' /\ StartsInv' /\ MessagesInv'
    <2>1. \A n \in Message : received'[n] = received[n]
      BY <1>2, <1>6, MessageIsNotBulk
    <2>2. \A n \in Sender \X Contacts : received'[n] >= received[n]
      BY <1>5, <1>6, <1>7
    <2>3. errors' \in 0 .. MaxErrors /\ UNCHANGED breaks
      BY <1>1, Counting
    <2> QED
      BY <1>2, <1>4, <1>5, <1>6, <2>1, <2>2, <2>3, BulkElsewhere
  <1>9. BulkInv'
    <2>1. \A d \in Contacts \ {c} : received'[<<Bulk, d>>] = received[<<Bulk, d>>]
      BY <1>6 DEF Sender
    <2>2. UNCHANGED status /\ status # "COMPLETED"
      BY <1>2 DEF row, IInv, BulkInv
    <2>3. \A m : Logged(m)' <=> Logged(m)
      BY <1>2 DEF Logged
    <2>4. ASSUME NEW d \in Contacts
          PROVE  /\ received'[<<Bulk, d>>] <= 1
                 /\ bulk'.stage \in {"none", "read", "listed"} \/ d \in bulk'.todo =>
                      received'[<<Bulk, d>>] = 0
      BY <1>1, <1>2, <1>4, <1>6, <1>7, <2>1 DEF IInv, BulkInv
    <2>5. bulk'.stage = "sent" => \A d \in bulk'.now : received'[<<Bulk, d>>] > 0
      BY <1>4, <1>6, <1>7
    <2>6. \A d \in bulk'.list :
            d \in bulk'.todo \/ (bulk'.stage # "send" /\ d \in bulk'.now) \/ Logged(<<Bulk, d>>)'
      BY <1>1, <1>2, <1>4, <2>3 DEF IInv, BulkInv
    <2> QED
      BY <1>1, <1>4, <2>2, <2>4, <2>5, <2>6 DEF BulkInv
  <1> QED
    BY <1>8, <1>9 DEF IInv

\* The log of what was sent, or of the failure.
LEMMA BulkLogKeeps ==
  ASSUME IInv, BulkLogSent \/ BulkLogFailed
  PROVE  IInv'
  <1>1. PICK c \in bulk.now, stage \in {"send", "fail", "done"} :
          /\ BulkTo(stage)
          /\ Fail \/ UNCHANGED faults
          /\ \/ /\ stage = "send"
                /\ \/ bulk.stage = "sent" /\ Written(<<Bulk, c>>, "SENT")
                   \/ Written(<<Bulk, c>>, "FAILED")
             \/ stage # "send" /\ UNCHANGED logs
    BY DEF BulkLogSent, BulkLogFailed
  <1>2. /\ bulk.stage \in {"sent", "fail"} /\ bulk \in BulkCall /\ c \in Contacts
        /\ UNCHANGED <<row, schedule, people, start, mail, received, unlogged>>
    BY DEF BulkLogSent, BulkLogFailed, BulkCall, IInv, TypeOK
  <1>3. bulk' = [bulk EXCEPT !.stage = stage]
    BY <1>1 DEF BulkTo
  <1>4. /\ bulk' \in BulkCall /\ bulk'.stage = stage /\ bulk'.list = bulk.list
        /\ bulk'.todo = bulk.todo /\ bulk'.now = bulk.now
    BY <1>2, <1>3 DEF BulkCall
  <1>5. <<Bulk, c>> \in Sender \X Contacts
    BY <1>2 DEF Sender
  <1>6. received \in [Sender \X Contacts -> Nat] /\ logs \subseteq Log
    BY DEF IInv, TypeOK
  <1>7. bulk.stage = "sent" => received[<<Bulk, c>>] > 0
    BY DEF IInv, BulkInv
  <1>8. /\ logs \subseteq logs' /\ logs' \subseteq Log
        /\ stage = "send" => Logged(<<Bulk, c>>)'
        /\ \A l \in logs' \ logs : l.status = "SENT" => received[l.message] > 0
    <2>1. CASE UNCHANGED logs /\ stage # "send"
      BY <1>6, <2>1
    <2>2. CASE Written(<<Bulk, c>>, "FAILED")
      BY <1>5, <2>2, Writing
    <2>3. CASE bulk.stage = "sent" /\ Written(<<Bulk, c>>, "SENT")
      BY <1>5, <1>7, <2>3, Writing
    <2> QED
      BY <1>1, <2>1, <2>2, <2>3
  <1>9. TypeOK' /\ StartsInv' /\ MessagesInv'
    <2>1. \A n \in Sender \X Contacts : received'[n] >= received[n]
      BY <1>2, <1>6
    <2>2. errors' \in 0 .. MaxErrors /\ UNCHANGED breaks
      BY <1>1, Counting
    <2>3. \A l \in logs' \ logs : l.status = "SENT" => received'[l.message] > 0
      BY <1>2, <1>8
    <2> QED
      BY <1>2, <1>4, <1>6, <1>8, <2>1, <2>2, <2>3, BulkElsewhere
  <1>10. BulkInv'
    <2>1. \A m : Logged(m) => Logged(m)'
      BY <1>8, LoggedStays
    <2>2. UNCHANGED status /\ status # "COMPLETED"
      BY <1>2 DEF row, IInv, BulkInv
    <2>3. \A d \in bulk.now : d = c
      BY DEF IInv, BulkInv
    <2>4. stage \in {"send", "fail"} =>
            \A d \in bulk.list :
              d \in bulk.todo \/ (stage # "send" /\ d \in bulk.now) \/ Logged(<<Bulk, d>>)'
      BY <1>2, <1>8, <2>1, <2>3 DEF IInv, BulkInv
    <2> QED
      BY <1>1, <1>2, <1>4, <2>2, <2>4 DEF IInv, BulkInv
  <1> QED
    BY <1>9, <1>10 DEF IInv

-----------------------------------------------------------------------------
(* Deliveries that come back.                                              *)

\* What lost its handler comes back, and its sendings are accounted for.
LEMMA BrokenOff ==
  ASSUME IInv, NEW m \in Message, Return, UNCHANGED <<received, logs, unlogged>>,
         \/ place[m] \in Handling /\ place'[m] = "queue"
         \/ place[m] = "memory" /\ place'[m] = "lost"
         \/ place[m] \notin Handling /\ place'[m] = place[m],
         \/ left'[m]["send"] = 0 /\ left'[m]["sent"] = 0
         \/ /\ left'[m]["send"] = IF place[m] = "send" THEN left[m]["send"] + 1 ELSE left[m]["send"]
            /\ left'[m]["sent"] = IF place[m] = "sent" THEN left[m]["sent"] + 1 ELSE left[m]["sent"]
  PROVE  Accounted(m)'
  <1>1. returned'[m] = IF place[m] \in Handling THEN returned[m] + 1 ELSE returned[m]
    BY DEF Return
  <1>2. PICK a \in Nat, b \in Nat, c \in Nat, d \in Nat :
          a = received[m] /\ b = left[m]["send"] /\ c = returned[m] /\ d = left[m]["sent"]
    BY MessageTypes
  <1>3. Logged(m) => Logged(m)'
    BY DEF Logged
  <1>4. CASE place[m] \in Handling
    <2>1. PICK n \in Nat : n = left'[m]["send"]
      BY <1>2
    <2>2. a + b <= 1 + c /\ (place[m] = "send" => a + b <= c)
      BY <1>2, MessageTypes DEF Accounted, Unsent
    <2>3. n = 0 \/ n = b \/ (place[m] = "send" /\ n = b + 1)
      BY <1>2, <2>1
    <2>4. a + n <= c + 1
      BY <2>2, <2>3
    <2>5. returned'[m] = c + 1 /\ place'[m] = "queue" /\ received'[m] = a
      BY <1>1, <1>2, <1>4 DEF Handling
    <2>6. left'[m]["sent"] > 0 => received'[m] > 0
      BY <1>2, MessageTypes DEF Accounted
    <2> QED
      BY <2>1, <2>4, <2>5, <2>6 DEF Accounted
  <1>5. CASE place[m] \notin Handling
    <2>1. PICK n \in Nat : n = left'[m]["send"]
      BY <1>2
    <2>2. a + b <= 1 + c /\ (place[m] \in Unsent => a + b <= c)
      BY <1>2, MessageTypes DEF Accounted
    <2>3. n = 0 \/ n = b
      BY <1>2, <1>5, <2>1 DEF Handling
    <2>4. a + n <= 1 + c /\ (place[m] \in Unsent => a + n <= c)
      BY <2>2, <2>3
    <2>5. returned'[m] = c /\ received'[m] = a
      BY <1>1, <1>2, <1>5
    <2>6. place'[m] # "sent" /\ (left'[m]["sent"] > 0 => received'[m] > 0)
      BY <1>2, <1>5, MessageTypes DEF Accounted, Handling
    <2>7. place'[m] \in Unsent => place[m] \in Unsent
      BY <1>5 DEF Unsent
    <2>8. place'[m] \in {"ack", "gone"} => m \in unlogged' \/ Logged(m)'
      BY <1>3, <1>5, MessageTypes DEF Accounted
    <2> QED
      BY <2>1, <2>4, <2>5, <2>6, <2>7, <2>8 DEF Accounted
  <1> QED
    BY <1>4, <1>5

\* The variables that count deliveries keep their types.
LEMMA ReturnTypes ==
  ASSUME IInv, Return
  PROVE  returned' \in [Message -> Nat]
  BY DEF IInv, TypeOK, Return

LEMMA DieKeeps ==
  ASSUME IInv, Die
  PROVE  IInv'
  <1>1. /\ UNCHANGED <<row, contacts, logs, received, unlogged, errors>>
        /\ breaks' \in 0 .. MaxBreaks /\ Return
        /\ adding' = FALSE /\ file' = {}
    BY CampaignAssumption DEF Die, Break, IInv, TypeOK
  <1>2. start' \in [Starts -> Start]
        /\ \A s \in Starts : /\ start'[s].late = start[s].late
                             /\ start[s].stage = "none" => start'[s].stage = "none"
                             /\ start[s].stage # "none" => start'[s].stage = "done"
    <2>1. /\ start \in [Starts -> Start]
          /\ start' = [s \in Starts |-> IF start[s].stage = "none" THEN start[s]
                                        ELSE Over(start[s])]
      BY DEF Die, IInv, TypeOK
    <2> QED
      BY <2>1 DEF Start, Over
  <1>3. bulk \in BulkCall /\ bulk' \in BulkCall /\ bulk'.list = bulk.list
        /\ bulk'.todo = bulk.todo /\ bulk'.now = bulk.now
        /\ \/ bulk.stage = "none" /\ bulk'.stage = "none"
           \/ bulk'.stage = "done"
    BY DEF Die, IInv, TypeOK, BulkCall
  <1>4. /\ place' \in [Message -> Place]
        /\ \A m \in Message :
             \/ place[m] \in Handling /\ place'[m] = "queue"
             \/ place[m] = "memory" /\ place'[m] = "lost"
             \/ place[m] \notin Handling \cup {"memory"} /\ place'[m] = place[m]
    BY DEF Die, IInv, TypeOK, Place, Handling
  <1>5. /\ left' \in [Message -> [Handling -> Nat]]
        /\ \A m \in Message : left'[m]["send"] = 0 /\ left'[m]["sent"] = 0
    BY DEF Die, Handling
  <1>6. TypeOK'
    <2>1. job' \in {"none", "waiting", "active", "again", "rerun", "over"}
      BY DEF Die, IInv, TypeOK
    <2> QED
      BY <1>1, <1>2, <1>3, <1>4, <1>5, <2>1, ReturnTypes DEF row, IInv, TypeOK
  <1>7. StartsInv'
    <2>1. \A m \in Message : place'[m] # "none" => place[m] # "none"
      BY <1>4 DEF Handling
    <2>2. \A m \in Message : m[1] \in Starts
      BY DEF Message
    <2> QED
      BY <1>1, <1>2, <2>1, <2>2 DEF row, IInv, StartsInv
  <1>8. MessagesInv'
    <2>1. ASSUME NEW m \in Message
          PROVE  Accounted(m)'
      <3>1. place[m] \in Handling => place[m] # "memory"
        BY DEF Handling
      <3> QED
        BY <1>1, <1>4, <1>5, <3>1, BrokenOff
    <2> QED
      BY <1>1, <2>1 DEF IInv, MessagesInv
  <1>9. BulkInv'
    <2>1. \A m : Logged(m)' <=> Logged(m)
      BY <1>1 DEF Logged
    <2> QED
      BY <1>1, <1>3, <2>1 DEF row, IInv, BulkInv
  <1> QED
    BY <1>6, <1>7, <1>8, <1>9 DEF IInv

LEMMA LoseConnectionKeeps ==
  ASSUME IInv, LoseConnection
  PROVE  IInv'
  <1>1. /\ UNCHANGED <<row, schedule, people, start, bulk, logs, received, unlogged, errors>>
        /\ breaks' \in 0 .. MaxBreaks /\ Return
    BY CampaignAssumption DEF LoseConnection, Break, IInv, TypeOK
  <1>2. /\ place' \in [Message -> Place]
        /\ \A m \in Message :
             place'[m] = IF place[m] \in Handling THEN "queue" ELSE place[m]
    BY DEF LoseConnection, IInv, TypeOK, Place
  <1>3. /\ left' \in [Message -> [Handling -> Nat]]
        /\ \A m \in Message : \A h \in Handling :
             left'[m][h] = IF place[m] = h THEN left[m][h] + 1 ELSE left[m][h]
    BY DEF LoseConnection, IInv, TypeOK
  <1>4. TypeOK'
    BY <1>1, <1>2, <1>3, ReturnTypes DEF row, schedule, people, IInv, TypeOK
  <1>5. StartsInv'
    BY <1>1, <1>2 DEF row, Handling, IInv, StartsInv
  <1>6. MessagesInv'
    <2>1. ASSUME NEW m \in Message
          PROVE  Accounted(m)'
      <3>1. /\ left'[m]["send"] = IF place[m] = "send" THEN left[m]["send"] + 1 ELSE left[m]["send"]
            /\ left'[m]["sent"] = IF place[m] = "sent" THEN left[m]["sent"] + 1 ELSE left[m]["sent"]
            /\ place[m] \in Handling => place[m] # "memory"
        BY <1>3 DEF Handling
      <3> QED
        BY <1>1, <1>2, <3>1, BrokenOff
    <2> QED
      BY <1>1, <2>1 DEF IInv, MessagesInv
  <1>7. BulkInv'
    BY <1>1, BulkFrame DEF row, IInv
  <1> QED
    BY <1>4, <1>5, <1>6, <1>7 DEF IInv

LEMMA NextKeeps ==
  ASSUME IInv, [Next]_vars
  PROVE  IInv'
  <1>1. CASE UNCHANGED vars
    BY <1>1 DEF vars, row, schedule, people, mail, faults, IInv, TypeOK, StartsInv, MessagesInv,
                Accounted, BulkInv, Logged
  <1>2. CASE \E s \in Starts : StartStep(s)
    BY <1>2, ReadKeeps, GetContactsKeeps, MarkProcessingKeeps, EmitKeeps DEF StartStep
  <1>3. CASE BulkStep
    BY <1>3, BulkQuietKeeps, BulkSendKeeps, BulkLogKeeps DEF BulkStep
  <1>4. CASE CreateCampaign \/ AddJob \/ Upload \/ StoreRow \/ RejectRow
    BY <1>4, CampaignSteps
  <1>5. CASE \E m \in Message : Publish(m) \/ Handle(m)
    BY <1>5, MessageKeeps
  <1> QED
    BY <1>1, <1>2, <1>3, <1>4, <1>5, DieKeeps, LoseConnectionKeeps DEF Next

-----------------------------------------------------------------------------
(* The theorems.                                                           *)

\* Starts, messages and the bulk call are in order in every reachable state.
THEOREM Invariance == Spec => []IInv
  <1>1. Init => IInv
    BY Initially
  <1>2. IInv /\ [Next]_vars => IInv'
    BY NextKeeps
  <1> QED
    BY <1>1, <1>2, PTL DEF Spec

\* Every variable of Campaign keeps its type.
THEOREM TypeCorrect == Spec => []TypeOK
  <1>1. IInv => TypeOK
    BY DEF IInv
  <1> QED
    BY Invariance, <1>1, PTL

\* However many calls and jobs start one campaign, those that read it after
\* somebody had set PROCESSING queue nothing.
THEOREM LateStartsAreHarmless == Spec => []LateStartsEmitNothing
  <1>1. IInv => LateStartsEmitNothing
    BY DEF IInv, StartsInv, LateStartsEmitNothing
  <1> QED
    BY Invariance, <1>1, PTL

\* Delivery is at least once only by as much as messages come back, with the
\* process dying or the connection to the broker lost under its handlers.
THEOREM OneReceiptPerReturn == Spec => []OnceAndOncePerReturn
  <1>1. IInv => OnceAndOncePerReturn
    <2> SUFFICES ASSUME IInv PROVE OnceAndOncePerReturn
      OBVIOUS
    <2>1. ASSUME NEW m \in Message
          PROVE  received[m] <= 1 + returned[m]
      BY MessageTypes DEF Accounted
    <2> QED
      BY <2>1 DEF OnceAndOncePerReturn, IInv, BulkInv
  <1> QED
    BY Invariance, <1>1, PTL

\* The campaign logs tell what happened.
THEOREM LogsCanBeTrusted == Spec => []LogsAreTrue
  <1>1. IInv => LogsAreTrue
    BY DEF IInv, MessagesInv, Accounted, BulkInv, Logged, LogsAreTrue
  <1> QED
    BY Invariance, <1>1, PTL
=============================================================================
