------------------------------ MODULE Campaign ------------------------------
(***************************************************************************)
(* One campaign of a tenant: CampaignService with its Bull job, the        *)
(* RabbitMQ consumer that sends the messages one by one, the older bulk    *)
(* route of WhatsappService, and the import of the contacts they write to. *)
(*                                                                         *)
(* Starts, job, consumer and bulk route live in one process.  What a start *)
(* emits waits in the process until the broker has it; the broker delivers *)
(* what it has, any number of messages at once, and again what was not     *)
(* acknowledged when the process died or its connection to the broker was  *)
(* lost.  A lost connection ends no handler: it goes on beside the one of  *)
(* the next delivery, and its acknowledgement, on a channel that is        *)
(* closed, throws and is swallowed.  Bull runs a job again that died with  *)
(* the process, once.                                                      *)
(*                                                                         *)
(* A message is known by the start that emitted it and by its contact, and *)
(* goes through the steps of its handler.  The handlers left over from     *)
(* deliveries that came back differ in nothing but their stage: they are   *)
(* counted.                                                                *)
(***************************************************************************)
EXTENDS Naturals

CONSTANTS
  Contacts,     \* the contacts that files may bring
  Starts,       \* calls of startBulkCampaign
  Bulk,         \* the call of sendBulkMessages
  MaxErrors,    \* bound on the calls to WhatsApp, a database or the broker that fail
  MaxBreaks     \* bound on the deaths of the process and the lost connections

ASSUME CampaignAssumption ==
  /\ Bulk \notin Starts
  /\ MaxErrors \in Nat /\ MaxBreaks \in Nat

VARIABLES
  status,     \* the campaign's status, "none" before it is created
  adding,     \* whether createCampaign has yet to add the job
  job,        \* the Bull job
  contacts,   \* the contact table
  file,       \* the rows of an import still to be stored
  start,      \* what each start is doing
  bulk,       \* what the bulk call is doing
  place,      \* where each message is, its current handler included
  left,       \* how many handlers of earlier deliveries are at each stage
  returned,   \* history: how often each message came back unacknowledged
  logs,       \* the campaign logs
  marked,     \* history: whether a start or the bulk call has set PROCESSING
  received,   \* history: how often the contact got the message
  unlogged,   \* history: the messages of which no log could be written
  errors,     \* how many calls failed
  breaks      \* how many times the process died or lost its connection to the broker

row == <<status, marked>>
schedule == <<adding, job>>
people == <<contacts, file>>
mail == <<place, left, returned>>
faults == <<errors, breaks>>
vars == <<row, schedule, people, start, bulk, mail, logs, received, unlogged, faults>>

Sender == Starts \cup {Bulk}
Message == Starts \X Contacts
Status == {"none", "DRAFT", "SCHEDULED", "PROCESSING", "COMPLETED"}
Startable == {"DRAFT", "SCHEDULED"}
Place == {"none", "memory", "queue", "send", "sent", "fail", "ack", "gone", "lost"}
Handling == {"send", "sent", "fail", "ack"}
Log == [message : Sender \X Contacts, status : {"SENT", "FAILED"}]

Start == [stage : {"none", "read", "listed", "emit", "done"}, list : SUBSET Contacts,
          job : BOOLEAN, late : BOOLEAN]
BulkCall == [stage : {"none", "read", "listed", "send", "sent", "fail", "done"},
             list : SUBSET Contacts, todo : SUBSET Contacts, now : SUBSET Contacts]

Init ==
  /\ status = "none" /\ marked = FALSE
  /\ adding = FALSE /\ job = "none"
  /\ contacts = {} /\ file = {}
  /\ start = [s \in Starts |-> [stage |-> "none", list |-> {}, job |-> FALSE, late |-> FALSE]]
  /\ bulk = [stage |-> "none", list |-> {}, todo |-> {}, now |-> {}]
  /\ place = [m \in Message |-> "none"]
  /\ left = [m \in Message |-> [h \in Handling |-> 0]]
  /\ returned = [m \in Message |-> 0]
  /\ logs = {}
  /\ received = [m \in Sender \X Contacts |-> 0]
  /\ unlogged = {} /\ errors = 0 /\ breaks = 0

Fail == errors < MaxErrors /\ errors' = errors + 1 /\ UNCHANGED breaks
Written(m, s) == logs' = logs \cup {[message |-> m, status |-> s]}
Got(m) == received' = [received EXCEPT ![m] = @ + 1]

-----------------------------------------------------------------------------
(* The campaign, its job and the contacts.                                 *)

\* createCampaign: a draft, or a scheduled campaign whose job is added next.
CreateCampaign ==
  /\ status = "none"
  /\ \/ status' = "DRAFT" /\ adding' = FALSE
     \/ status' = "SCHEDULED" /\ adding' = TRUE
  /\ UNCHANGED <<marked, job, people, start, bulk, mail, logs, received, unlogged, faults>>

AddJob ==
  /\ adding
  /\ adding' = FALSE /\ job' = "waiting"
  /\ UNCHANGED <<row, people, start, bulk, mail, logs, received, unlogged, faults>>

\* A file with contacts is uploaded and its rows are stored one by one; a row
\* whose metadata is no JSON ends the import there.
Upload ==
  /\ file = {}
  /\ file' \in SUBSET Contacts /\ file' # {} /\ ~(file' \subseteq contacts)
  /\ UNCHANGED <<row, schedule, contacts, start, bulk, mail, logs, received, unlogged, faults>>

StoreRow ==
  /\ \E c \in file : file' = file \ {c} /\ contacts' = contacts \cup {c}
  /\ UNCHANGED <<row, schedule, start, bulk, mail, logs, received, unlogged, faults>>

RejectRow ==
  /\ file # {} /\ Fail
  /\ file' = {}
  /\ UNCHANGED <<row, schedule, contacts, start, bulk, mail, logs, received, unlogged>>

-----------------------------------------------------------------------------
(* startBulkCampaign, called by the send route or by the job.              *)

Become(s, stage) == start' = [start EXCEPT ![s].stage = stage]
\* The call returns, or dies; what it had read is forgotten.
Over(r) == [r EXCEPT !.stage = "done", !.list = {}, !.job = FALSE]
Finish(s) == start' = [start EXCEPT ![s] = Over(@)]
EndJob(s) == job' = IF start[s].job THEN "over" ELSE job

\* Mutant: a campaign in any status is started.
CarelessRead(s, byJob) ==
  start' = [start EXCEPT ![s] = [stage |-> "read", list |-> {}, job |-> byJob, late |-> marked]]

\* The campaign is read and its status checked; `late` remembers whether
\* somebody had set it to PROCESSING by then.
Read(s, byJob) ==
  start' = [start EXCEPT ![s] =
              [stage |-> IF status \in Startable THEN "read" ELSE "done",
               list |-> {}, job |-> byJob /\ status \in Startable, late |-> marked]]

SendCampaign(s) ==
  /\ start[s].stage = "none" /\ status # "none"
  /\ Read(s, FALSE)
  /\ UNCHANGED <<row, schedule, people, bulk, mail, logs, received, unlogged, faults>>

Process(s) ==
  /\ start[s].stage = "none" /\ job \in {"waiting", "again"}
  /\ Read(s, TRUE)
  /\ job' = IF status \notin Startable THEN "over"
            ELSE IF job = "waiting" THEN "active" ELSE "rerun"
  /\ UNCHANGED <<row, adding, people, bulk, mail, logs, received, unlogged, faults>>

\* All contacts of the tenant; none at all ends the start.
GetContacts(s) ==
  /\ start[s].stage = "read"
  /\ IF contacts = {} THEN Finish(s) /\ EndJob(s)
     ELSE /\ start' = [start EXCEPT ![s].stage = "listed", ![s].list = contacts]
          /\ UNCHANGED job
  /\ UNCHANGED <<row, adding, people, bulk, mail, logs, received, unlogged, faults>>

MarkProcessing(s) ==
  /\ start[s].stage = "listed"
  /\ status' = "PROCESSING" /\ marked' = TRUE
  /\ Become(s, "emit")
  /\ UNCHANGED <<schedule, people, bulk, mail, logs, received, unlogged, faults>>

\* One message per contact, without an await in between.
Emit(s) ==
  /\ start[s].stage = "emit"
  /\ place' = [m \in Message |-> IF m[1] = s /\ m[2] \in start[s].list THEN "memory" ELSE place[m]]
  /\ Finish(s) /\ EndJob(s)
  /\ UNCHANGED <<left, returned, row, adding, people, bulk, logs, received, unlogged, faults>>

-----------------------------------------------------------------------------
(* The broker and the handler of a message.                                *)

Move(m, p) == place' = [place EXCEPT ![m] = p]

\* The broker gets the message, or the call fails and nobody hears of it.
Publish(m) ==
  /\ place[m] = "memory"
  /\ \/ Move(m, "queue") /\ UNCHANGED faults
     \/ Move(m, "lost") /\ Fail
  /\ UNCHANGED <<left, returned, row, schedule, people, start, bulk, logs, received, unlogged>>

Deliver(m) ==
  /\ place[m] = "queue"
  /\ Move(m, "send")
  /\ UNCHANGED <<left, returned, logs, received, unlogged>>
  /\ UNCHANGED <<row, schedule, people, start, bulk, faults>>

\* The current handler of a message, or an old one, is at a stage ...
Stands(m, old, p) == IF old THEN left[m][p] > 0 ELSE place[m] = p

\* ... and goes on to the next.
Pass(m, old, p, q) ==
  /\ IF old THEN left' = [left EXCEPT ![m][p] = @ - 1, ![m][q] = @ + 1] /\ UNCHANGED place
            ELSE Move(m, q) /\ UNCHANGED left
  /\ UNCHANGED returned

\* sendMessage: the contact gets it and it is stored; or it is not sent; or it
\* is sent and the call fails all the same.
SendMessage(m, old) ==
  /\ Stands(m, old, "send")
  /\ \/ Pass(m, old, "send", "sent") /\ Got(m) /\ UNCHANGED faults
     \/ Pass(m, old, "send", "fail") /\ Fail /\ UNCHANGED received
     \/ Pass(m, old, "send", "fail") /\ Fail /\ Got(m)
  /\ UNCHANGED <<row, schedule, people, start, bulk, logs, unlogged>>

\* After a second the log, or the failure of it, is caught like one of sending.
LogSent(m, old) ==
  /\ Stands(m, old, "sent")
  /\ \/ Pass(m, old, "sent", "ack") /\ Written(m, "SENT") /\ UNCHANGED faults
     \/ Pass(m, old, "sent", "fail") /\ Fail /\ UNCHANGED logs
  /\ UNCHANGED <<row, schedule, people, start, bulk, received, unlogged>>

\* Mutant: what failed goes back to the queue.
RequeueLogFailed(m, old) ==
  /\ ~old /\ place[m] = "fail"
  /\ Move(m, "queue") /\ Written(m, "FAILED")
  /\ UNCHANGED <<left, returned, row, schedule, people, start, bulk, received, unlogged, faults>>

\* Mutant: when the second log fails, too, nobody acknowledges.
UnackedLogFailed(m, old) ==
  /\ Stands(m, old, "fail")
  /\ \/ Pass(m, old, "fail", "ack") /\ Written(m, "FAILED") /\ UNCHANGED <<unlogged, faults>>
     \/ ~old /\ Move(m, "unacked") /\ Fail /\ unlogged' = unlogged \cup {m}
        /\ UNCHANGED <<left, returned, logs>>
  /\ UNCHANGED <<row, schedule, people, start, bulk, received>>

\* The log of a failure; when that fails, too, there is none.
LogFailed(m, old) ==
  /\ Stands(m, old, "fail")
  /\ Pass(m, old, "fail", "ack")
  /\ \/ Written(m, "FAILED") /\ UNCHANGED <<unlogged, faults>>
     \/ Fail /\ unlogged' = unlogged \cup {m} /\ UNCHANGED logs
  /\ UNCHANGED <<row, schedule, people, start, bulk, received>>

\* finally: the message is acknowledged, however it went; on the channel of a
\* lost connection that throws, is swallowed and changes nothing at the broker.
Acknowledge(m, old) ==
  /\ Stands(m, old, "ack")
  /\ IF old THEN left' = [left EXCEPT ![m]["ack"] = @ - 1] /\ UNCHANGED place
            ELSE Move(m, "gone") /\ UNCHANGED left
  /\ UNCHANGED <<returned, row, schedule, people, start, bulk, logs, received, unlogged, faults>>

-----------------------------------------------------------------------------
(* sendBulkMessages: the whole campaign in one call, whatever its status.  *)

BulkTo(stage) == bulk' = [bulk EXCEPT !.stage = stage]
BulkTakes(c, stage) ==
  bulk' = [bulk EXCEPT !.stage = stage, !.todo = @ \ {c}, !.now = {c}]

BulkRead ==
  /\ bulk.stage = "none" /\ status # "none"
  /\ BulkTo("read")
  /\ UNCHANGED <<row, schedule, people, start, mail, logs, received, unlogged, faults>>

BulkContacts ==
  /\ bulk.stage = "read"
  /\ bulk' = IF contacts = {} THEN [bulk EXCEPT !.stage = "done"]
             ELSE [stage |-> "listed", list |-> contacts, todo |-> contacts, now |-> {}]
  /\ UNCHANGED <<row, schedule, people, start, mail, logs, received, unlogged, faults>>

BulkMark ==
  /\ bulk.stage = "listed"
  /\ status' = "PROCESSING" /\ marked' = TRUE
  /\ BulkTo("send")
  /\ UNCHANGED <<schedule, people, start, mail, logs, received, unlogged, faults>>

\* The next contact: sent and to be logged so, or failed.
BulkSend ==
  /\ bulk.stage = "send"
  /\ \E c \in bulk.todo :
       \/ BulkTakes(c, "sent") /\ Got(<<Bulk, c>>) /\ UNCHANGED faults
       \/ BulkTakes(c, "fail") /\ Fail /\ UNCHANGED received
       \/ BulkTakes(c, "fail") /\ Fail /\ Got(<<Bulk, c>>)
  /\ UNCHANGED <<row, schedule, people, start, mail, logs, unlogged>>

BulkLogSent ==
  /\ bulk.stage = "sent"
  /\ \E c \in bulk.now :
       \/ BulkTo("send") /\ Written(<<Bulk, c>>, "SENT") /\ UNCHANGED faults
       \/ BulkTo("fail") /\ Fail /\ UNCHANGED logs
  /\ UNCHANGED <<row, schedule, people, start, mail, received, unlogged>>

\* Mutant: the call goes on to the end when a failure cannot be logged.
LenientBulkLogFailed ==
  /\ bulk.stage = "fail"
  /\ \E c \in bulk.now :
       \/ BulkTo("send") /\ Written(<<Bulk, c>>, "FAILED") /\ UNCHANGED faults
       \/ BulkTo("send") /\ Fail /\ UNCHANGED logs
  /\ UNCHANGED <<row, schedule, people, start, mail, received, unlogged>>

\* A failure that cannot be logged ends the call, and PROCESSING stays.
BulkLogFailed ==
  /\ bulk.stage = "fail"
  /\ \E c \in bulk.now :
       \/ BulkTo("send") /\ Written(<<Bulk, c>>, "FAILED") /\ UNCHANGED faults
       \/ BulkTo("done") /\ Fail /\ UNCHANGED logs
  /\ UNCHANGED <<row, schedule, people, start, mail, received, unlogged>>

\* Mutant: a status the enumeration does not have.
MisnamedBulkComplete ==
  /\ bulk.stage = "send" /\ bulk.todo = {}
  /\ status' = "SENT"
  /\ BulkTo("done")
  /\ UNCHANGED <<marked, schedule, people, start, mail, logs, received, unlogged, faults>>

BulkComplete ==
  /\ bulk.stage = "send" /\ bulk.todo = {}
  /\ status' = "COMPLETED"
  /\ BulkTo("done")
  /\ UNCHANGED <<marked, schedule, people, start, mail, logs, received, unlogged, faults>>

-----------------------------------------------------------------------------
(* Deliveries that come back.                                              *)

Break == breaks < MaxBreaks /\ breaks' = breaks + 1

\* What was delivered and not acknowledged is in the queue again.
Return ==
  returned' = [m \in Message |-> IF place[m] \in Handling THEN returned[m] + 1 ELSE returned[m]]

\* The process dies: what it was doing is over, what it had not published is
\* lost, what it had not acknowledged comes back, and the job it was working on
\* is run once more.
Die ==
  /\ Break
  /\ adding' = FALSE /\ file' = {}
  /\ start' = [s \in Starts |-> IF start[s].stage = "none" THEN start[s]
                               ELSE Over(start[s])]
  /\ bulk' = IF bulk.stage = "none" THEN bulk ELSE [bulk EXCEPT !.stage = "done"]
  /\ place' = [m \in Message |-> IF place[m] \in Handling THEN "queue"
                                ELSE IF place[m] = "memory" THEN "lost" ELSE place[m]]
  /\ left' = [m \in Message |-> [h \in Handling |-> 0]]
  /\ Return
  /\ job' = CASE job = "active" -> "again" [] job = "rerun" -> "over" [] OTHER -> job
  /\ UNCHANGED <<row, contacts, logs, received, unlogged, errors>>

\* The connection to the broker is lost, and made again: what was not
\* acknowledged comes back, and its handlers go on as old ones.
LoseConnection ==
  /\ Break
  /\ place' = [m \in Message |-> IF place[m] \in Handling THEN "queue" ELSE place[m]]
  /\ left' = [m \in Message |->
               [h \in Handling |-> IF place[m] = h THEN left[m][h] + 1 ELSE left[m][h]]]
  /\ Return
  /\ UNCHANGED <<row, schedule, people, start, bulk, logs, received, unlogged, errors>>

-----------------------------------------------------------------------------

HandlerStep(m, old) ==
  SendMessage(m, old) \/ LogSent(m, old) \/ LogFailed(m, old) \/ Acknowledge(m, old)

Handle(m) == Deliver(m) \/ \E old \in BOOLEAN : HandlerStep(m, old)

StartStep(s) ==
  SendCampaign(s) \/ Process(s) \/ GetContacts(s) \/ MarkProcessing(s) \/ Emit(s)

BulkStep ==
  \/ BulkRead \/ BulkContacts \/ BulkMark \/ BulkSend
  \/ BulkLogSent \/ BulkLogFailed \/ BulkComplete

Next ==
  \/ CreateCampaign \/ AddJob \/ Upload \/ StoreRow \/ RejectRow
  \/ \E s \in Starts : StartStep(s)
  \/ \E m \in Message : Publish(m) \/ Handle(m)
  \/ BulkStep \/ Die \/ LoseConnection

\* The broker delivers what it has, to a client that connects again, and a handler
\* goes on while the process lives.
Spec == Init /\ [][Next]_vars /\ \A m \in Message : WF_vars(Handle(m))

-----------------------------------------------------------------------------
(* Type invariant.                                                         *)
TypeOK ==
  /\ status \in Status /\ marked \in BOOLEAN
  /\ adding \in BOOLEAN
  /\ job \in {"none", "waiting", "active", "again", "rerun", "over"}
  /\ contacts \subseteq Contacts /\ file \subseteq Contacts
  /\ start \in [Starts -> Start]
  /\ bulk \in BulkCall
  /\ place \in [Message -> Place]
  /\ left \in [Message -> [Handling -> Nat]] /\ returned \in [Message -> Nat]
  /\ logs \subseteq Log
  /\ received \in [Sender \X Contacts -> Nat]
  /\ unlogged \subseteq Message
  /\ errors \in 0 .. MaxErrors /\ breaks \in 0 .. MaxBreaks

-----------------------------------------------------------------------------
(* Safety, with overlapping starts, failures and deaths of the process.    *)

\* A campaign is emitted a second time only by a start that had read it before
\* anybody set PROCESSING: whoever comes later, a job that is run again after a
\* crash included, emits nothing.
LateStartsEmitNothing ==
  \A m \in Message : place[m] # "none" => ~start[m[1]].late

\* A contact gets a message at most once, and once more each time that this
\* message came back unacknowledged, whichever of its handlers are still at work;
\* from the bulk route, of which nothing comes back, at most once.
OnceAndOncePerReturn ==
  /\ \A m \in Message : received[m] <= 1 + returned[m]
  /\ \A c \in Contacts : received[<<Bulk, c>>] <= 1

\* What the logs say: SENT is written for what was received; a message that is
\* acknowledged has a log unless both attempts to write one failed; and a
\* campaign COMPLETED by the bulk route has one for every contact on its list.
LogsAreTrue ==
  /\ \A l \in logs : l.status = "SENT" => received[l.message] > 0
  /\ \A m \in Message :
       place[m] = "gone" => m \in unlogged \/ \E l \in logs : l.message = m
  /\ status = "COMPLETED" =>
       \A c \in bulk.list : \E l \in logs : l.message = <<Bulk, c>>

-----------------------------------------------------------------------------
(* Liveness.                                                               *)

\* What the broker has is sent, or fails, and is acknowledged in the end: no
\* message is in the queue or unacknowledged for ever.
QueuedIsHandled == \A m \in Message : []<>(place[m] \in {"none", "memory", "lost", "gone"})
=============================================================================
