-------------------------------- MODULE Inbox --------------------------------
(***************************************************************************)
(* The shared inbox of the dashboard (app/page.tsx) over what it talks to: *)
(* the history and conversation routes, the socket of WhatsappGateway, and *)
(* the route that sends a message.                                         *)
(*                                                                         *)
(* Every answer is a callback that sets the state of the page, whatever    *)
(* was selected meanwhile.  The handlers of a render see the selection of  *)
(* that render.  React renders a click, effects included, before the next  *)
(* event, and a selection made by an answer some time later.               *)
(*                                                                         *)
(* Messages are told apart by their chat and a number.  The screen is a    *)
(* set of them, so order and repetition are left out, and so are the       *)
(* totals of the conversation list.  createdAt is the place of a message   *)
(* in the collection: Mongoose sets it just before it inserts the message, *)
(* here that is one step.                                                  *)
(***************************************************************************)
EXTENDS Naturals, FiniteSets

CONSTANTS
  Chats,         \* phone numbers
  MaxMessages,   \* bound on the messages
  HistoryLimit,  \* how many messages a history holds; 20 in the code
  Sends,         \* messages the operator sends
  Slots,         \* history requests that may be under way at once
  Loads          \* conversation requests, each made at most once

ASSUME InboxAssumption == MaxMessages \in Nat /\ HistoryLimit \in Nat

VARIABLES
  emitted,    \* the messages the gateway has announced
  createdAt,  \* the messages collection: the place of each message, 0 if it has none
  events,     \* announcements on their way to the page
  online,     \* whether the socket is connected
  selected,   \* selectedChat
  rendered,   \* the selection of the last render, which all handlers see
  listed,     \* conversations
  loading,    \* until the first answer with the conversations nothing can be clicked
  shown,      \* the stored messages on the screen
  drafts,     \* the optimistic messages on the screen
  requests,   \* fetchHistory under way
  loads,      \* fetchConversations under way
  send,       \* what became of each message of the operator
  answered,   \* history: the chat whose history was set last since the selection
  asof,       \* history: what was stored of that chat when that history was read
  before,     \* history: what was announced of that chat before that history was set
  dropped     \* history: announcements that found the socket closed

server == <<emitted, createdAt, events, online, dropped>>
screen == <<shown, drafts, answered, asof, before>>
choice == <<selected, rendered>>
list == <<listed, loading, loads>>
vars == <<server, screen, choice, list, requests, send>>

Message == Chats \X (1 .. MaxMessages)
None == "none"
Selection == Chats \cup {None}
NoSend == "none"
Free == [stage |-> "free"]
Done == [stage |-> "done"]
Request == [stage : {"asked", "answered"}, chat : Selection, list : SUBSET Message,
            asof : SUBSET Message, for : Sends \cup {NoSend}]
Load == [stage : {"asked", "answered"}, list : SUBSET Chats, first : BOOLEAN]
SendStage == {"new", "posted", "refresh", "refreshing", "unrefreshed", "done", "removed"}
SendRecord == [stage : SendStage, chat : Selection, no : 0 .. MaxMessages]
Of(c, M) == {m \in M : m[1] = c}
Stored == {m \in Message : createdAt[m] # 0}

\* The page has just been opened: it connects the socket and asks for the
\* conversations.
Init ==
  /\ emitted = {} /\ createdAt = [m \in Message |-> 0] /\ events = {} /\ online = FALSE
  /\ selected = None /\ rendered = None
  /\ listed = {} /\ loading = TRUE /\ shown = {} /\ drafts = {}
  /\ requests = [r \in Slots |-> Free]
  /\ \E l \in Loads :
       loads = [k \in Loads |-> IF k = l THEN [stage |-> "asked", list |-> {}, first |-> TRUE]
                                         ELSE Free]
  /\ send = [s \in Sends |-> [stage |-> "new", chat |-> None, no |-> 0]]
  /\ answered = None /\ asof = {} /\ before = {} /\ dropped = {}

-----------------------------------------------------------------------------
(* The server.                                                             *)

\* Nobody has seen this message yet.
Fresh(m) == m \notin emitted \cup Stored /\ m[2] = Cardinality(emitted \cup Stored) + 1

\* A message is announced to whoever is connected.
Announce(m) ==
  /\ emitted' = emitted \cup {m}
  /\ IF online THEN events' = events \cup {m} /\ UNCHANGED dropped
     ELSE dropped' = dropped \cup {m} /\ UNCHANGED events
  /\ UNCHANGED online

Create(m) == createdAt' = [createdAt EXCEPT ![m] = Cardinality(Stored) + 1]

\* A customer's message is announced first ...
Incoming(m) ==
  /\ Fresh(m) /\ Announce(m)
  /\ UNCHANGED <<createdAt, screen, choice, list, requests, send>>

\* ... and stored later, unless something fails before.
Persist(m) ==
  /\ m \in emitted \ Stored /\ Create(m)
  /\ UNCHANGED <<emitted, events, online, dropped, screen, choice, list, requests, send>>

\* A message of the bot is sent and stored first.  If the collection refuses
\* it, as it does buttons and lists, the page never hears of it.
Outgoing(m) ==
  /\ Fresh(m) /\ Create(m)
  /\ UNCHANGED <<emitted, events, online, dropped, screen, choice, list, requests, send>>

\* A message of the operator likewise.  The route goes on when the page has
\* given up on it.
SendMessage(s) ==
  /\ send[s].stage \in {"posted", "removed"} /\ send[s].no = 0
  /\ \E m \in Of(send[s].chat, Message) :
       Fresh(m) /\ Create(m) /\ send' = [send EXCEPT ![s].no = m[2]]
  /\ UNCHANGED <<emitted, events, online, dropped, screen, choice, list, requests>>

\* Either is announced later, unless storing it fails after all (an answer of
\* the database that is lost) or the process dies: then it is never announced.
EmitOutgoing(m) ==
  /\ m \in Stored \ emitted /\ Announce(m)
  /\ UNCHANGED <<createdAt, screen, choice, list, requests, send>>

\* The messages of M that are newer than m, of its chat.
Newer(m, M) == {n \in Of(m[1], M) : createdAt[n] > createdAt[m]}

\* Mutant: the history holds the oldest messages.
OldestAnswerHistory(r) ==
  /\ requests[r].stage = "asked"
  /\ LET there == Of(requests[r].chat, Stored) IN
     requests' = [requests EXCEPT
       ![r].stage = "answered", ![r].asof = there,
       ![r].list = {m \in there : createdAt[m] <= HistoryLimit}]
  /\ UNCHANGED <<server, screen, choice, list, send>>

\* The answers: the newest messages of a chat, and all chats with a message.
AnswerHistory(r) ==
  /\ requests[r].stage = "asked"
  /\ LET there == Of(requests[r].chat, Stored) IN
     requests' = [requests EXCEPT
       ![r].stage = "answered", ![r].asof = there,
       ![r].list = {m \in there : Cardinality(Newer(m, there)) < HistoryLimit}]
  /\ UNCHANGED <<server, screen, choice, list, send>>

AnswerConversations(l) ==
  /\ loads[l].stage = "asked"
  /\ loads' = [loads EXCEPT ![l].stage = "answered", ![l].list = {m[1] : m \in Stored}]
  /\ UNCHANGED <<server, screen, choice, listed, loading, requests, send>>

\* The socket closes, with what is on it, and reconnects by itself.
Disconnect ==
  /\ online
  /\ online' = FALSE /\ events' = {} /\ dropped' = dropped \cup events
  /\ UNCHANGED <<emitted, createdAt, screen, choice, list, requests, send>>

Reconnect ==
  /\ ~online
  /\ online' = TRUE
  /\ UNCHANGED <<emitted, createdAt, events, dropped, screen, choice, list, requests, send>>

-----------------------------------------------------------------------------
(* The page: what is selected.                                             *)

\* fetchHistory(c), after the message s or for a new selection.
Ask(c, s) ==
  \E r \in Slots :
    /\ requests[r] = Free
    /\ requests' = [requests EXCEPT ![r] =
                      [stage |-> "asked", chat |-> c, list |-> {}, asof |-> {}, for |-> s]]

\* The effects of a changed selection: new listeners, and its history.
Effects(c) ==
  /\ rendered' = c /\ Ask(c, NoSend)
  /\ answered' = None /\ asof' = {} /\ before' = {}
  /\ UNCHANGED <<shown, drafts>>

Click(c) ==
  /\ ~loading /\ c \in listed /\ selected' = c
  /\ \/ c # rendered /\ Effects(c)
     \/ c = rendered /\ c # selected /\ UNCHANGED <<rendered, screen, requests>>
  /\ UNCHANGED <<server, list, send>>

Render ==
  /\ selected # rendered
  /\ Effects(selected)
  /\ UNCHANGED <<selected, server, list, send>>

\* The refresh button.
FetchConversations(l) ==
  /\ loads[l] = Free
  /\ loads' = [loads EXCEPT ![l] = [stage |-> "asked", list |-> {}, first |-> rendered = None]]
  /\ UNCHANGED <<server, screen, choice, listed, loading, requests, send>>

\* The list is set; if nothing was selected when it was asked for, its first is.
SetConversations(l) ==
  /\ loads[l].stage = "answered"
  /\ listed' = loads[l].list /\ loading' = FALSE
  /\ IF loads[l].first /\ loads[l].list # {} THEN selected' \in loads[l].list
     ELSE UNCHANGED selected
  /\ loads' = [loads EXCEPT ![l] = Done]
  /\ UNCHANGED <<rendered, server, screen, requests, send>>

ConversationsFail(l) ==
  /\ loads[l] \notin {Free, Done}
  /\ loading' = FALSE
  /\ loads' = [loads EXCEPT ![l] = Done]
  /\ UNCHANGED <<server, screen, choice, listed, requests, send>>

-----------------------------------------------------------------------------
(* The page: messages.                                                     *)

\* Mutant: a message of any chat is shown.
CarelessHandleNewMessage(m) ==
  /\ m \in events /\ events' = events \ {m}
  /\ shown' = shown \cup {m} /\ listed' = listed \cup {m[1]}
  /\ UNCHANGED <<emitted, createdAt, online, dropped, drafts, answered, asof, before>>
  /\ UNCHANGED <<choice, loading, loads, requests, send>>

\* An announcement: shown if its chat is selected, and its chat goes on the list.
HandleNewMessage(m) ==
  /\ m \in events /\ events' = events \ {m}
  /\ shown' = IF rendered = m[1] THEN shown \cup {m} ELSE shown
  /\ listed' = listed \cup {m[1]}
  /\ UNCHANGED <<emitted, createdAt, online, dropped, drafts, answered, asof, before>>
  /\ UNCHANGED <<choice, loading, loads, requests, send>>

SendTo(s, stage) == send' = [send EXCEPT ![s].stage = stage]

\* A history replaces what is on the screen, whatever is selected by now.
SetHistory(r) ==
  /\ requests[r].stage = "answered"
  /\ shown' = requests[r].list /\ drafts' = {}
  /\ answered' = requests[r].chat /\ asof' = requests[r].asof
  /\ before' = Of(requests[r].chat, emitted) \ events
  /\ IF requests[r].for # NoSend THEN SendTo(requests[r].for, "done") ELSE UNCHANGED send
  /\ requests' = [requests EXCEPT ![r] = Free]
  /\ UNCHANGED <<server, choice, list>>

\* A failed fetchHistory changes nothing.
HistoryFails(r) ==
  /\ requests[r] # Free
  /\ IF requests[r].for # NoSend THEN SendTo(requests[r].for, "unrefreshed") ELSE UNCHANGED send
  /\ requests' = [requests EXCEPT ![r] = Free]
  /\ UNCHANGED <<server, screen, choice, list>>

sending == \E s \in Sends : send[s].stage = "posted"

\* handleSend: shown at once, then posted, unless another one is being sent.
HandleSend(s) ==
  /\ send[s].stage = "new" /\ rendered # None /\ ~sending
  /\ drafts' = drafts \cup {s}
  /\ send' = [send EXCEPT ![s] = [stage |-> "posted", chat |-> rendered, no |-> 0]]
  /\ UNCHANGED <<server, shown, answered, asof, before, choice, list, requests>>

\* It went well: the history of that chat is fetched in 800 ms.
Confirm(s) ==
  /\ send[s].stage = "posted" /\ <<send[s].chat, send[s].no>> \in emitted
  /\ SendTo(s, "refresh")
  /\ UNCHANGED <<server, screen, choice, list, requests>>

\* The route failed, at whatever point, or its answer got lost: the message
\* is taken off the screen.
Remove(s) ==
  /\ send[s].stage = "posted" /\ SendTo(s, "removed")
  /\ drafts' = drafts \ {s}
  /\ UNCHANGED <<server, shown, answered, asof, before, choice, list, requests>>

Refresh(s) ==
  /\ send[s].stage = "refresh" /\ SendTo(s, "refreshing")
  /\ Ask(send[s].chat, s)
  /\ UNCHANGED <<server, screen, choice, list>>

-----------------------------------------------------------------------------

Serve(m) == Incoming(m) \/ Persist(m) \/ Outgoing(m) \/ EmitOutgoing(m)
Sending(s) == HandleSend(s) \/ SendMessage(s) \/ Confirm(s) \/ Remove(s) \/ Refresh(s)
Fetching(r) == AnswerHistory(r) \/ SetHistory(r) \/ HistoryFails(r)
Conversing(l) ==
  \/ FetchConversations(l) \/ AnswerConversations(l)
  \/ SetConversations(l) \/ ConversationsFail(l)

Next ==
  \/ \E m \in Message : Serve(m) \/ HandleNewMessage(m)
  \/ \E s \in Sends : Sending(s)
  \/ \E r \in Slots : Fetching(r)
  \/ \E l \in Loads : Conversing(l)
  \/ \E c \in Chats : Click(c)
  \/ Render \/ Disconnect \/ Reconnect

Spec == Init /\ [][Next]_vars

-----------------------------------------------------------------------------
(* Safety, with answers and events in any order.                           *)

Settled == rendered # None /\ answered = rendered /\ selected = rendered

\* The window shows what it says: once the history of the selected chat was
\* the last to be set, everything on the screen is of that chat; and an
\* optimistic message stays only until it is confirmed by a history, or taken
\* back, or the history that should confirm it failed.
WindowIsTrue ==
  /\ Settled => /\ \A m \in shown : m[1] = selected
                /\ \A s \in drafts : send[s].chat = selected
  /\ \A s \in drafts : send[s].stage \notin {"new", "done", "removed"}

\* The history that was set last could not hold m: m was not stored when it
\* was read, or a full history of newer messages of its chat was.
NotInHistory(m) ==
  m \notin asof \/ Cardinality(Newer(m, asof)) >= HistoryLimit

\* Its announcement could not show m: it has not come, found the socket
\* closed, or came before that history was set.
NotAnnounced(m) == m \notin emitted \/ m \in events \cup dropped \cup before

\* A message of the selected chat that somebody stored or announced is
\* missing from the window only if both ways to it failed: the history and
\* the announcement.
NothingElseIsMissed ==
  Settled => \A m \in Of(selected, emitted \cup Stored) \ shown :
               NotInHistory(m) /\ NotAnnounced(m)
=============================================================================
