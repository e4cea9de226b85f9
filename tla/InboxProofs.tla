----------------------------- MODULE InboxProofs -----------------------------
(***************************************************************************)
(* Theorems about Inbox, for any number of chats, messages, sends and      *)
(* history requests under way.                                             *)
(*                                                                         *)
(* The argument: what is on the screen is of the chat whose history was    *)
(* set last, and what has come since was shown because its chat is the     *)
(* rendered one; so once the two are the same the screen is of one chat.   *)
(* That history was the newest part of what was stored when it was read,   *)
(* whose order no later message changes; and an announcement that had not  *)
(* come when it was set is on its way, was dropped, or was shown.          *)
(***************************************************************************)
EXTENDS Inbox, FiniteSetTheorems, TLAPS

-----------------------------------------------------------------------------
(* The inductive invariant.                                                *)

\* The types the argument needs.
Typed ==
  /\ emitted \subseteq Message /\ events \subseteq Message
  /\ createdAt \in [Message -> Nat] /\ IsFiniteSet(Stored)
  /\ selected \in Selection /\ rendered \in Selection
  /\ listed \subseteq Chats /\ loads \in [Loads -> Load \cup {Free, Done}]
  /\ drafts \subseteq Sends
  /\ send \in [Sends -> SendRecord]
  /\ requests \in [Slots -> Request \cup {Free}]

\* The newest messages of M, up to the limit.
Newest(M) == {m \in M : Cardinality(Newer(m, M)) < HistoryLimit}

\* An answer is the newest part of what was stored of its chat.
IsNewest(q) ==
  q.stage = "answered" =>
    q.asof \subseteq Of(q.chat, Stored) /\ q.list = Newest(q.asof)

AnswersAreTheNewest == \A r \in Slots : IsNewest(requests[r])

\* The history of the rendered chat was the last one set.
Current == rendered # None /\ answered = rendered

\* The screen is of one chat.
OneChat ==
  /\ Current => /\ \A m \in shown : m[1] = rendered
                /\ \A s \in drafts : send[s].chat = rendered
  /\ \A s \in drafts : send[s].stage \notin {"new", "done", "removed"}

\* Why a message of that chat is not on it.
Accounted ==
  /\ asof \subseteq Stored
  /\ Current => \A m \in Of(rendered, emitted \cup Stored) \ shown :
                  NotInHistory(m) /\ NotAnnounced(m)

IInv == Typed /\ AnswersAreTheNewest /\ OneChat /\ Accounted

-----------------------------------------------------------------------------
(* What the parts do not depend on.                                        *)

\* A request that is under way is a record with its fields.
LEMMA RequestFields ==
  ASSUME Typed, NEW r \in Slots, requests[r] # Free
  PROVE  requests[r] \in Request
  BY DEF Typed

\* The stage of one send changes, and nothing else of it.
LEMMA SendMoves ==
  ASSUME Typed, NEW s \in Sends, NEW stage \in SendStage, SendTo(s, stage)
  PROVE  /\ send' \in [Sends -> SendRecord]
         /\ \A t \in Sends : send'[t].chat = send[t].chat
         /\ \A t \in Sends \ {s} : send'[t] = send[t]
         /\ send'[s].stage = stage
  <1>1. send \in [Sends -> SendRecord] /\ send' = [send EXCEPT ![s].stage = stage]
    BY DEF Typed, SendTo
  <1> QED
    BY <1>1 DEF SendRecord

\* Newer looks only at the places of the messages in the set.
LEMMA SameOrder ==
  ASSUME NEW M, \A k \in M : createdAt'[k] = createdAt[k]
  PROVE  /\ \A m \in M : Newer(m, M)' = Newer(m, M)
         /\ Newest(M)' = Newest(M)
  <1>1. ASSUME NEW m \in M PROVE Newer(m, M)' = Newer(m, M)
    BY DEF Newer, Of
  <1> QED
    BY <1>1 DEF Newest

\* Storing one more message moves none of the others.
LEMMA Creating ==
  ASSUME Typed, NEW m \in Message, m \notin Stored, Create(m)
  PROVE  /\ createdAt' \in [Message -> Nat] /\ IsFiniteSet(Stored')
         /\ Stored \subseteq Stored' /\ Stored' \subseteq Stored \cup {m}
         /\ \A k \in Stored : createdAt'[k] = createdAt[k]
  <1>1. createdAt \in [Message -> Nat] /\ IsFiniteSet(Stored)
    BY DEF Typed
  <1>2. PICK n \in Nat : n = Cardinality(Stored) + 1
    BY <1>1, FS_CardinalityType
  <1>3. createdAt' = [createdAt EXCEPT ![m] = n]
    BY <1>2 DEF Create
  <1>4. /\ createdAt' \in [Message -> Nat]
        /\ \A k \in Message \ {m} : createdAt'[k] = createdAt[k]
    BY <1>1, <1>3
  <1>5. \A k \in Stored : createdAt'[k] = createdAt[k]
    BY <1>4 DEF Stored
  <1>6. Stored \subseteq Stored' /\ Stored' \subseteq Stored \cup {m}
    BY <1>4 DEF Stored
  <1>7. IsFiniteSet(Stored \cup {m})
    BY <1>1, FS_AddElement
  <1>8. IsFiniteSet(Stored')
    BY <1>6, <1>7, FS_Subset
  <1> QED
    BY <1>4, <1>5, <1>6, <1>8

\* So every answer and the history on the screen keep their order.
LEMMA StoringKeepsOrder ==
  ASSUME IInv, NEW m \in Message, m \notin Stored, Create(m), UNCHANGED <<requests, asof>>
  PROVE  /\ AnswersAreTheNewest' /\ asof' \subseteq Stored'
         /\ \A k \in asof : Newer(k, asof)' = Newer(k, asof)
  <1>1. Stored \subseteq Stored' /\ \A k \in Stored : createdAt'[k] = createdAt[k]
    BY Creating DEF IInv
  <1>2. ASSUME NEW r \in Slots, requests[r].stage = "answered"
        PROVE  /\ requests[r].asof \subseteq Of(requests[r].chat, Stored')
               /\ requests[r].list = Newest(requests[r].asof)'
    <2>1. PICK M : M = requests[r].asof
      OBVIOUS
    <2>2. M \subseteq Of(requests[r].chat, Stored) /\ requests[r].list = Newest(M)
      BY <1>2, <2>1 DEF IInv, AnswersAreTheNewest, IsNewest
    <2>3. \A k \in M : createdAt'[k] = createdAt[k]
      BY <1>1, <2>2 DEF Of
    <2>4. Newest(M)' = Newest(M)
      BY <2>3, SameOrder
    <2>5. M' = M /\ M' = requests'[r].asof
      BY <2>1
    <2> QED
      BY <1>1, <2>1, <2>2, <2>4, <2>5 DEF Of
  <1>3. AnswersAreTheNewest'
    BY <1>2 DEF AnswersAreTheNewest, IsNewest
  <1>4. asof' \subseteq Stored'
    BY <1>1 DEF IInv, Accounted
  <1>5. PICK M : M = asof
    OBVIOUS
  <1>6. \A k \in M : Newer(k, M)' = Newer(k, M)
    BY <1>1, <1>5, SameOrder DEF IInv, Accounted
  <1> QED
    BY <1>3, <1>4, <1>5, <1>6

\* Announcing a message keeps account of it, if it is new or was stored.
LEMMA Announcing ==
  ASSUME IInv, NEW m \in Message, Announce(m), m \notin emitted,
         UNCHANGED <<createdAt, screen, choice>>
  PROVE  /\ emitted' = emitted \cup {m} /\ emitted' \subseteq Message /\ events' \subseteq Message
         /\ Accounted'
  <1>1. /\ emitted' = emitted \cup {m}
        /\ \/ events' = events \cup {m} /\ UNCHANGED dropped
           \/ dropped' = dropped \cup {m} /\ UNCHANGED events
    BY DEF Announce
  <1>2. /\ emitted' \subseteq Message /\ events' \subseteq Message /\ m \in events' \cup dropped'
        /\ events \cup dropped \subseteq events' \cup dropped'
        /\ events' \cup dropped' \subseteq events \cup dropped \cup {m}
    BY <1>1 DEF IInv, Typed
  <1>3. Stored' = Stored
    BY DEF Stored
  <1>4. \A k \in Message : NotInHistory(k)' <=> NotInHistory(k)
    BY DEF screen, NotInHistory, Newer, Of
  <1>5. Accounted'
    <2>1. asof' \subseteq Stored'
      BY <1>3 DEF screen, IInv, Accounted
    <2>2. ASSUME Current', NEW k \in Of(rendered, emitted' \cup Stored) \ shown
          PROVE  NotInHistory(k)' /\ NotAnnounced(k)'
      <3>1. Current
        BY <2>2 DEF screen, choice, Current
      <3>2. CASE k \in emitted \cup Stored
        <4>1. NotInHistory(k) /\ NotAnnounced(k) /\ k \in Message
          BY <2>2, <3>1, <3>2 DEF IInv, Typed, Accounted, Of, Stored
        <4> QED
          BY <1>1, <1>2, <1>4, <4>1 DEF screen, NotAnnounced
      <3>3. CASE k \notin emitted \cup Stored
        <4>1. k = m /\ k \notin asof
          BY <1>1, <2>2, <3>3 DEF IInv, Accounted, Of
        <4> QED
          BY <1>2, <4>1 DEF screen, NotInHistory, NotAnnounced
      <3> QED
        BY <3>2, <3>3
    <2> QED
      BY <1>3, <2>1, <2>2 DEF screen, choice, Accounted
  <1> QED
    BY <1>1, <1>2, <1>5

\* Storing a message keeps account of it, if it is new or was announced.
LEMMA Storing ==
  ASSUME IInv, NEW m \in Message, m \notin Stored, Create(m),
         UNCHANGED <<emitted, events, dropped, screen, choice, requests>>
  PROVE  AnswersAreTheNewest' /\ Accounted'
  <1>1. /\ AnswersAreTheNewest' /\ asof' \subseteq Stored'
        /\ \A k \in asof : Newer(k, asof)' = Newer(k, asof)
    BY StoringKeepsOrder DEF screen
  <1>2. Stored' \subseteq Stored \cup {m}
    BY Creating DEF IInv
  <1>3. ASSUME Current', NEW k \in Of(rendered, emitted \cup Stored') \ shown
        PROVE  NotInHistory(k)' /\ NotAnnounced(k)'
    <2>1. Current
      BY <1>3 DEF screen, choice, Current
    <2>2. NotAnnounced(k)' <=> NotAnnounced(k)
      BY DEF screen, NotAnnounced
    <2>3. CASE k \in emitted \cup Stored
      <3>1. NotInHistory(k) /\ NotAnnounced(k)
        BY <1>3, <2>1, <2>3 DEF IInv, Accounted, Of
      <3>2. NotInHistory(k)'
        <4>1. CASE k \notin asof
          BY <4>1 DEF screen, NotInHistory
        <4>2. CASE k \in asof
          BY <1>1, <3>1, <4>2 DEF screen, NotInHistory
        <4> QED
          BY <4>1, <4>2
      <3> QED
        BY <2>2, <3>1, <3>2
    <2>4. CASE k \notin emitted \cup Stored
      <3>1. k \notin asof
        BY <2>4 DEF IInv, Accounted
      <3> QED
        BY <2>4, <3>1 DEF screen, NotInHistory, NotAnnounced
    <2> QED
      BY <2>3, <2>4
  <1> QED
    BY <1>1, <1>3 DEF screen, choice, Accounted

\* When no message comes or goes, account is kept.
LEMMA NoNews ==
  ASSUME IInv, UNCHANGED <<server, rendered, shown, answered, asof, before>>
  PROVE  Accounted'
  <1>1. Stored' = Stored
    BY DEF server, Stored
  <1>2. \A k \in Message : NotInHistory(k)' <=> NotInHistory(k)
    BY DEF server, NotInHistory, Newer, Of
  <1>3. \A k \in Message : NotAnnounced(k)' <=> NotAnnounced(k)
    BY DEF server, NotAnnounced
  <1>4. Of(rendered, emitted \cup Stored) \subseteq Message
    BY DEF IInv, Typed, Of, Stored
  <1> QED
    BY <1>1, <1>2, <1>3, <1>4 DEF server, IInv, Accounted, Current

\* Answers that are left alone keep.
LEMMA SameAnswers ==
  ASSUME IInv, UNCHANGED <<createdAt, requests>>
  PROVE  AnswersAreTheNewest'
  BY DEF IInv, AnswersAreTheNewest, IsNewest, Newest, Newer, Of, Stored

\* Changing one request to a good one.
LEMMA Requesting ==
  ASSUME IInv, NEW r \in Slots, NEW q \in Request \cup {Free}, IsNewest(q),
         requests' = [requests EXCEPT ![r] = q], UNCHANGED createdAt
  PROVE  requests' \in [Slots -> Request \cup {Free}] /\ AnswersAreTheNewest'
  <1>1. /\ requests' \in [Slots -> Request \cup {Free}] /\ requests'[r] = q
        /\ \A p \in Slots \ {r} : requests'[p] = requests[p]
    BY DEF IInv, Typed
  <1>2. \A p \in Slots : IsNewest(requests'[p])
    BY <1>1 DEF IInv, AnswersAreTheNewest
  <1>3. ASSUME NEW x, IsNewest(x) PROVE IsNewest(x)'
    BY <1>3 DEF IsNewest, Newest, Newer, Of, Stored
  <1>4. ASSUME NEW p \in Slots PROVE IsNewest(requests[p])'
    <2>1. PICK x : x = requests'[p]
      OBVIOUS
    <2>2. IsNewest(x)'
      BY <1>2, <1>3, <2>1
    <2> QED
      BY <2>1, <2>2 DEF IsNewest
  <1> QED
    BY <1>1, <1>4 DEF AnswersAreTheNewest

\* Asking takes a free request.
LEMMA Asking ==
  ASSUME IInv, NEW c \in Selection, NEW s \in Sends \cup {NoSend}, Ask(c, s), UNCHANGED createdAt
  PROVE  requests' \in [Slots -> Request \cup {Free}] /\ AnswersAreTheNewest'
  <1>1. PICK q : q = [stage |-> "asked", chat |-> c, list |-> {}, asof |-> {}, for |-> s]
    OBVIOUS
  <1>2. q \in Request /\ IsNewest(q)
    BY <1>1 DEF Request, IsNewest
  <1>3. PICK r \in Slots : requests' = [requests EXCEPT ![r] = q]
    BY <1>1 DEF Ask
  <1> QED
    BY <1>2, <1>3, Requesting

-----------------------------------------------------------------------------
(* The initial state and the steps.                                        *)

LEMMA Initially == Init => IInv
  <1> SUFFICES ASSUME Init PROVE IInv
    OBVIOUS
  <1>1. /\ emitted = {} /\ createdAt = [m \in Message |-> 0] /\ events = {}
        /\ selected = None /\ rendered = None
        /\ listed = {} /\ shown = {} /\ drafts = {} /\ asof = {}
        /\ \A r \in Slots : requests[r] = Free
    BY DEF Init
  <1>2. Stored = {}
    BY <1>1 DEF Stored
  <1>3. IsFiniteSet(Stored)
    BY <1>2, FS_EmptySet
  <1>4. loads \in [Loads -> Load \cup {Free, Done}]
    BY DEF Init, Load
  <1>5. send \in [Sends -> SendRecord]
    <2>1. PICK q : q = [stage |-> "new", chat |-> None, no |-> 0]
      OBVIOUS
    <2>2. 0 \in 0 .. MaxMessages
      BY InboxAssumption
    <2>3. q \in SendRecord
      BY <2>1, <2>2 DEF SendRecord, SendStage, Selection
    <2>4. send = [s \in Sends |-> q]
      BY <2>1 DEF Init
    <2> QED
      BY <2>3, <2>4
  <1>6. requests \in [Slots -> Request \cup {Free}]
    BY DEF Init
  <1>7. Typed
    BY <1>1, <1>3, <1>4, <1>5, <1>6 DEF Typed, Selection
  <1>8. AnswersAreTheNewest
    BY <1>1 DEF AnswersAreTheNewest, IsNewest, Free
  <1> QED
    BY <1>1, <1>7, <1>8 DEF IInv, OneChat, Accounted, Current

LEMMA ServeKeeps ==
  ASSUME IInv, NEW m \in Message, Serve(m)
  PROVE  IInv'
  <1>1. UNCHANGED <<screen, choice, list, requests, send>>
    BY DEF Serve, Incoming, Persist, Outgoing, EmitOutgoing
  <1>2. OneChat'
    BY <1>1 DEF screen, choice, IInv, OneChat, Current
  <1>3. CASE Incoming(m) \/ EmitOutgoing(m)
    <2>1. Announce(m) /\ m \notin emitted /\ UNCHANGED createdAt
      BY <1>3 DEF Incoming, EmitOutgoing, Fresh
    <2>2. /\ emitted' = emitted \cup {m} /\ emitted' \subseteq Message /\ events' \subseteq Message
          /\ Accounted'
      BY <1>1, <2>1, Announcing
    <2>3. Typed'
      BY <1>1, <2>1, <2>2 DEF screen, choice, list, IInv, Typed, Stored
    <2> QED
      BY <1>1, <1>2, <2>1, <2>2, <2>3, SameAnswers DEF IInv
  <1>4. CASE Persist(m) \/ Outgoing(m)
    <2>1. m \notin Stored /\ Create(m) /\ UNCHANGED <<emitted, events, online, dropped>>
      BY <1>4 DEF Persist, Outgoing, Fresh
    <2>2. createdAt' \in [Message -> Nat] /\ IsFiniteSet(Stored')
      BY <2>1, Creating DEF IInv
    <2>3. Typed'
      BY <1>1, <2>1, <2>2 DEF screen, choice, list, IInv, Typed
    <2> QED
      BY <1>1, <1>2, <2>1, <2>3, Storing DEF IInv
  <1> QED
    BY <1>3, <1>4 DEF Serve

LEMMA HandleNewMessageKeeps ==
  ASSUME IInv, NEW m \in Message, HandleNewMessage(m)
  PROVE  IInv'
  <1>1. /\ m \in events /\ events' = events \ {m}
        /\ shown' = IF rendered = m[1] THEN shown \cup {m} ELSE shown
        /\ listed' = listed \cup {m[1]}
        /\ UNCHANGED <<emitted, createdAt, online, dropped, drafts, answered, asof, before>>
        /\ UNCHANGED <<choice, loading, loads, requests, send>>
    BY DEF HandleNewMessage
  <1>2. m[1] \in Chats
    BY DEF Message
  <1>3. Typed'
    BY <1>1, <1>2 DEF choice, IInv, Typed, Stored
  <1>4. AnswersAreTheNewest'
    BY <1>1, SameAnswers
  <1>5. OneChat'
    BY <1>1 DEF choice, IInv, OneChat, Current
  <1>6. Accounted'
    <2>1. Stored' = Stored
      BY <1>1 DEF Stored
    <2>2. ASSUME Current', NEW k \in Of(rendered, emitted \cup Stored) \ shown'
          PROVE  NotInHistory(k)' /\ NotAnnounced(k)'
      <3>1. Current /\ k \notin shown /\ k # m
        BY <1>1, <2>2 DEF choice, Current, Of
      <3>2. NotInHistory(k) /\ NotAnnounced(k)
        BY <2>2, <3>1 DEF IInv, Accounted
      <3> QED
        BY <1>1, <3>1, <3>2 DEF NotInHistory, NotAnnounced, Newer, Of
    <2> QED
      BY <1>1, <2>1, <2>2 DEF choice, IInv, Accounted
  <1> QED
    BY <1>3, <1>4, <1>5, <1>6 DEF IInv

LEMMA SendingKeeps ==
  ASSUME IInv, NEW s \in Sends, Sending(s)
  PROVE  IInv'
  <1>1. CASE HandleSend(s)
    <2>1. PICK q : q = [stage |-> "posted", chat |-> rendered, no |-> 0]
      OBVIOUS
    <2>2. 0 \in 0 .. MaxMessages
      BY InboxAssumption
    <2>3. q \in SendRecord /\ q.stage = "posted" /\ q.chat = rendered
      BY <2>1, <2>2 DEF IInv, Typed, SendRecord, SendStage
    <2>4. /\ drafts' = drafts \cup {s} /\ send' = [send EXCEPT ![s] = q]
          /\ UNCHANGED <<server, shown, answered, asof, before, choice, list, requests>>
      BY <1>1, <2>1 DEF HandleSend
    <2>5. /\ send' \in [Sends -> SendRecord] /\ send'[s] = q
          /\ \A t \in Sends \ {s} : send'[t] = send[t]
      BY <2>3, <2>4 DEF IInv, Typed
    <2>6. Typed'
      BY <2>4, <2>5 DEF server, choice, list, IInv, Typed, Stored
    <2>7. OneChat'
      BY <2>3, <2>4, <2>5 DEF choice, IInv, Typed, OneChat, Current
    <2>8. Accounted' /\ AnswersAreTheNewest'
      BY <2>4, NoNews, SameAnswers DEF server, choice
    <2> QED
      BY <2>6, <2>7, <2>8 DEF IInv
  <1>2. CASE SendMessage(s)
    <2>1. PICK m \in Message : Fresh(m) /\ Create(m) /\ send' = [send EXCEPT ![s].no = m[2]]
      BY <1>2 DEF SendMessage, Of
    <2>2. UNCHANGED <<emitted, events, online, dropped, screen, choice, list, requests>>
      BY <1>2 DEF SendMessage
    <2>3. m \notin Stored
      BY <2>1 DEF Fresh
    <2>4. createdAt' \in [Message -> Nat] /\ IsFiniteSet(Stored')
      BY <2>1, <2>3, Creating DEF IInv
    <2>5. m[2] \in 0 .. MaxMessages
      BY InboxAssumption DEF Message
    <2>6. /\ send' \in [Sends -> SendRecord]
          /\ \A t \in Sends : send'[t].chat = send[t].chat /\ send'[t].stage = send[t].stage
      BY <2>1, <2>5 DEF IInv, Typed, SendRecord
    <2>7. Typed'
      BY <2>2, <2>4, <2>6 DEF screen, choice, list, IInv, Typed
    <2>8. OneChat'
      BY <2>2, <2>6 DEF screen, choice, IInv, Typed, OneChat, Current
    <2>9. AnswersAreTheNewest' /\ Accounted'
      BY <2>1, <2>2, <2>3, Storing
    <2> QED
      BY <2>7, <2>8, <2>9 DEF IInv
  <1>3. CASE Confirm(s) \/ Remove(s) \/ Refresh(s)
    <2>1. UNCHANGED <<server, shown, answered, asof, before, choice, list>>
      BY <1>3 DEF Confirm, Remove, Refresh, screen
    <2>2. PICK stage \in {"refresh", "removed", "refreshing"} :
            /\ SendTo(s, stage)
            /\ drafts' = IF stage = "removed" THEN drafts \ {s} ELSE drafts
      BY <1>3 DEF Confirm, Remove, Refresh, screen
    <2>3. stage \in SendStage
      BY DEF SendStage
    <2>4. /\ send' \in [Sends -> SendRecord]
          /\ \A t \in Sends : send'[t].chat = send[t].chat
          /\ \A t \in Sends \ {s} : send'[t] = send[t]
          /\ send'[s].stage = stage
      BY <2>2, <2>3, SendMoves DEF IInv
    <2>5. requests' \in [Slots -> Request \cup {Free}] /\ AnswersAreTheNewest'
      <3>1. CASE UNCHANGED requests
        <4>1. AnswersAreTheNewest'
          BY <2>1, <3>1, SameAnswers DEF server
        <4> QED
          BY <3>1, <4>1 DEF IInv, Typed
      <3>2. CASE Refresh(s)
        <4>1. Ask(send[s].chat, s) /\ send[s].chat \in Selection
          BY <3>2 DEF Refresh, IInv, Typed, SendRecord
        <4>2. PICK c \in Selection : c = send[s].chat
          BY <4>1
        <4>3. Ask(c, s)
          BY <4>1, <4>2
        <4> QED
          BY <2>1, <4>3, Asking DEF server
      <3> QED
        BY <1>3, <3>1, <3>2 DEF Confirm, Remove
    <2>6. Typed'
      BY <2>1, <2>2, <2>4, <2>5 DEF server, choice, list, IInv, Typed, Stored
    <2>7. OneChat'
      BY <2>1, <2>2, <2>4 DEF choice, IInv, Typed, OneChat, Current
    <2>8. Accounted'
      BY <2>1, NoNews DEF choice
    <2> QED
      BY <2>5, <2>6, <2>7, <2>8 DEF IInv
  <1> QED
    BY <1>1, <1>2, <1>3 DEF Sending

LEMMA AnswerHistoryKeeps ==
  ASSUME IInv, NEW r \in Slots, AnswerHistory(r)
  PROVE  IInv'
  <1>1. /\ requests[r].stage = "asked" /\ requests[r] # Free
        /\ UNCHANGED <<server, screen, choice, list, send>>
    BY DEF AnswerHistory, Free
  <1>2. requests[r] \in Request
    BY <1>1, RequestFields DEF IInv
  <1>3. PICK there : there = Of(requests[r].chat, Stored)
    OBVIOUS
  <1>4. there \subseteq Message /\ Newest(there) \subseteq Message
    BY <1>3 DEF Of, Stored, Newest
  <1>5. PICK q : q = [requests[r] EXCEPT !.stage = "answered", !.asof = there,
                                         !.list = Newest(there)]
    OBVIOUS
  <1>6. /\ q \in Request /\ q.asof = there /\ q.list = Newest(there)
        /\ q.chat = requests[r].chat
    BY <1>2, <1>4, <1>5 DEF Request
  <1>7. IsNewest(q)
    BY <1>3, <1>6 DEF IsNewest
  <1>8. requests' = [requests EXCEPT ![r] = q]
    BY <1>3, <1>5 DEF AnswerHistory, Newest, IInv, Typed
  <1>9. requests' \in [Slots -> Request \cup {Free}] /\ AnswersAreTheNewest'
    BY <1>1, <1>6, <1>7, <1>8, Requesting DEF server
  <1>10. Typed'
    BY <1>1, <1>9 DEF server, screen, choice, list, IInv, Typed, Stored
  <1>11. OneChat' /\ Accounted'
    BY <1>1, NoNews DEF screen, choice, IInv, OneChat, Current
  <1> QED
    BY <1>9, <1>10, <1>11 DEF IInv

\* A history that is set holds what is not excused.
LEMMA SetHistoryAccounts ==
  ASSUME IInv, NEW r \in Slots, SetHistory(r)
  PROVE  OneChat' /\ Accounted'
  <1>1. /\ requests[r].stage = "answered"
        /\ shown' = requests[r].list /\ drafts' = {}
        /\ answered' = requests[r].chat /\ asof' = requests[r].asof
        /\ before' = Of(requests[r].chat, emitted) \ events
        /\ UNCHANGED <<server, choice, list>>
    BY DEF SetHistory
  <1>2. requests[r].asof \subseteq Of(requests[r].chat, Stored)
        /\ requests[r].list = Newest(requests[r].asof)
    BY <1>1 DEF IInv, AnswersAreTheNewest, IsNewest
  <1>3. OneChat'
    BY <1>1, <1>2 DEF OneChat, Current, Newest, Of
  <1>4. Stored' = Stored /\ asof' \subseteq Stored
    BY <1>1, <1>2 DEF server, Stored, Of
  <1>5. ASSUME Current', NEW k \in Of(rendered, emitted \cup Stored) \ shown'
        PROVE  NotInHistory(k)' /\ NotAnnounced(k)'
    <2>1. rendered = requests[r].chat
      BY <1>1, <1>5 DEF choice, Current
    <2>2. k \in asof' => ~(Cardinality(Newer(k, requests[r].asof)) < HistoryLimit)
      BY <1>1, <1>2, <1>5 DEF Newest
    <2>3. Cardinality(Newer(k, requests[r].asof)) \in Nat
      <3>1. Newer(k, requests[r].asof) \subseteq Stored
        BY <1>2 DEF Newer, Of
      <3>2. IsFiniteSet(Newer(k, requests[r].asof))
        BY <3>1, FS_Subset DEF IInv, Typed
      <3> QED
        BY <3>2, FS_CardinalityType
    <2>4. PICK x \in Nat : x = Cardinality(Newer(k, requests[r].asof))
      BY <2>3
    <2>5. Newer(k, asof)' = Newer(k, requests[r].asof)
      BY <1>1 DEF server, Newer, Of
    <2>6. NotInHistory(k)'
      <3>1. k \in asof' => x >= HistoryLimit
        BY <2>2, <2>4, InboxAssumption
      <3> QED
        BY <2>4, <2>5, <3>1 DEF NotInHistory
    <2>7. NotAnnounced(k)'
      BY <1>1, <1>5, <2>1 DEF server, NotAnnounced, Of
    <2> QED
      BY <2>6, <2>7
  <1> QED
    BY <1>1, <1>3, <1>4, <1>5 DEF server, choice, Accounted

LEMMA FetchingKeeps ==
  ASSUME IInv, NEW r \in Slots, Fetching(r)
  PROVE  IInv'
  <1>1. CASE AnswerHistory(r)
    BY <1>1, AnswerHistoryKeeps
  <1>2. CASE SetHistory(r) \/ HistoryFails(r)
    <2>1. /\ requests[r] # Free /\ requests' = [requests EXCEPT ![r] = Free]
          /\ UNCHANGED <<server, choice, list>>
      BY <1>2 DEF SetHistory, HistoryFails, Free
    <2>2. requests[r] \in Request
      BY <2>1, RequestFields DEF IInv
    <2>3. IsNewest(Free)
      BY DEF IsNewest, Free
    <2>4. requests' \in [Slots -> Request \cup {Free}] /\ AnswersAreTheNewest'
      BY <2>1, <2>3, Requesting DEF server
    <2>5. /\ send' \in [Sends -> SendRecord]
          /\ \A t \in Sends : send'[t].chat = send[t].chat
          /\ \A t \in Sends : send'[t].stage \in {send[t].stage, "done", "unrefreshed"}
          /\ HistoryFails(r) => \A t \in Sends : send'[t].stage \in {send[t].stage, "unrefreshed"}
      <3>1. CASE UNCHANGED send
        BY <3>1 DEF IInv, Typed
      <3>2. CASE requests[r].for # NoSend
        <4>1. requests[r].for \in Sends
          BY <2>2, <3>2 DEF Request
        <4>2. PICK s \in Sends : s = requests[r].for
          BY <4>1
        <4>3. PICK stage \in {"done", "unrefreshed"} :
                SendTo(s, stage) /\ (HistoryFails(r) => stage = "unrefreshed")
          <5>1. CASE HistoryFails(r)
            BY <3>2, <4>2, <5>1 DEF HistoryFails
          <5>2. CASE SetHistory(r) /\ ~HistoryFails(r)
            BY <3>2, <4>2, <5>2 DEF SetHistory
          <5> QED
            BY <1>2, <5>1, <5>2
        <4>4. stage \in SendStage
          BY DEF SendStage
        <4> QED
          BY <4>3, <4>4, SendMoves DEF IInv
      <3> QED
        BY <1>2, <3>1, <3>2 DEF SetHistory, HistoryFails
    <2>6. drafts' \subseteq drafts
      BY <1>2 DEF SetHistory, HistoryFails, screen
    <2>7. Typed'
      BY <2>1, <2>4, <2>5, <2>6 DEF server, choice, list, IInv, Typed, Stored
    <2>8. OneChat' /\ Accounted'
      <3>1. CASE SetHistory(r)
        BY <3>1, SetHistoryAccounts
      <3>2. CASE HistoryFails(r)
        <4>1. UNCHANGED screen
          BY <3>2 DEF HistoryFails
        <4>2. OneChat'
          BY <2>1, <2>5, <3>2, <4>1 DEF screen, choice, IInv, Typed, OneChat, Current
        <4>3. Accounted'
          BY <2>1, <4>1, NoNews DEF screen, choice
        <4> QED
          BY <4>2, <4>3
      <3> QED
        BY <1>2, <3>1, <3>2
    <2> QED
      BY <2>4, <2>7, <2>8 DEF IInv
  <1> QED
    BY <1>1, <1>2 DEF Fetching

\* Clicks and renders.
LEMMA SelectingKeeps ==
  ASSUME IInv, Render \/ \E c \in Chats : Click(c)
  PROVE  IInv'
  <1>1. /\ UNCHANGED <<server, list, send>>
        /\ selected' \in Selection
        /\ drafts' = drafts
    BY DEF Render, Click, Effects, screen, IInv, Typed, Selection
  <1>2. CASE UNCHANGED <<rendered, screen, requests>>
    <2>1. Typed'
      BY <1>1, <1>2 DEF server, list, IInv, Typed, Stored
    <2>2. OneChat'
      BY <1>1, <1>2 DEF screen, IInv, OneChat, Current
    <2>3. AnswersAreTheNewest' /\ Accounted'
      BY <1>1, <1>2, NoNews, SameAnswers DEF server, screen
    <2> QED
      BY <2>1, <2>2, <2>3 DEF IInv
  <1>3. CASE \E c \in Selection : Effects(c)
    <2>1. PICK c \in Selection : Effects(c)
      BY <1>3
    <2>2. OneChat' /\ Accounted'
      <3>1. \A s \in drafts' : send'[s].stage \notin {"new", "done", "removed"}
        BY <1>1 DEF IInv, OneChat
      <3>2. ~Current' /\ asof' = {}
        BY <2>1 DEF Effects, Current
      <3> QED
        BY <3>1, <3>2 DEF OneChat, Accounted
    <2>3. requests' \in [Slots -> Request \cup {Free}] /\ AnswersAreTheNewest'
      BY <1>1, <2>1, Asking DEF server, Effects
    <2>4. rendered' \in Selection
      BY <2>1 DEF Effects
    <2>5. Typed'
      BY <1>1, <2>3, <2>4 DEF server, list, IInv, Typed, Stored
    <2> QED
      BY <2>2, <2>3, <2>5 DEF IInv
  <1>4. UNCHANGED <<rendered, screen, requests>> \/ \E c \in Selection : Effects(c)
    BY DEF Render, Click, IInv, Typed, Selection
  <1> QED
    BY <1>2, <1>3, <1>4

\* The conversation list.
LEMMA ConversingKeeps ==
  ASSUME IInv, NEW l \in Loads, Conversing(l)
  PROVE  IInv'
  <1>1. UNCHANGED <<rendered, server, screen, requests, send>>
    BY DEF Conversing, FetchConversations, AnswerConversations, SetConversations, ConversationsFail,
           choice
  <1>2. loads \in [Loads -> Load \cup {Free, Done}]
    BY DEF IInv, Typed
  <1>3. loads' \in [Loads -> Load \cup {Free, Done}]
    <2>1. {m[1] : m \in Stored} \subseteq Chats
      BY DEF Stored, Message
    <2>2. CASE FetchConversations(l)
      <3>1. PICK q : q = [stage |-> "asked", list |-> {}, first |-> rendered = None]
        OBVIOUS
      <3>2. q \in Load
        BY <3>1 DEF Load
      <3> QED
        BY <1>2, <2>2, <3>1, <3>2 DEF FetchConversations
    <2>3. CASE AnswerConversations(l)
      <3>1. loads[l] \in Load
        BY <1>2, <2>3 DEF AnswerConversations, Free, Done
      <3>2. PICK q : q = [loads[l] EXCEPT !.stage = "answered", !.list = {m[1] : m \in Stored}]
        OBVIOUS
      <3>3. q \in Load
        BY <2>1, <3>1, <3>2 DEF Load
      <3>4. loads' = [loads EXCEPT ![l] = q]
        BY <1>2, <2>3, <3>2 DEF AnswerConversations
      <3> QED
        BY <1>2, <3>3, <3>4
    <2>4. CASE SetConversations(l) \/ ConversationsFail(l)
      BY <1>2, <2>4 DEF SetConversations, ConversationsFail
    <2> QED
      BY <2>2, <2>3, <2>4 DEF Conversing
  <1>4. selected' \in Selection /\ listed' \subseteq Chats
    <2>1. CASE UNCHANGED <<selected, listed>>
      BY <2>1 DEF IInv, Typed
    <2>2. CASE SetConversations(l)
      <3>1. loads[l] \in Load
        BY <1>2, <2>2 DEF SetConversations, Free, Done
      <3>2. loads[l].list \subseteq Chats
        BY <3>1 DEF Load
      <3> QED
        BY <2>2, <3>2 DEF SetConversations, IInv, Typed, Selection
    <2> QED
      BY <2>1, <2>2 DEF Conversing, FetchConversations, AnswerConversations, ConversationsFail, choice
  <1>5. Typed'
    BY <1>1, <1>3, <1>4 DEF server, screen, IInv, Typed, Stored
  <1>6. OneChat'
    BY <1>1 DEF screen, IInv, OneChat, Current
  <1>7. AnswersAreTheNewest' /\ Accounted'
    BY <1>1, NoNews, SameAnswers DEF server, screen
  <1> QED
    BY <1>5, <1>6, <1>7 DEF IInv

LEMMA SocketKeeps ==
  ASSUME IInv, Disconnect \/ Reconnect
  PROVE  IInv'
  <1>1. /\ UNCHANGED <<emitted, createdAt, screen, choice, list, requests, send>>
        /\ events' \subseteq events /\ events \cup dropped \subseteq events' \cup dropped'
    BY DEF Disconnect, Reconnect
  <1>2. Typed'
    BY <1>1 DEF screen, choice, list, IInv, Typed, Stored
  <1>3. OneChat'
    BY <1>1 DEF screen, choice, IInv, OneChat, Current
  <1>4. AnswersAreTheNewest'
    BY <1>1, SameAnswers
  <1>5. Accounted'
    <2>1. Stored' = Stored
      BY <1>1 DEF Stored
    <2>2. ASSUME Current, NEW k \in Of(rendered, emitted \cup Stored) \ shown
          PROVE  NotInHistory(k)' /\ NotAnnounced(k)'
      <3>1. NotInHistory(k) /\ NotAnnounced(k)
        BY <2>2 DEF IInv, Accounted
      <3> QED
        BY <1>1, <3>1 DEF screen, NotInHistory, NotAnnounced, Newer, Of
    <2> QED
      BY <1>1, <2>1, <2>2 DEF screen, choice, IInv, Accounted, Current
  <1> QED
    BY <1>2, <1>3, <1>4, <1>5 DEF IInv

LEMMA NextKeeps ==
  ASSUME IInv, [Next]_vars
  PROVE  IInv'
  <1>1. CASE UNCHANGED vars
    <2>1. Typed'
      BY <1>1 DEF vars, server, screen, choice, list, IInv, Typed, Stored
    <2>2. OneChat'
      BY <1>1 DEF vars, screen, choice, IInv, OneChat, Current
    <2>3. AnswersAreTheNewest' /\ Accounted'
      BY <1>1, NoNews, SameAnswers DEF vars, server, screen, choice
    <2> QED
      BY <2>1, <2>2, <2>3 DEF IInv
  <1> QED
    BY <1>1, ServeKeeps, HandleNewMessageKeeps, SendingKeeps, FetchingKeeps, SelectingKeeps,
       ConversingKeeps, SocketKeeps DEF Next

-----------------------------------------------------------------------------
(* The theorems.                                                           *)

\* The screen and the account of what is missing are in order in every
\* reachable state.
THEOREM Invariance == Spec => []IInv
  <1>1. Init => IInv
    BY Initially
  <1>2. IInv /\ [Next]_vars => IInv'
    BY NextKeeps
  <1> QED
    BY <1>1, <1>2, PTL DEF Spec

\* Once the history of the selected chat was the last one set, the window shows
\* that chat only, and no draft stays that was confirmed or taken back.
THEOREM NoOtherChatsMessages == Spec => []WindowIsTrue
  <1>1. IInv => WindowIsTrue
    BY DEF IInv, OneChat, Current, Settled, WindowIsTrue
  <1> QED
    BY Invariance, <1>1, PTL

\* A message of the selected chat that was stored or announced is missing from
\* the window only if the history could not hold it and its announcement
\* could not show it.
THEOREM MissedForAReason == Spec => []NothingElseIsMissed
  <1>1. IInv => NothingElseIsMissed
    BY DEF IInv, Accounted, Current, Settled, NothingElseIsMissed
  <1> QED
    BY Invariance, <1>1, PTL
=============================================================================
