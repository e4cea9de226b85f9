----------------------------- MODULE Connection -----------------------------
(***************************************************************************)
(* The one connection to WhatsApp that BaileysClient keeps: connect, the   *)
(* events of the socket, the timers that reconnect, the session files, the *)
(* sends that race a timeout, and the status WhatsappGateway shows.        *)
(*                                                                         *)
(* The server, the phone that scans a QR code and the supervisor that      *)
(* restarts a dead process surround it.  An exception out of connect, be   *)
(* it called at start-up or by a timer, is handled by nobody and ends the  *)
(* process.  A handler of `connection.update` runs without giving way but  *)
(* for microtasks and is one step; so is the part of connect between two   *)
(* awaits.                                                                 *)
(***************************************************************************)
EXTENDS Naturals

CONSTANTS
  MaxReconnectAttempts,   \* maxReconnectAttempts
  Texts,                  \* sends of text, images or documents: raced against a timeout
  Buttons,                \* sends of buttons or lists: not raced
  MaxErrors,              \* bound on the exceptions and deaths of the process
  MaxCloses               \* bound on the closes of the socket

ASSUME ConnectionAssumption ==
  /\ MaxReconnectAttempts \in Nat
  /\ Texts \cap Buttons = {}
  /\ MaxErrors \in Nat /\ MaxCloses \in Nat

VARIABLES
  alive,              \* whether the process runs
  sock,               \* this.sock: null, not yet open, open or closed by the other side
  isConnected,
  connecting,         \* where connect is; isConnecting while it is anywhere
  reconnectAttempts,
  qrCode,             \* whether a QR code is kept
  timers,             \* the pending calls of connect
  latestStatus,       \* what the gateway tells the dashboards
  session,            \* the session files
  send,               \* what became of each send
  delivered,          \* history: the sends that reached the server
  lastClose,          \* history: why the socket was closed last
  failures,           \* history: failed connections in a row, counted as far as it matters
  errors,             \* how many exceptions and deaths there were
  closes              \* how many closes there were

client == <<sock, isConnected, connecting, reconnectAttempts, qrCode, timers>>
sends == <<send, delivered>>
past == <<lastClose, failures>>
bounds == <<errors, closes>>
vars == <<alive, client, latestStatus, session, sends, past, bounds>>

Send == Texts \cup Buttons
Connected == [connected |-> TRUE, status |-> "connected"]
NotConnected(s) == [connected |-> FALSE, status |-> s]
Status == {NotConnected(s) : s \in {"initializing", "reconnecting", "failed", "logged_out"}}
            \cup {Connected}
Live == {"made", "open"}
isConnecting == connecting # "no"

Fresh ==
  /\ sock' = "null" /\ isConnected' = FALSE /\ connecting' = "no"
  /\ reconnectAttempts' = 0 /\ qrCode' = FALSE /\ timers' = 0

\* A process that has just begun calls connect in onModuleInit.
Init ==
  /\ alive = TRUE
  /\ sock = "null" /\ isConnected = FALSE /\ connecting = "version"
  /\ reconnectAttempts = 0 /\ qrCode = FALSE /\ timers = 0
  /\ latestStatus = NotConnected("initializing")
  /\ session \in {"none", "paired"}
  /\ send = [s \in Send |-> "new"] /\ delivered = {}
  /\ lastClose = "none" /\ failures = 0
  /\ errors = 0 /\ closes = 0

-----------------------------------------------------------------------------
(* connect.                                                                *)

\* A timer calls connect, which does nothing if it is under way or done.
Connect ==
  /\ alive /\ timers > 0
  /\ timers' = timers - 1
  /\ connecting' = IF isConnecting \/ isConnected THEN connecting ELSE "version"
  /\ UNCHANGED <<alive, sock, isConnected, reconnectAttempts, qrCode>>
  /\ UNCHANGED <<latestStatus, session, sends, past, bounds>>

\* The live version of WhatsApp Web, or else the bundled one.
FetchVersion ==
  /\ alive
  /\ \/ connecting = "version" /\ connecting' \in {"fallback", "auth"}
     \/ connecting = "fallback" /\ connecting' = "auth"
  /\ UNCHANGED <<alive, sock, isConnected, reconnectAttempts, qrCode, timers>>
  /\ UNCHANGED <<latestStatus, session, sends, past, bounds>>

\* The auth state is loaded, or created in an empty directory; then the socket is made.
MakeSocket ==
  /\ alive /\ connecting = "auth"
  /\ session' = IF session = "none" THEN "unpaired" ELSE session
  /\ sock' = "made" /\ connecting' = "no"
  /\ UNCHANGED <<alive, isConnected, reconnectAttempts, qrCode, timers>>
  /\ UNCHANGED <<latestStatus, sends, past, bounds>>

Dies ==
  /\ alive' = FALSE
  /\ Fresh
  /\ send' = [s \in Send |-> IF send[s] = "waiting" THEN "failed" ELSE send[s]]
  /\ latestStatus' = NotConnected("initializing")
  /\ errors < MaxErrors /\ errors' = errors + 1
  /\ UNCHANGED <<session, delivered, past, closes>>

\* connect throws into onModuleInit or into its timer.
ConnectThrows == alive /\ connecting \in {"fallback", "auth"} /\ Dies

Crash == alive /\ Dies

\* The supervisor starts the process again, with the session files it finds.
Restart ==
  /\ ~alive
  /\ alive' = TRUE /\ connecting' = "version"
  /\ UNCHANGED <<sock, isConnected, reconnectAttempts, qrCode, timers>>
  /\ UNCHANGED <<latestStatus, session, sends, past, bounds>>

-----------------------------------------------------------------------------
(* connection.update.                                                      *)

\* Mutant: the attempts are not counted anew.
ForgetfulQr ==
  /\ alive /\ sock = "made" /\ session = "unpaired"
  /\ qrCode' = TRUE /\ failures' = 0
  /\ UNCHANGED <<alive, sock, isConnected, connecting, reconnectAttempts, timers>>
  /\ UNCHANGED <<latestStatus, session, sends, lastClose, bounds>>

\* A QR code is shown, and the attempts are counted anew.
Qr ==
  /\ alive /\ sock = "made" /\ session = "unpaired"
  /\ qrCode' = TRUE
  /\ reconnectAttempts' = 0 /\ failures' = 0
  /\ UNCHANGED <<alive, sock, isConnected, connecting, timers>>
  /\ UNCHANGED <<latestStatus, session, sends, lastClose, bounds>>

\* The phone scans it: the credentials are saved, and the server will close with 515.
Pair ==
  /\ alive /\ sock = "made" /\ session = "unpaired" /\ qrCode
  /\ session' = "paired"
  /\ UNCHANGED <<alive, client, latestStatus, sends, past, bounds>>

\* Mutant: the QR code is kept.
StaleOpen ==
  /\ alive /\ sock = "made" /\ session = "paired"
  /\ sock' = "open" /\ isConnected' = TRUE
  /\ reconnectAttempts' = 0 /\ failures' = 0
  /\ latestStatus' = Connected
  /\ UNCHANGED <<alive, connecting, qrCode, timers, session, sends, lastClose, bounds>>

Open ==
  /\ alive /\ sock = "made" /\ session = "paired"
  /\ sock' = "open" /\ isConnected' = TRUE
  /\ reconnectAttempts' = 0 /\ failures' = 0 /\ qrCode' = FALSE
  /\ latestStatus' = Connected
  /\ UNCHANGED <<alive, connecting, timers, session, sends, lastClose, bounds>>

\* What every close does first; the sends under way fail with the socket.
Close(why) ==
  /\ alive /\ sock \in Live /\ closes < MaxCloses
  /\ closes' = closes + 1
  /\ isConnected' = FALSE
  /\ send' = [s \in Send |-> IF send[s] = "waiting" THEN "failed" ELSE send[s]]
  /\ lastClose' = why
  /\ UNCHANGED <<alive, connecting, qrCode, delivered, errors>>

ReconnectLater == timers' = timers + 1

\* disconnect, and the session files go, unless that fails, which is only logged.
ClearSession == sock' = "null" /\ session' \in {"none", session} /\ reconnectAttempts' = 0

\* Mutant: it goes on to the reconnect of a lost connection, so two timers run.
RestartAndRetry ==
  /\ Close("restart")
  /\ latestStatus' = NotConnected("reconnecting")
  /\ sock' = "closed"
  /\ timers' = timers + 2
  /\ UNCHANGED <<reconnectAttempts, session, failures>>

\* 515, the restart after pairing: reconnect without counting.
CloseForRestart ==
  /\ Close("restart")
  /\ latestStatus' = NotConnected("reconnecting")
  /\ sock' = "closed"
  /\ ReconnectLater
  /\ UNCHANGED <<reconnectAttempts, session, failures>>

Counted == failures' = IF failures <= MaxReconnectAttempts THEN failures + 1 ELSE failures

\* Mutant: one attempt too many.
EagerCloseAndRetry ==
  /\ Close("lost") /\ Counted
  /\ reconnectAttempts <= MaxReconnectAttempts
  /\ reconnectAttempts' = reconnectAttempts + 1
  /\ latestStatus' = NotConnected("reconnecting")
  /\ sock' = "closed"
  /\ ReconnectLater
  /\ UNCHANGED session

\* A connection lost: up to MaxReconnectAttempts times in a row it is tried again ...
CloseAndRetry ==
  /\ Close("lost") /\ Counted
  /\ reconnectAttempts < MaxReconnectAttempts
  /\ reconnectAttempts' = reconnectAttempts + 1
  /\ latestStatus' = NotConnected("reconnecting")
  /\ sock' = "closed"
  /\ ReconnectLater
  /\ UNCHANGED session

\* Mutant: after the last attempt nothing more is scheduled.
FinalCloseAndGiveUp ==
  /\ Close("lost") /\ Counted
  /\ reconnectAttempts = MaxReconnectAttempts
  /\ latestStatus' = NotConnected("failed")
  /\ ClearSession
  /\ UNCHANGED timers

\* ... and then once more without the session.
CloseAndGiveUp ==
  /\ Close("lost") /\ Counted
  /\ reconnectAttempts = MaxReconnectAttempts
  /\ latestStatus' = NotConnected("failed")
  /\ ClearSession
  /\ ReconnectLater

\* 401 or 403: the session is worth nothing any more.
CloseLoggedOut ==
  /\ Close("loggedOut")
  /\ latestStatus' = NotConnected("logged_out")
  /\ ClearSession
  /\ ReconnectLater
  /\ UNCHANGED failures

-----------------------------------------------------------------------------
(* Sends.                                                                  *)

\* sendTextMessage, sendImageMessage, sendDocumentMessage: refused unless connected.
SendText(s) ==
  /\ alive /\ s \in Texts /\ send[s] = "new"
  /\ send' = [send EXCEPT ![s] = IF sock # "null" /\ isConnected THEN "waiting" ELSE "failed"]
  /\ UNCHANGED <<alive, client, latestStatus, session, delivered, past, bounds>>

\* sendButtonsMessage, sendListMessage.
SendButtons(s) ==
  /\ alive /\ s \in Buttons /\ send[s] = "new"
  /\ send' = [send EXCEPT ![s] = IF sock # "null" /\ isConnected THEN "waiting" ELSE "failed"]
  /\ UNCHANGED <<alive, client, latestStatus, session, delivered, past, bounds>>

\* The server has the message, also one that timed out, and the socket answers.
Answer(s) ==
  /\ alive /\ sock = "open"
  /\ send[s] \in {"waiting", "timedOut"}
  /\ send' = [send EXCEPT ![s] = IF @ = "waiting" THEN "sent" ELSE "failed"]
  /\ delivered' = delivered \cup {s}
  /\ UNCHANGED <<alive, client, latestStatus, session, past, bounds>>

\* executeWithTimeout: the caller is told, the socket goes on trying.
Timeout(s) ==
  /\ alive /\ s \in Texts /\ send[s] = "waiting"
  /\ send' = [send EXCEPT ![s] = "timedOut"]
  /\ UNCHANGED <<alive, client, latestStatus, session, delivered, past, bounds>>

-----------------------------------------------------------------------------

Connecting == Connect \/ FetchVersion \/ MakeSocket \/ Restart
Closing == CloseForRestart \/ CloseAndRetry \/ CloseAndGiveUp \/ CloseLoggedOut
Sending(s) == SendText(s) \/ SendButtons(s) \/ Answer(s) \/ Timeout(s)

Next ==
  \/ Connecting \/ ConnectThrows \/ Crash
  \/ Qr \/ Pair \/ Open \/ Closing
  \/ \E s \in Send : Sending(s)

\* Timers fire, a process gets on with connect and the supervisor restarts it.
Spec ==
  /\ Init /\ [][Next]_vars
  /\ WF_vars(Connecting)

-----------------------------------------------------------------------------
(* Type invariant.                                                         *)
TypeOK ==
  /\ alive \in BOOLEAN
  /\ sock \in Live \cup {"null", "closed"}
  /\ isConnected \in BOOLEAN
  /\ connecting \in {"no", "version", "fallback", "auth"}
  /\ reconnectAttempts \in 0 .. MaxReconnectAttempts
  /\ qrCode \in BOOLEAN /\ timers \in Nat
  /\ latestStatus \in Status
  /\ session \in {"none", "unpaired", "paired"}
  /\ send \in [Send -> {"new", "waiting", "timedOut", "sent", "failed"}]
  /\ delivered \subseteq Send
  /\ lastClose \in {"none", "restart", "lost", "loggedOut"}
  /\ failures \in 0 .. MaxReconnectAttempts + 1
  /\ errors \in 0 .. MaxErrors /\ closes \in 0 .. MaxCloses

-----------------------------------------------------------------------------
(* Safety.                                                                 *)

\* There is one thread of connection and it never doubles or breaks off: while
\* the process lives there is exactly one of a live socket, a connect under way
\* and a timer that will call connect.
OneChain ==
  alive => \/ sock \in Live /\ ~isConnecting /\ timers = 0
           \/ sock \notin Live /\ isConnecting /\ timers = 0
           \/ sock \notin Live /\ ~isConnecting /\ timers = 1

\* What the dashboards are told is so: connected means an open socket of a
\* paired session, without a QR code left over.
StatusIsTrue ==
  /\ latestStatus.connected = isConnected
  /\ isConnected => sock = "open" /\ session = "paired" /\ ~qrCode

\* A pairing is not thrown away: the session files of a paired device are
\* deleted only when the phone has logged it out, or when more connections
\* than MaxReconnectAttempts were lost in a row, without a QR code shown or a
\* connection opened in between and not counting the restart after pairing.
SessionKept ==
  [][session = "paired" /\ session' # "paired" =>
       \/ lastClose' = "loggedOut"
       \/ lastClose' = "lost" /\ failures' > MaxReconnectAttempts]_vars

-----------------------------------------------------------------------------
(* Liveness.                                                               *)

\* The client never gives up: whatever closed the socket or ended the process,
\* a new socket is made.
KeepsTrying == (sock \notin Live) ~> (sock \in Live)
=============================================================================
