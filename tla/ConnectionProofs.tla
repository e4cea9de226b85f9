--------------------------- MODULE ConnectionProofs ---------------------------
(***************************************************************************)
(* Theorems about Connection, for any number of attempts, sends, failures  *)
(* and deaths of the process.                                              *)
(*                                                                         *)
(* The argument: the client hands one baton round.  A socket that closes   *)
(* hands it to a timer, the timer to connect, and connect to the socket it *)
(* makes; a process that dies drops it, and the next one begins in connect *)
(* with nothing else left over.  For the session: the attempts counted     *)
(* never outnumber the connections lost in a row, so the client gives up   *)
(* only when more than MaxReconnectAttempts were lost.                     *)
(***************************************************************************)
EXTENDS Connection, TLAPS

-----------------------------------------------------------------------------
(* The inductive invariant.                                                *)

\* A process that is dead has left nothing of its own.
DeadLeavesNothing ==
  ~alive => sock = "null" /\ connecting = "no" /\ timers = 0

\* Connected is the same as an open socket, whose session is paired.
ConnectedIsOpen ==
  /\ isConnected <=> sock = "open"
  /\ isConnected => session = "paired" /\ ~qrCode
  /\ latestStatus.connected = isConnected

\* Every attempt counted is a connection lost.
AttemptsAreFailures == reconnectAttempts <= failures

IInv == TypeOK /\ OneChain /\ DeadLeavesNothing /\ ConnectedIsOpen /\ AttemptsAreFailures

-----------------------------------------------------------------------------
(* The statuses.                                                           *)

\* What the gateway shows is told apart by its first field.
LEMMA Statuses ==
  /\ Connected \in Status /\ Connected.connected = TRUE
  /\ \A s \in {"initializing", "reconnecting", "failed", "logged_out"} :
       NotConnected(s) \in Status /\ NotConnected(s).connected = FALSE
  BY DEF Connected, NotConnected, Status

-----------------------------------------------------------------------------
(* The initial state and the steps.                                        *)

LEMMA Initially == Init => IInv
  <1> SUFFICES ASSUME Init PROVE IInv
    OBVIOUS
  <1>1. latestStatus \in Status /\ latestStatus.connected = FALSE
    BY Statuses DEF Init
  <1>2. TypeOK
    <2>1. send \in [Send -> {"new", "waiting", "timedOut", "sent", "failed"}]
      BY DEF Init
    <2>2. 0 \in 0 .. MaxReconnectAttempts /\ 0 \in 0 .. MaxReconnectAttempts + 1
          /\ 0 \in 0 .. MaxErrors /\ 0 \in 0 .. MaxCloses /\ 0 \in Nat
      BY ConnectionAssumption
    <2> QED
      BY <1>1, <2>1, <2>2, Zenon DEF Init, TypeOK
  <1>3. OneChain /\ DeadLeavesNothing /\ AttemptsAreFailures
    BY DEF Init, OneChain, DeadLeavesNothing, AttemptsAreFailures, isConnecting, Live
  <1>4. ConnectedIsOpen
    BY <1>1 DEF Init, ConnectedIsOpen
  <1> QED
    BY <1>2, <1>3, <1>4 DEF IInv

\* A timer, and connect up to the socket it makes.
LEMMA ConnectingKeeps ==
  ASSUME IInv, Connecting
  PROVE  IInv'
  <1>1. CASE Connect
    <2>1. sock \notin Live /\ ~isConnecting /\ timers = 1 /\ ~isConnected
      BY <1>1, SMT DEF Connect, IInv, TypeOK, OneChain, ConnectedIsOpen, Live
    <2>2. connecting' = "version" /\ timers' = 0 /\ alive
      BY <1>1, <2>1, SMT DEF Connect
    <2>3. UNCHANGED <<alive, sock, isConnected, reconnectAttempts, qrCode, latestStatus,
                      session, sends, past, bounds>>
      BY <1>1 DEF Connect
    <2> QED
      BY <2>1, <2>2, <2>3 DEF sends, past, bounds, IInv, TypeOK, OneChain, DeadLeavesNothing,
         ConnectedIsOpen, AttemptsAreFailures, isConnecting
  <1>2. CASE FetchVersion
    BY <1>2 DEF FetchVersion, sends, past, bounds, IInv, TypeOK, OneChain, DeadLeavesNothing,
                ConnectedIsOpen, AttemptsAreFailures, isConnecting
  <1>3. CASE MakeSocket
    BY <1>3 DEF MakeSocket, sends, past, bounds, IInv, TypeOK, OneChain, DeadLeavesNothing,
                ConnectedIsOpen, AttemptsAreFailures, isConnecting, Live
  <1>4. CASE Restart
    BY <1>4 DEF Restart, sends, past, bounds, IInv, TypeOK, OneChain, DeadLeavesNothing,
                ConnectedIsOpen, AttemptsAreFailures, isConnecting, Live
  <1> QED
    BY <1>1, <1>2, <1>3, <1>4 DEF Connecting

\* An exception out of connect, or a death for any other reason.
LEMMA DyingKeeps ==
  ASSUME IInv, Dies
  PROVE  IInv'
  <1>1. latestStatus' \in Status /\ latestStatus'.connected = FALSE
    BY Statuses DEF Dies
  <1>2. send' \in [Send -> {"new", "waiting", "timedOut", "sent", "failed"}]
    BY DEF Dies, IInv, TypeOK
  <1>3. errors' \in 0 .. MaxErrors
    BY ConnectionAssumption DEF Dies, IInv, TypeOK
  <1>4. TypeOK'
    <2>1. /\ alive' = FALSE /\ sock' = "null" /\ isConnected' = FALSE /\ connecting' = "no"
          /\ reconnectAttempts' = 0 /\ qrCode' = FALSE /\ timers' = 0
          /\ UNCHANGED <<session, delivered, lastClose, failures, closes>>
      BY DEF Dies, Fresh, past
    <2>2. 0 \in 0 .. MaxReconnectAttempts /\ 0 \in Nat
      BY ConnectionAssumption
    <2> QED
      BY <1>1, <1>2, <1>3, <2>1, <2>2, Zenon DEF IInv, TypeOK
  <1>5. OneChain' /\ DeadLeavesNothing'
    BY DEF Dies, Fresh, OneChain, DeadLeavesNothing
  <1>6. ConnectedIsOpen'
    BY <1>1 DEF Dies, Fresh, ConnectedIsOpen
  <1>7. AttemptsAreFailures'
    BY ConnectionAssumption DEF Dies, Fresh, past, IInv, TypeOK, AttemptsAreFailures
  <1> QED
    BY <1>4, <1>5, <1>6, <1>7 DEF IInv

\* What happens while the socket is being opened.
LEMMA OpeningKeeps ==
  ASSUME IInv, Qr \/ Pair \/ Open
  PROVE  IInv'
  <1>1. CASE Qr
    BY <1>1, ConnectionAssumption
    DEF Qr, sends, bounds, IInv, TypeOK, OneChain, DeadLeavesNothing,
        ConnectedIsOpen, AttemptsAreFailures, isConnecting, Live
  <1>2. CASE Pair
    BY <1>2 DEF Pair, client, sends, past, bounds, IInv, TypeOK, OneChain, DeadLeavesNothing,
                ConnectedIsOpen, AttemptsAreFailures, isConnecting, Live
  <1>3. CASE Open
    <2>1. latestStatus' \in Status /\ latestStatus'.connected = TRUE
      BY <1>3, Statuses DEF Open
    <2>2. /\ alive /\ sock = "made" /\ session = "paired"
          /\ sock' = "open" /\ isConnected' = TRUE /\ qrCode' = FALSE
          /\ reconnectAttempts' = 0 /\ failures' = 0
          /\ UNCHANGED <<alive, connecting, timers, session, send, delivered, lastClose, errors, closes>>
      BY <1>3 DEF Open, sends, bounds
    <2>3. 0 \in 0 .. MaxReconnectAttempts /\ 0 \in 0 .. MaxReconnectAttempts + 1 /\ 0 <= 0
      BY ConnectionAssumption
    <2>4. TypeOK'
      BY <2>1, <2>2, <2>3, Zenon DEF IInv, TypeOK, Live
    <2>5. OneChain' /\ DeadLeavesNothing'
      BY <2>2 DEF IInv, OneChain, DeadLeavesNothing, isConnecting, Live
    <2> QED
      BY <2>1, <2>2, <2>3, <2>4, <2>5 DEF IInv, ConnectedIsOpen, AttemptsAreFailures
  <1> QED
    BY <1>1, <1>2, <1>3

\* Every close hands over to one timer.
LEMMA ClosingKeeps ==
  ASSUME IInv, Closing
  PROVE  IInv'
  <1>1. PICK why \in {"restart", "lost", "loggedOut"} : Close(why)
    BY DEF Closing, CloseForRestart, CloseAndRetry, CloseAndGiveUp, CloseLoggedOut
  <1>2. /\ alive /\ alive' /\ sock \in Live /\ timers = 0 /\ ~isConnecting
        /\ connecting' = connecting /\ isConnected' = FALSE
    BY <1>1 DEF Close, IInv, OneChain
  <1>3. sock' \in {"null", "closed"} /\ timers' = 1
    BY <1>2 DEF Closing, CloseForRestart, CloseAndRetry, CloseAndGiveUp, CloseLoggedOut,
                ClearSession, ReconnectLater
  <1>4. latestStatus' \in Status /\ latestStatus'.connected = FALSE
    BY Statuses DEF Closing, CloseForRestart, CloseAndRetry, CloseAndGiveUp, CloseLoggedOut
  <1>5. session' \in {"none", session}
    BY DEF Closing, CloseForRestart, CloseAndRetry, CloseAndGiveUp, CloseLoggedOut, ClearSession
  <1>6. /\ reconnectAttempts' \in 0 .. MaxReconnectAttempts
        /\ failures' \in 0 .. MaxReconnectAttempts + 1
        /\ reconnectAttempts' <= failures'
    <2>1. CASE CloseForRestart
      BY <2>1 DEF CloseForRestart, IInv, TypeOK, AttemptsAreFailures
    <2>2. CASE CloseAndRetry
      BY <2>2, ConnectionAssumption
      DEF CloseAndRetry, Counted, IInv, TypeOK, AttemptsAreFailures
    <2>3. CASE CloseAndGiveUp
      BY <2>3, ConnectionAssumption
      DEF CloseAndGiveUp, Counted, ClearSession, IInv, TypeOK, AttemptsAreFailures
    <2>4. CASE CloseLoggedOut
      BY <2>4, ConnectionAssumption
      DEF CloseLoggedOut, ClearSession, IInv, TypeOK, AttemptsAreFailures
    <2> QED
      BY <2>1, <2>2, <2>3, <2>4 DEF Closing
  <1>7. /\ send' \in [Send -> {"new", "waiting", "timedOut", "sent", "failed"}]
        /\ closes' \in 0 .. MaxCloses
        /\ lastClose' \in {"none", "restart", "lost", "loggedOut"}
        /\ UNCHANGED <<qrCode, delivered, errors>>
    BY <1>1, ConnectionAssumption DEF Close, IInv, TypeOK
  <1>8. TypeOK'
    BY <1>2, <1>3, <1>4, <1>5, <1>6, <1>7 DEF IInv, TypeOK
  <1>9. OneChain' /\ DeadLeavesNothing'
    BY <1>2, <1>3 DEF OneChain, DeadLeavesNothing, isConnecting, Live
  <1>10. ConnectedIsOpen'
    BY <1>2, <1>3, <1>4 DEF ConnectedIsOpen
  <1> QED
    BY <1>6, <1>8, <1>9, <1>10 DEF IInv, AttemptsAreFailures

\* A send touches nothing but what became of it.
LEMMA SendingKeeps ==
  ASSUME IInv, NEW s \in Send, Sending(s)
  PROVE  IInv'
  <1>1. UNCHANGED <<alive, client, latestStatus, session, past, bounds>>
    BY DEF Sending, SendText, SendButtons, Answer, Timeout
  <1>2. send' \in [Send -> {"new", "waiting", "timedOut", "sent", "failed"}]
    BY DEF Sending, SendText, SendButtons, Answer, Timeout, IInv, TypeOK
  <1>3. delivered' \subseteq Send
    BY DEF Sending, SendText, SendButtons, Answer, Timeout, IInv, TypeOK
  <1> QED
    BY <1>1, <1>2, <1>3
    DEF client, past, bounds, IInv, TypeOK, OneChain, DeadLeavesNothing, ConnectedIsOpen,
        AttemptsAreFailures, isConnecting

LEMMA NextKeeps ==
  ASSUME IInv, [Next]_vars
  PROVE  IInv'
  <1>1. CASE UNCHANGED vars
    BY <1>1 DEF vars, client, sends, past, bounds, IInv, TypeOK, OneChain, DeadLeavesNothing,
                ConnectedIsOpen, AttemptsAreFailures, isConnecting
  <1>2. CASE ConnectThrows \/ Crash
    BY <1>2, DyingKeeps DEF ConnectThrows, Crash
  <1> QED
    BY <1>1, <1>2, ConnectingKeeps, OpeningKeeps, ClosingKeeps, SendingKeeps DEF Next

-----------------------------------------------------------------------------
(* The theorems.                                                           *)

\* One baton, a status that is true and attempts that were failures, in every
\* reachable state.
THEOREM Invariance == Spec => []IInv
  <1>1. Init => IInv
    BY Initially
  <1>2. IInv /\ [Next]_vars => IInv'
    BY NextKeeps
  <1> QED
    BY <1>1, <1>2, PTL DEF Spec

\* Every variable of Connection keeps its type.
THEOREM TypeCorrect == Spec => []TypeOK
  <1>1. IInv => TypeOK
    BY DEF IInv
  <1> QED
    BY Invariance, <1>1, PTL

\* connect, its timers and its sockets never run twice at a time nor stop
\* altogether, however closes, restarts and deaths of the process alternate.
THEOREM ChainNeitherForksNorBreaks == Spec => []OneChain
  <1>1. IInv => OneChain
    BY DEF IInv
  <1> QED
    BY Invariance, <1>1, PTL

\* The status that the gateway passes on is that of the socket.
THEOREM DashboardsAreToldTheTruth == Spec => []StatusIsTrue
  <1>1. IInv => StatusIsTrue
    BY DEF IInv, ConnectedIsOpen, StatusIsTrue
  <1> QED
    BY Invariance, <1>1, PTL

\* The session files of a paired phone are deleted only after a logout or after
\* more than MaxReconnectAttempts connections were lost in a row.
THEOREM PairingIsKept == Spec => SessionKept
  <1> DEFINE Kept == session = "paired" /\ session' # "paired" =>
                       \/ lastClose' = "loggedOut"
                       \/ lastClose' = "lost" /\ failures' > MaxReconnectAttempts
  <1>1. ASSUME IInv, [Next]_vars PROVE [Kept]_vars
    <2> SUFFICES ASSUME session = "paired", session' # "paired"
                 PROVE  \/ lastClose' = "loggedOut"
                        \/ lastClose' = "lost" /\ failures' > MaxReconnectAttempts
      OBVIOUS
    <2>1. CASE CloseLoggedOut
      BY <2>1 DEF CloseLoggedOut, Close
    <2>2. CASE CloseAndGiveUp
      <3>1. lastClose' = "lost" /\ Counted /\ reconnectAttempts = MaxReconnectAttempts
        BY <2>2 DEF CloseAndGiveUp, Close
      <3>2. failures \in 0 .. MaxReconnectAttempts + 1 /\ reconnectAttempts <= failures
        BY <1>1 DEF IInv, TypeOK, AttemptsAreFailures
      <3> QED
        BY <3>1, <3>2, ConnectionAssumption DEF Counted
    <2>3. CASE MakeSocket
      BY <2>3 DEF MakeSocket
    <2>4. CASE CloseForRestart \/ CloseAndRetry
      BY <2>4 DEF CloseForRestart, CloseAndRetry
    <2>5. CASE Connect \/ FetchVersion \/ Restart \/ ConnectThrows \/ Crash \/ Qr \/ Pair \/ Open
      BY <2>5 DEF Connect, FetchVersion, Restart, ConnectThrows, Crash, Dies, Qr, Pair, Open
    <2>6. CASE \E s \in Send : Sending(s)
      BY <2>6 DEF Sending, SendText, SendButtons, Answer, Timeout
    <2>7. CASE UNCHANGED vars
      BY <2>7 DEF vars
    <2> QED
      BY <1>1, <2>1, <2>2, <2>3, <2>4, <2>5, <2>6, <2>7 DEF Next, Connecting, Closing
  <1> QED
    BY Invariance, <1>1, PTL DEF Spec, SessionKept
=============================================================================
