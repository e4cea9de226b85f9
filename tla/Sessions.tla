------------------------------ MODULE Sessions ------------------------------
(***************************************************************************)
(* The sessions of one user: logins, rotation of refresh tokens, logout    *)
(* and logoutAllDevices of AuthService, and the version check of           *)
(* JwtStrategy.                                                            *)
(*                                                                         *)
(* A refresh token is a signed string made of the user's data, the user's  *)
(* token version and the second it is signed in: two tokens signed in the  *)
(* same second with the same version are the same string.  The table of    *)
(* refresh tokens holds each string at most once.  Rotation deletes the    *)
(* old row and creates the new one in two awaits, with a version read      *)
(* before either.                                                          *)
(*                                                                         *)
(* A session is what one login starts; which session a row belongs to is   *)
(* bookkeeping of the specification, the code keeps no such thing.  The    *)
(* expiry of tokens (days) is left out, the clock only tells seconds.      *)
(***************************************************************************)
EXTENDS Integers

CONSTANTS
  Workers,        \* calls of the auth service that may be in progress at once
  MaxLogins,      \* bound on the logins
  MaxVersion,     \* bound on the token version
  MaxTime,        \* bound on the clock
  Interruptible   \* whether a call may throw or die between two awaits

ASSUME SessionsAssumption ==
  /\ MaxLogins \in Nat /\ MaxVersion \in Nat /\ MaxTime \in Nat
  /\ Interruptible \in BOOLEAN

VARIABLES
  now,       \* the second it is
  version,   \* tokenVersion in the user's row
  rows,      \* the refresh token table
  issued,    \* history: the refresh tokens handed out so far
  logins,    \* how many logins there were
  job,       \* what each worker is doing
  revoked,   \* history: the sessions that existed when logoutAllDevices deleted the rows
  escaped    \* history: those of them that a call was about to create a row for just then

vars == <<now, version, rows, issued, logins, job, revoked, escaped>>
history == <<revoked, escaped>>

Session == 1 .. MaxLogins
Token == [version : 0 .. MaxVersion, iat : 0 .. MaxTime]
Row == [token : Token, session : Session]

Idle == [stage |-> "idle"]
Finding == [stage : {"user"}, token : Token]
Deleting == [stage : {"delete"}, token : Token, version : 0 .. MaxVersion]
Creating == [stage : {"create"}, session : Session, version : 0 .. MaxVersion]
Leaving == [stage : {"admitted", "bump"}]
Job == Finding \cup Deleting \cup Creating \cup Leaving

Stored(t) == \E r \in rows : r.token = t
Become(w, j) == job' = [job EXCEPT ![w] = j]

\* JwtStrategy.validate: an access token counts as long as the version it was
\* signed with is the user's; access and refresh tokens are issued in pairs.
Authenticated == \E t \in issued : t.version = version

Init ==
  /\ now = 0 /\ version = 0
  /\ rows = {} /\ issued = {} /\ logins = 0
  /\ job = [w \in Workers |-> Idle]
  /\ revoked = {} /\ escaped = {}

Tick ==
  /\ now < MaxTime
  /\ now' = now + 1
  /\ UNCHANGED <<version, rows, issued, logins, job, history>>

\* A password or a code was accepted for the user row read here.
Login(w) ==
  /\ job[w] = Idle /\ logins < MaxLogins
  /\ logins' = logins + 1
  /\ Become(w, [stage |-> "create", session |-> logins + 1, version |-> version])
  /\ UNCHANGED <<now, version, rows, issued, history>>

\* Mutant: the clock is read one second late.
LateCreateToken(w) ==
  /\ job[w].stage = "create"
  /\ LET t == [version |-> job[w].version, iat |-> now + 1] IN
       IF Stored(t) THEN UNCHANGED <<rows, issued>>
       ELSE /\ rows' = rows \cup {[token |-> t, session |-> job[w].session]}
            /\ issued' = issued \cup {t}
  /\ Become(w, Idle)
  /\ UNCHANGED <<now, version, logins, history>>

\* generateTokenPair signs and stores; a string that is there already is refused.
CreateToken(w) ==
  /\ job[w].stage = "create"
  /\ LET t == [version |-> job[w].version, iat |-> now] IN
       IF Stored(t) THEN UNCHANGED <<rows, issued>>
       ELSE /\ rows' = rows \cup {[token |-> t, session |-> job[w].session]}
            /\ issued' = issued \cup {t}
  /\ Become(w, Idle)
  /\ UNCHANGED <<now, version, logins, history>>

\* refresh: the token presented, any that was ever handed out, is looked up ...
FindToken(w) ==
  /\ job[w] = Idle
  /\ \E t \in issued : Stored(t) /\ Become(w, [stage |-> "user", token |-> t])
  /\ UNCHANGED <<now, version, rows, issued, logins, history>>

\* ... then the user, with the version the new pair will carry ...
FindUser(w) ==
  /\ job[w].stage = "user"
  /\ Become(w, [stage |-> "delete", token |-> job[w].token, version |-> version])
  /\ UNCHANGED <<now, version, rows, issued, logins, history>>

RowsOf(t) == {r \in rows : r.token = t}

\* Mutant: a row that is gone already is not taken for an error.
LenientDeleteOld(w) ==
  /\ job[w].stage = "delete"
  /\ rows' = rows \ RowsOf(job[w].token)
  /\ \E s \in 1 .. logins :
       /\ \A r \in RowsOf(job[w].token) : r.session = s
       /\ Become(w, [stage |-> "create", session |-> s, version |-> job[w].version])
  /\ UNCHANGED <<now, version, issued, logins, history>>

\* ... and the row is deleted: that fails if somebody else has deleted it.
DeleteOld(w) ==
  /\ job[w].stage = "delete"
  /\ rows' = rows \ RowsOf(job[w].token)
  /\ IF RowsOf(job[w].token) = {} THEN Become(w, Idle)
     ELSE \E r \in RowsOf(job[w].token) :
            Become(w, [stage |-> "create", session |-> r.session, version |-> job[w].version])
  /\ UNCHANGED <<now, version, issued, logins, history>>

\* The guard of both logout routes reads the user's version; what follows is
\* done whatever the version is by then.
Admit(w) ==
  /\ job[w] = Idle /\ Authenticated
  /\ Become(w, [stage |-> "admitted"])
  /\ UNCHANGED <<now, version, rows, issued, logins, history>>

\* logout of a device: the row goes, and if it is gone that is as good.
Logout(w) ==
  /\ job[w].stage = "admitted"
  /\ \E t \in issued : rows' = rows \ RowsOf(t)
  /\ Become(w, Idle)
  /\ UNCHANGED <<now, version, issued, logins, history>>

Live == {r.session : r \in rows}
Holding(s) == {w \in Workers : job[w] \in Creating /\ job[w].session = s}
Rotating == {s \in Session : Holding(s) # {}}

\* Mutant: only the tokens of the current version are looked for.
CurrentDeleteAll(w) ==
  /\ job[w].stage = "admitted"
  /\ rows' = {r \in rows : r.token.version # version}
  /\ revoked' = revoked \cup Live \cup Rotating
  /\ escaped' = escaped \cup Rotating
  /\ Become(w, [stage |-> "bump"])
  /\ UNCHANGED <<now, version, issued, logins>>

\* logoutAllDevices deletes all rows of the user ...
DeleteAll(w) ==
  /\ job[w].stage = "admitted"
  /\ rows' = {}
  /\ revoked' = revoked \cup Live \cup Rotating
  /\ escaped' = escaped \cup Rotating
  /\ Become(w, [stage |-> "bump"])
  /\ UNCHANGED <<now, version, issued, logins>>

\* ... and increments the version, which the access tokens then no longer match.
Bump(w) ==
  /\ job[w].stage = "bump" /\ version < MaxVersion
  /\ version' = version + 1
  /\ Become(w, Idle)
  /\ UNCHANGED <<now, rows, issued, logins, history>>

\* A database call is rejected or the process dies; nothing is undone.
Interrupt(w) ==
  /\ Interruptible /\ job[w] # Idle
  /\ Become(w, Idle)
  /\ UNCHANGED <<now, version, rows, issued, logins, history>>

Step(w) ==
  Login(w) \/ CreateToken(w) \/ FindToken(w) \/ FindUser(w) \/ DeleteOld(w)
    \/ Admit(w) \/ Logout(w) \/ DeleteAll(w) \/ Bump(w) \/ Interrupt(w)

Next == Tick \/ \E w \in Workers : Step(w)

Spec == Init /\ [][Next]_vars

-----------------------------------------------------------------------------
(* Type invariant.                                                         *)
TypeOK ==
  /\ now \in 0 .. MaxTime
  /\ version \in 0 .. MaxVersion
  /\ rows \subseteq Row
  /\ issued \subseteq Token
  /\ logins \in 0 .. MaxLogins
  /\ job \in [Workers -> {Idle} \cup Job]
  /\ revoked \subseteq Session /\ escaped \subseteq Session

-----------------------------------------------------------------------------
(* Safety, with overlapping and interrupted calls.                         *)

\* Rotation never multiplies: a session is one row, or one call on its way to
\* create the next row, however many calls present the same token at once and
\* even when the new token is the same string as the old.
OneTokenPerSession ==
  \A s \in Session :
    /\ \A q, r \in rows : q.session = s /\ r.session = s => q = r
    /\ \A v, w \in Holding(s) : v = w
    /\ Holding(s) # {} => s \notin Live

\* A session that logoutAllDevices found is in the table again only through a call
\* that was about to create its row when the rows were deleted: a login before its
\* first row or a rotation between two.  A session that had its row there, or whose
\* token was only being looked up, never has a row again.
\* This is said of sessions, not of strings.  Such a call, or a login that starts
\* before the version is incremented, may sign in the same second the very string
\* of a deleted row; the row is its own session's, but a device that was logged
\* out and kept the string is accepted with it.
SurvivorsWereUnderWay ==
  \A r \in rows : r.session \in revoked => r.session \in escaped

-----------------------------------------------------------------------------
(* Statements of the code's comments that the interleavings refute.        *)

\* "invalidates every refresh token for the user": no session that existed when
\* logoutAllDevices deleted the rows has a row in the table again.
AllDevicesLoggedOut == \A r \in rows : r.session \notin revoked
=============================================================================
