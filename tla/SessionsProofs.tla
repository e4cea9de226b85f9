--------------------------- MODULE SessionsProofs ---------------------------
(***************************************************************************)
(* Theorems about Sessions, for any number of overlapping calls, logins,   *)
(* versions and seconds, with or without interruptions.                    *)
(*                                                                         *)
(* The argument: a session is carried by one thing at a time, a row or a   *)
(* call that is to create the next row.  Deleting the old row hands the    *)
(* session from the row to the call, creating hands it back, and only the  *)
(* caller that really removed the row receives it.  A session that was     *)
(* revoked can therefore be carried only by what carried it, as a call,    *)
(* when logoutAllDevices emptied the table.                                *)
(***************************************************************************)
EXTENDS Sessions, TLAPS

-----------------------------------------------------------------------------
(* The inductive invariant.                                                *)

Creates(w) == job[w].stage = "create"

\* No string is stored twice, whatever second it is signed in.
TokensDistinct == \A q, r \in rows : q.token = r.token => q = r

\* Each session is carried once.
CarriedOnce ==
  /\ \A q, r \in rows : q.session = r.session => q = r
  /\ \A v, w \in Workers :
       Creates(v) /\ Creates(w) /\ job[v].session = job[w].session => v = w
  /\ \A w \in Workers : \A r \in rows : Creates(w) => job[w].session # r.session

\* Only a login starts a session.
Started ==
  /\ \A r \in rows : r.session <= logins
  /\ \A w \in Workers : Creates(w) => job[w].session <= logins
  /\ \A s \in revoked : s <= logins

\* What carries a revoked session is, or stems from, a call that was creating.
Escapes ==
  /\ \A r \in rows : r.session \in revoked => r.session \in escaped
  /\ \A w \in Workers : Creates(w) /\ job[w].session \in revoked => job[w].session \in escaped

IInv == TypeOK /\ TokensDistinct /\ CarriedOnce /\ Started /\ Escapes

-----------------------------------------------------------------------------
(* What a call holds at each stage.                                        *)

\* The stage of a call tells which fields it has.
LEMMA StageFields ==
  ASSUME TypeOK, NEW w \in Workers
  PROVE  /\ Creates(w) <=> job[w] \in Creating
         /\ Creates(w) => job[w].session \in Session /\ job[w].version \in 0 .. MaxVersion
         /\ job[w].stage = "user" => job[w].token \in Token
         /\ job[w].stage = "delete" =>
              job[w].token \in Token /\ job[w].version \in 0 .. MaxVersion
         /\ ~Creates(w) <=> job[w] \notin Creating
  <1>1. job[w] \in {Idle} \cup Job
    BY DEF TypeOK
  <1>2. CASE job[w] = Idle
    BY <1>2 DEF Idle, Creates, Creating
  <1>3. CASE job[w] \in Finding
    BY <1>3 DEF Finding, Creates, Creating
  <1>4. CASE job[w] \in Deleting
    BY <1>4 DEF Deleting, Creates, Creating
  <1>5. CASE job[w] \in Creating
    BY <1>5 DEF Creating, Creates
  <1>6. CASE job[w] \in Leaving
    BY <1>6 DEF Leaving, Creates, Creating
  <1> QED
    BY <1>1, <1>2, <1>3, <1>4, <1>5, <1>6 DEF Job

\* A call that becomes something else leaves the other calls alone.
LEMMA OthersKeep ==
  ASSUME TypeOK, NEW w \in Workers, NEW j \in {Idle} \cup Job, Become(w, j)
  PROVE  /\ job' \in [Workers -> {Idle} \cup Job]
         /\ job'[w] = j
         /\ \A v \in Workers \ {w} : job'[v] = job[v]
         /\ \A v \in Workers \ {w} : Creates(v)' <=> Creates(v)
         /\ Creates(w)' <=> j.stage = "create"
  <1>1. job \in [Workers -> {Idle} \cup Job]
    BY DEF TypeOK
  <1>2. job' = [job EXCEPT ![w] = j]
    BY DEF Become
  <1>3. /\ job' \in [Workers -> {Idle} \cup Job]
        /\ job'[w] = j
        /\ \A v \in Workers \ {w} : job'[v] = job[v]
    BY <1>1, <1>2
  <1> QED
    BY <1>3 DEF Creates

\* A call that does not come to create a row, while no row is added and the
\* histories are kept, preserves everything but the types.
LEMMA NothingCarriedMore ==
  ASSUME IInv, NEW w \in Workers, NEW j \in {Idle} \cup Job, Become(w, j),
         j.stage # "create", rows' \subseteq rows, UNCHANGED <<logins, history>>
  PROVE  TokensDistinct' /\ CarriedOnce' /\ Started' /\ Escapes'
  <1>1. /\ \A v \in Workers \ {w} : job'[v] = job[v] /\ (Creates(v)' <=> Creates(v))
        /\ ~Creates(w)'
    BY OthersKeep DEF IInv
  <1>2. \A v \in Workers : Creates(v)' => Creates(v) /\ job'[v] = job[v]
    BY <1>1
  <1>3. TokensDistinct'
    BY DEF IInv, TokensDistinct
  <1>4. CarriedOnce'
    BY <1>2 DEF IInv, CarriedOnce
  <1>5. Started'
    BY <1>2 DEF IInv, Started, history
  <1>6. Escapes'
    BY <1>2 DEF IInv, Escapes, history
  <1> QED
    BY <1>3, <1>4, <1>5, <1>6

-----------------------------------------------------------------------------
(* The initial state and the steps.                                        *)

LEMMA Initially == Init => IInv
  <1> SUFFICES ASSUME Init PROVE IInv
    OBVIOUS
  <1>1. \A w \in Workers : ~Creates(w)
    BY DEF Init, Creates, Idle
  <1>2. TypeOK
    BY SessionsAssumption DEF Init, TypeOK, Session
  <1> QED
    BY <1>1, <1>2 DEF Init, IInv, TokensDistinct, CarriedOnce, Started, Escapes

LEMMA LoginStep ==
  ASSUME IInv, NEW w \in Workers, Login(w)
  PROVE  IInv'
  <1> DEFINE j == [stage |-> "create", session |-> logins + 1, version |-> version]
  <1>1. logins \in Nat /\ logins + 1 \in Session /\ logins' = logins + 1 /\ logins' \in 0 .. MaxLogins
    BY SessionsAssumption DEF IInv, TypeOK, Login, Session
  <1>2. j \in {Idle} \cup Job
    BY <1>1 DEF IInv, TypeOK, Job, Creating
  <1>3. Become(w, j)
    BY DEF Login
  <1>4. /\ job' \in [Workers -> {Idle} \cup Job]
        /\ job'[w] = j
        /\ \A v \in Workers \ {w} : job'[v] = job[v] /\ (Creates(v)' <=> Creates(v))
    BY <1>2, <1>3, OthersKeep DEF IInv
  <1>5. job'[w].session = logins + 1
    BY <1>4
  <1>6. UNCHANGED <<now, version, rows, issued, revoked, escaped>>
    BY DEF Login, history
  <1> HIDE DEF j
  <1>7. TypeOK'
    BY <1>1, <1>4, <1>6 DEF IInv, TypeOK
  <1>8. TokensDistinct'
    BY <1>6 DEF IInv, TokensDistinct
  <1>9. /\ \A r \in rows : r.session \in Session /\ r.session <= logins
        /\ \A v \in Workers : Creates(v) => job[v].session \in Session /\ job[v].session <= logins
        /\ \A s \in revoked : s \in Session /\ s <= logins
    BY StageFields DEF IInv, TypeOK, Started, Row
  <1>10. \A s \in Session : s <= logins => s # logins + 1 /\ s <= logins + 1
    BY <1>1 DEF Session
  <1>11. CarriedOnce'
    BY <1>4, <1>5, <1>6, <1>9, <1>10 DEF IInv, CarriedOnce
  <1>12. Started'
    <2>1. \A r \in rows' : r.session <= logins'
      BY <1>1, <1>6, <1>9, <1>10
    <2>2. \A v \in Workers : Creates(v)' => job'[v].session <= logins'
      BY <1>1, <1>4, <1>5, <1>9, <1>10
    <2>3. \A s \in revoked' : s <= logins'
      BY <1>1, <1>6, <1>9, <1>10
    <2> QED
      BY <2>1, <2>2, <2>3 DEF Started
  <1>13. Escapes'
    BY <1>4, <1>5, <1>6, <1>9, <1>10 DEF IInv, Escapes
  <1> QED
    BY <1>7, <1>8, <1>11, <1>12, <1>13 DEF IInv

LEMMA CreateStep ==
  ASSUME IInv, NEW w \in Workers, CreateToken(w)
  PROVE  IInv'
  <1>1. Creates(w) /\ Idle \in {Idle} \cup Job /\ Become(w, Idle) /\ Idle.stage # "create"
    BY DEF CreateToken, Creates, Idle
  <1>2. UNCHANGED <<now, version, logins, revoked, escaped>>
    BY DEF CreateToken, history
  <1>3. PICK t : t = [version |-> job[w].version, iat |-> now]
    OBVIOUS
  <1>4. PICK n : n = [token |-> t, session |-> job[w].session]
    OBVIOUS
  <1>5. t \in Token /\ n \in Row /\ n.token = t /\ n.session = job[w].session
    BY <1>1, <1>3, <1>4, StageFields DEF IInv, TypeOK, Token, Row
  <1>6. /\ job' \in [Workers -> {Idle} \cup Job]
        /\ \A v \in Workers \ {w} : job'[v] = job[v] /\ (Creates(v)' <=> Creates(v))
        /\ ~Creates(w)'
    BY <1>1, OthersKeep DEF IInv
  <1>7. CASE Stored(t)
    <2>1. UNCHANGED <<rows, issued>>
      BY <1>3, <1>7 DEF CreateToken
    <2>2. TypeOK'
      BY <1>2, <1>6, <2>1 DEF IInv, TypeOK
    <2> QED
      BY <1>1, <1>2, <2>1, <2>2, NothingCarriedMore DEF IInv, history
  <1>8. CASE ~Stored(t)
    <2>1. rows' = rows \cup {n} /\ issued' = issued \cup {t}
      BY <1>3, <1>4, <1>8 DEF CreateToken
    <2>2. TypeOK'
      BY <1>2, <1>5, <1>6, <2>1 DEF IInv, TypeOK
    <2>3. TokensDistinct'
      BY <1>5, <1>8, <2>1 DEF IInv, TokensDistinct, Stored
    <2>4. CarriedOnce'
      BY <1>1, <1>5, <1>6, <2>1 DEF IInv, CarriedOnce
    <2>5. Started'
      BY <1>1, <1>2, <1>5, <1>6, <2>1 DEF IInv, Started
    <2>6. Escapes'
      BY <1>1, <1>2, <1>5, <1>6, <2>1 DEF IInv, Escapes
    <2> QED
      BY <2>2, <2>3, <2>4, <2>5, <2>6 DEF IInv
  <1> QED
    BY <1>7, <1>8

LEMMA DeleteOldStep ==
  ASSUME IInv, NEW w \in Workers, DeleteOld(w)
  PROVE  IInv'
  <1>1. job[w].stage = "delete" /\ ~Creates(w) /\ job[w].version \in 0 .. MaxVersion
    BY StageFields DEF DeleteOld, Creates, IInv
  <1>2. UNCHANGED <<now, version, issued, logins, revoked, escaped>>
    BY DEF DeleteOld, history
  <1>3. rows' = rows \ RowsOf(job[w].token)
    BY DEF DeleteOld
  <1>4. CASE RowsOf(job[w].token) = {}
    <2>1. Become(w, Idle) /\ Idle \in {Idle} \cup Job /\ Idle.stage # "create" /\ rows' \subseteq rows
      BY <1>3, <1>4 DEF DeleteOld, Idle
    <2>2. TypeOK'
      BY <1>2, <2>1, OthersKeep DEF IInv, TypeOK
    <2> QED
      BY <1>2, <2>1, <2>2, NothingCarriedMore DEF IInv, history
  <1>5. CASE RowsOf(job[w].token) # {}
    <2>1. PICK r \in RowsOf(job[w].token) :
            Become(w, [stage |-> "create", session |-> r.session, version |-> job[w].version])
      BY <1>5 DEF DeleteOld
    <2>2. r \in rows /\ r.session \in Session /\ r \notin rows'
      BY <1>3, <2>1 DEF RowsOf, IInv, TypeOK, Row
    <2>3. PICK j : j = [stage |-> "create", session |-> r.session, version |-> job[w].version]
      OBVIOUS
    <2>4. j \in {Idle} \cup Job /\ j.stage = "create" /\ j.session = r.session /\ Become(w, j)
      BY <1>1, <2>1, <2>2, <2>3 DEF Job, Creating
    <2>5. /\ job' \in [Workers -> {Idle} \cup Job]
          /\ job'[w] = j
          /\ \A v \in Workers \ {w} : job'[v] = job[v] /\ (Creates(v)' <=> Creates(v))
          /\ Creates(w)'
      BY <2>4, OthersKeep DEF IInv
    <2>6. rows' \subseteq rows
      BY <1>3
    <2>7. TypeOK'
      BY <1>2, <2>5, <2>6 DEF IInv, TypeOK
    <2>8. TokensDistinct'
      BY <2>6 DEF IInv, TokensDistinct
    <2>9. CarriedOnce'
      BY <2>2, <2>4, <2>5, <2>6 DEF IInv, CarriedOnce
    <2>10. Started'
      BY <1>2, <2>2, <2>4, <2>5, <2>6 DEF IInv, Started
    <2>11. Escapes'
      BY <1>2, <2>2, <2>4, <2>5, <2>6 DEF IInv, Escapes
    <2> QED
      BY <2>7, <2>8, <2>9, <2>10, <2>11 DEF IInv
  <1> QED
    BY <1>4, <1>5

LEMMA DeleteAllStep ==
  ASSUME IInv, NEW w \in Workers, DeleteAll(w)
  PROVE  IInv'
  <1>1. PICK j : j = [stage |-> "bump"]
    OBVIOUS
  <1>2. j \in {Idle} \cup Job /\ j.stage # "create" /\ Become(w, j)
    BY <1>1 DEF DeleteAll, Job, Leaving
  <1>3. /\ job' \in [Workers -> {Idle} \cup Job]
        /\ \A v \in Workers \ {w} : job'[v] = job[v] /\ (Creates(v)' <=> Creates(v))
        /\ ~Creates(w)'
    BY <1>2, OthersKeep DEF IInv
  <1>4. \A v \in Workers : Creates(v)' => Creates(v) /\ job'[v] = job[v]
    BY <1>3
  <1>5. /\ rows' = {} /\ revoked' = revoked \cup Live \cup Rotating
        /\ escaped' = escaped \cup Rotating
        /\ UNCHANGED <<now, version, issued, logins>>
    BY DEF DeleteAll
  <1>6. \A v \in Workers : Creates(v) => job[v].session \in Rotating
    BY StageFields DEF Rotating, Holding, IInv
  <1>7. \A s \in Rotating : s \in Session /\ s <= logins
    BY StageFields DEF Rotating, Holding, IInv, Started
  <1>8. \A s \in Live : s \in Session /\ s <= logins
    BY DEF Live, IInv, TypeOK, Started, Row
  <1>9. TypeOK'
    BY <1>3, <1>5, <1>7, <1>8 DEF IInv, TypeOK
  <1>10. TokensDistinct'
    BY <1>5 DEF TokensDistinct
  <1>11. CarriedOnce'
    BY <1>4, <1>5 DEF IInv, CarriedOnce
  <1>12. Started'
    BY <1>4, <1>5, <1>7, <1>8 DEF IInv, Started
  <1>13. Escapes'
    BY <1>4, <1>5, <1>6 DEF Escapes
  <1> QED
    BY <1>9, <1>10, <1>11, <1>12, <1>13 DEF IInv

\* The steps of a call that neither add a row nor start to create one.
LEMMA QuietSteps ==
  ASSUME IInv, NEW w \in Workers,
         FindToken(w) \/ FindUser(w) \/ Admit(w) \/ Logout(w) \/ Bump(w) \/ Interrupt(w)
  PROVE  IInv'
  <1>1. \E j \in {Idle} \cup Job : Become(w, j) /\ j.stage # "create"
    <2>1. CASE FindToken(w)
      <3>1. PICK t \in issued : Become(w, [stage |-> "user", token |-> t])
        BY <2>1 DEF FindToken
      <3> QED
        BY <3>1 DEF IInv, TypeOK, Job, Finding
    <2>2. CASE FindUser(w)
      <3>1. Become(w, [stage |-> "delete", token |-> job[w].token, version |-> version])
        BY <2>2 DEF FindUser
      <3>2. job[w].token \in Token /\ version \in 0 .. MaxVersion
        BY <2>2, StageFields DEF FindUser, IInv, TypeOK
      <3> QED
        BY <3>1, <3>2 DEF Job, Deleting
    <2>3. CASE Admit(w)
      BY <2>3 DEF Admit, Job, Leaving
    <2>4. CASE Logout(w) \/ Bump(w) \/ Interrupt(w)
      BY <2>4 DEF Logout, Bump, Interrupt, Idle
    <2> QED
      BY <2>1, <2>2, <2>3, <2>4
  <1>2. PICK j \in {Idle} \cup Job : Become(w, j) /\ j.stage # "create"
    BY <1>1
  <1>3. UNCHANGED <<now, issued, logins, revoked, escaped>>
    BY DEF FindToken, FindUser, Admit, Logout, Bump, Interrupt, history
  <1>4. rows' \subseteq rows
    BY DEF FindToken, FindUser, Admit, Logout, Bump, Interrupt
  <1>5. version' \in 0 .. MaxVersion
    BY SessionsAssumption DEF FindToken, FindUser, Admit, Logout, Bump, Interrupt, IInv, TypeOK
  <1>6. TypeOK'
    BY <1>2, <1>3, <1>4, <1>5, OthersKeep DEF IInv, TypeOK
  <1> QED
    BY <1>2, <1>3, <1>4, <1>6, NothingCarriedMore DEF IInv, history

LEMMA NextKeeps ==
  ASSUME IInv, [Next]_vars
  PROVE  IInv'
  <1>1. CASE Tick
    <2>1. now' \in 0 .. MaxTime
      BY <1>1, SessionsAssumption DEF Tick, IInv, TypeOK
    <2> QED
      BY <1>1, <2>1 DEF Tick, history, IInv, TypeOK, TokensDistinct, CarriedOnce, Started,
                        Escapes, Creates
  <1>2. CASE UNCHANGED vars
    BY <1>2 DEF vars, IInv, TypeOK, TokensDistinct, CarriedOnce, Started, Escapes, Creates
  <1>3. CASE \E w \in Workers : Step(w)
    BY <1>3, LoginStep, CreateStep, DeleteOldStep, DeleteAllStep, QuietSteps DEF Step
  <1> QED
    BY <1>1, <1>2, <1>3 DEF Next

-----------------------------------------------------------------------------
(* The theorems.                                                           *)

\* Each session is carried once, and only by what may carry it, in every
\* reachable state.
THEOREM Invariance == Spec => []IInv
  <1>1. Init => IInv
    BY Initially
  <1>2. IInv /\ [Next]_vars => IInv'
    BY NextKeeps
  <1> QED
    BY <1>1, <1>2, PTL DEF Spec

\* Every variable of Sessions keeps its type.
THEOREM TypeCorrect == Spec => []TypeOK
  <1>1. IInv => TypeOK
    BY DEF IInv
  <1> QED
    BY Invariance, <1>1, PTL

\* Rotation never multiplies: however many calls present one refresh token, a
\* session is one row of the table or one call of generateTokenPair.
THEOREM RotationKeepsOne == Spec => []OneTokenPerSession
  <1>1. IInv => OneTokenPerSession
    <2> SUFFICES ASSUME IInv, NEW s \in Session
                 PROVE  /\ \A q, r \in rows : q.session = s /\ r.session = s => q = r
                        /\ \A v, w \in Holding(s) : v = w
                        /\ Holding(s) # {} => s \notin Live
      BY DEF OneTokenPerSession
    <2>1. \A w \in Holding(s) : w \in Workers /\ Creates(w) /\ job[w].session = s
      BY StageFields DEF Holding, IInv
    <2> QED
      BY <2>1 DEF IInv, CarriedOnce, Live
  <1> QED
    BY Invariance, <1>1, PTL

\* No session that had its row when logoutAllDevices emptied the table has a row
\* again; those that do were about to get one from a call under way, a login or a
\* rotation.  Strings are another matter: see the property.
THEOREM OnlyCallsUnderWaySurvive == Spec => []SurvivorsWereUnderWay
  <1>1. IInv => SurvivorsWereUnderWay
    BY DEF IInv, Escapes, SurvivorsWereUnderWay
  <1> QED
    BY Invariance, <1>1, PTL
=============================================================================
