------------------------------ MODULE OtpProofs ------------------------------
(***************************************************************************)
(* Theorems about Otp, for any number of overlapping calls, of attempts,   *)
(* codes and calls that break off.                                         *)
(*                                                                         *)
(* The argument: a code that is stored is newer than every code accepted,  *)
(* and whoever has accepted a code holds one that was stored before.  A    *)
(* key is written with its deadline, but for the counter, whose first      *)
(* failure is on its way to expire or broke off.  When the block is set    *)
(* all calls in progress are older than it, and a call that would ask for  *)
(* a block later does not get in; of the others only a password login      *)
(* touches the keys.  The bound on the wrong guesses has a credit of its   *)
(* own, at the end.                                                        *)
(***************************************************************************)
EXTENDS Otp, FiniteSetTheorems, TLAPS

-----------------------------------------------------------------------------
(* The inductive invariant.                                                *)

\* Who has been told that a code is right, and has not returned yet.
Holds(j) == j.stage = "accepted" \/ (j.call = "verifySignup" /\ j.stage # "checked")

\* Settings are read and written for a user who exists.
NeedsUser(j) == j.stage \in {"look", "settings"}

\* Of the calls that ask for a block those in progress under one asked before it
\* was set.
AskedBefore ==
  blocked => \A w \in Busy : job[w].call \in Checked => w \in elders

\* The calls: what they hold was stored once, and the block was not yet there
\* when they began.
JobsInv ==
  /\ job \in [Workers -> Job \cup {Idle}]
  /\ elders \subseteq Busy
  /\ \A w \in Workers : Holds(job[w]) => job[w].code \in 1 .. codes
  /\ \A w \in Workers : NeedsUser(job[w]) => Exists
  /\ AskedBefore

\* The user's rows.
AccountInv == account \in Account /\ (account.method # "none" => Exists)

\* The keys: deadlines, and a stored code newer than those that were spent.
KeysInv ==
  /\ late \in BOOLEAN /\ young \in BOOLEAN /\ blocked \in BOOLEAN /\ signup \in BOOLEAN
  /\ attempts \in Nat /\ guesses \in Nat
  /\ volatile \subseteq Present
  /\ codes \in 0 .. MaxCodes /\ otp \in 0 .. codes
  /\ spent \subseteq 1 .. codes /\ slips \in 0 .. MaxSlips
  /\ KeysHaveDeadlines
  /\ SpentIsGone

IInv == JobsInv /\ AccountInv /\ KeysInv

-----------------------------------------------------------------------------
(* The calls.                                                              *)

\* A call that becomes j leaves the others alone, and the calls are in order if
\* j holds what it should and does not get in past a block.
LEMMA JobMoves ==
  ASSUME IInv, NEW w \in Workers, NEW j \in Job \cup {Idle},
         job' = [job EXCEPT ![w] = j],
         elders' = IF j = Idle THEN elders \ {w} ELSE elders,
         codes' \in Nat, codes <= codes',
         Exists => Exists',
         Holds(j) => j.code \in 1 .. codes',
         NeedsUser(j) => Exists',
         blocked' => blocked,
         j.call \in Checked => job[w].call \in Checked \/ ~blocked
  PROVE  /\ JobsInv'
         /\ \A v \in Workers \ {w} : job'[v] = job[v]
  <1>1. /\ job' \in [Workers -> Job \cup {Idle}] /\ job'[w] = j
        /\ \A v \in Workers \ {w} : job'[v] = job[v]
    BY DEF IInv, JobsInv
  <1>2. elders' \subseteq Busy'
    BY <1>1 DEF IInv, JobsInv, Busy
  <1>3. codes \in Nat
    BY DEF IInv, KeysInv
  <1>4. \A v \in Workers : Holds(job'[v]) => job'[v].code \in 1 .. codes'
    BY <1>1, <1>3 DEF IInv, JobsInv
  <1>5. \A v \in Workers : NeedsUser(job'[v]) => Exists'
    BY <1>1 DEF IInv, JobsInv
  <1>6. AskedBefore'
    <2> SUFFICES ASSUME blocked, NEW v \in Workers, job'[v] # Idle, job'[v].call \in Checked
                 PROVE  v \in elders'
      BY DEF AskedBefore, Busy
    <2>1. \A u \in Workers : job[u] # Idle /\ job[u].call \in Checked => u \in elders
      BY DEF IInv, JobsInv, AskedBefore, Busy
    <2>2. CASE v = w
      <3>1. job[w].call \in Checked
        BY <1>1, <2>2
      <3>2. job[w] # Idle
        BY <3>1 DEF Idle, Checked
      <3> QED
        BY <1>1, <2>1, <2>2, <3>1, <3>2
    <2>3. CASE v # w
      BY <1>1, <2>1, <2>3
    <2> QED
      BY <2>2, <2>3
  <1> QED
    BY <1>1, <1>2, <1>4, <1>5, <1>6 DEF JobsInv, Holds, NeedsUser

\* Going on within a call.
LEMMA GotoMoves ==
  ASSUME IInv, NEW w \in Workers, NEW s \in Stage, job[w] # Idle, Goto(w, s),
         codes' \in Nat, codes <= codes', Exists => Exists',
         s = "accepted" \/ job[w].call = "verifySignup" => job[w].code \in 1 .. codes',
         s \in {"look", "settings"} => Exists',
         blocked' => blocked
  PROVE  JobsInv' /\ \A v \in Workers \ {w} : job'[v] = job[v]
  <1>1. job[w] \in Job /\ job \in [Workers -> Job \cup {Idle}]
    BY DEF IInv, JobsInv
  <1>2. PICK j : j = [job[w] EXCEPT !.stage = s]
    OBVIOUS
  <1>3. j \in Job /\ j.stage = s /\ j.call = job[w].call /\ j.code = job[w].code
    BY <1>1, <1>2 DEF Job
  <1>4. j # Idle
    BY <1>3 DEF Idle, Stage
  <1>5. job' = [job EXCEPT ![w] = j] /\ elders' = elders
    BY <1>1, <1>2 DEF Goto
  <1>6. job[w].call \in Checked => job[w].call \in Checked \/ ~blocked
    OBVIOUS
  <1> QED
    BY <1>3, <1>4, <1>5, <1>6, JobMoves DEF Holds, NeedsUser

\* The end of a call.
LEMMA ReturnMoves ==
  ASSUME IInv, NEW w \in Workers, Return(w),
         codes' \in Nat, codes <= codes', Exists => Exists', blocked' => blocked
  PROVE  JobsInv' /\ \A v \in Workers \ {w} : job'[v] = job[v]
  <1>1. Idle.stage = "idle" /\ Idle.call = "none"
    BY DEF Idle
  <1>2. ~Holds(Idle) /\ ~NeedsUser(Idle) /\ Idle.call \notin Checked
    BY <1>1 DEF Holds, NeedsUser, Checked
  <1> QED
    BY <1>2, JobMoves DEF Return

\* The beginning of a call: only one that looks for a block needs there to be none.
LEMMA EnterMoves ==
  ASSUME IInv, NEW w \in Workers, NEW c \in Call, NEW s \in Stage, Enter(w, c, s),
         codes' = codes, UNCHANGED account,
         s # "accepted", c = "verifySignup" => s = "checked",
         s \in {"look", "settings"} => Exists,
         blocked' => blocked, c \in Checked => ~blocked
  PROVE  /\ JobsInv' /\ job[w].stage = "idle"
         /\ \A v \in Workers \ {w} : job'[v] = job[v]
  <1>1. PICK j : j = [call |-> c, stage |-> s, code |-> 0]
    OBVIOUS
  <1>2. codes \in Nat /\ codes <= codes /\ MaxCodes \in Nat
    BY OtpAssumption DEF IInv, KeysInv
  <1>3. j \in Job /\ j.stage = s /\ j.call = c
    BY <1>1, <1>2 DEF Job
  <1>4. j # Idle
    BY <1>3 DEF Idle, Stage
  <1>5. job' = [job EXCEPT ![w] = j] /\ elders' = elders /\ job[w] = Idle
    BY <1>1 DEF Enter
  <1>6. Exists' <=> Exists
    BY DEF Exists
  <1>7. ~Holds(j) /\ (NeedsUser(j) => Exists')
    BY <1>3, <1>6 DEF Holds, NeedsUser
  <1>8. elders' = IF j = Idle THEN elders \ {w} ELSE elders
    BY <1>4, <1>5
  <1>9. job[w].stage = "idle"
    BY <1>5 DEF Idle
  <1>10. JobsInv' /\ \A v \in Workers \ {w} : job'[v] = job[v]
    BY <1>2, <1>3, <1>5, <1>6, <1>7, <1>8, JobMoves
  <1> QED
    BY <1>9, <1>10

-----------------------------------------------------------------------------
(* The keys.                                                               *)

\* Which keys there are.
LEMMA PresentKeys ==
  /\ Present \subseteq Key /\ Present' \subseteq Key
  /\ "otp" \in Present <=> otp # 0
  /\ "attempts" \in Present <=> attempts # 0
  /\ "blocked" \in Present <=> blocked
  /\ "signup" \in Present <=> signup
  /\ "otp" \in Present' <=> otp' # 0
  /\ "attempts" \in Present' <=> attempts' # 0
  /\ "blocked" \in Present' <=> blocked'
  /\ "signup" \in Present' <=> signup'
  BY DEF Present, Key

\* A key that had its deadline, or is excused, stays so.
LEMMA DeadlinesStay ==
  ASSUME IInv, NEW w \in Workers,
         \A v \in Workers \ {w} : job'[v] = job[v],
         job[w].stage # "expire" \/ slips' > 0,
         slips' >= slips, slips' \in Nat,
         Present' \ volatile' \subseteq Present \ volatile
  PROVE  KeysHaveDeadlines'
  <1> SUFFICES ASSUME NEW k \in Present' \ volatile'
               PROVE  k = "attempts" /\ (slips' > 0 \/ \E v \in Workers : job'[v].stage = "expire")
    BY DEF KeysHaveDeadlines
  <1>1. slips \in Nat
    BY OtpAssumption DEF IInv, KeysInv
  <1>2. k = "attempts" /\ (slips > 0 \/ \E v \in Workers : job[v].stage = "expire")
    BY DEF IInv, KeysInv, KeysHaveDeadlines
  <1> QED
    BY <1>1, <1>2

\* Nothing was touched but, perhaps, the count of wrong guesses.
LEMMA KeysStay ==
  ASSUME IInv, NEW w \in Workers,
         \A v \in Workers \ {w} : job'[v] = job[v],
         job[w].stage # "expire" \/ slips' > 0,
         slips' >= slips, slips' \in 0 .. MaxSlips, guesses' \in Nat,
         UNCHANGED <<otp, late, attempts, young, blocked, signup, volatile, codes, spent>>
  PROVE  KeysInv'
  <1>1. Present' = Present
    BY DEF Present
  <1>2. KeysHaveDeadlines'
    BY <1>1, DeadlinesStay, OtpAssumption
  <1> QED
    BY <1>1, <1>2 DEF IInv, KeysInv, SpentIsGone

\* What the codes need of the numbers.
LEMMA Numbers ==
  ASSUME IInv
  PROVE  /\ codes \in Nat /\ codes <= codes /\ slips \in Nat /\ slips >= slips
         /\ MaxCodes \in Nat /\ MaxSlips \in Nat /\ slips \in 0 .. MaxSlips
         /\ codes \in 0 .. MaxCodes /\ 0 \notin spent /\ 0 \in 0 .. codes
         /\ otp \in 0 .. codes
  BY OtpAssumption DEF IInv, KeysInv

\* A step that leaves everything but the calls and the rows to what it was.
LEMMA Quiet ==
  ASSUME IInv, NEW w \in Workers, JobsInv', AccountInv',
         \A v \in Workers \ {w} : job'[v] = job[v],
         job[w].stage # "expire",
         UNCHANGED <<otp, late, attempts, young, blocked, signup, volatile, codes, past>>,
         guesses' \in Nat
  PROVE  IInv'
  <1>1. slips' >= slips /\ slips' \in 0 .. MaxSlips
    BY Numbers DEF past
  <1>2. KeysInv'
    BY <1>1, KeysStay DEF past
  <1> QED
    BY <1>2 DEF IInv

\* The keys of a code, a counter or a block that are deleted.
LEMMA Deleted ==
  ASSUME IInv, DeleteAll \/ DeleteOtp, NEW w \in Workers,
         \A v \in Workers \ {w} : job'[v] = job[v],
         job[w].stage # "expire" \/ slips' > 0,
         codes' = codes, slips' = slips, spent' \subseteq 1 .. codes
  PROVE  KeysInv' /\ (blocked' => blocked)
  <1>1. /\ otp' = 0 /\ late' = FALSE /\ guesses' = 0 /\ UNCHANGED signup
        /\ \/ attempts' = 0 /\ young' = FALSE /\ blocked' = FALSE
              /\ volatile' = volatile \ {"otp", "attempts", "blocked"}
           \/ UNCHANGED <<attempts, young, blocked>> /\ volatile' = volatile \ {"otp"}
    BY DEF DeleteAll, DeleteOtp
  <1>2. volatile \subseteq Present /\ blocked \in BOOLEAN /\ young \in BOOLEAN /\ signup \in BOOLEAN
        /\ attempts \in Nat
    BY DEF IInv, KeysInv
  <1>3. volatile' \subseteq Present'
    BY <1>1, <1>2, PresentKeys, Zenon DEF Key
  <1>4. Present' \ volatile' \subseteq Present \ volatile
    BY <1>1, PresentKeys, Zenon DEF Key
  <1>5. KeysHaveDeadlines'
    BY <1>4, DeadlinesStay, Numbers
  <1>6. SpentIsGone'
    BY <1>1, Numbers DEF SpentIsGone
  <1>7. codes' \in 0 .. MaxCodes /\ otp' \in 0 .. codes' /\ slips' \in 0 .. MaxSlips
    BY <1>1, Numbers
  <1>8. late' \in BOOLEAN /\ young' \in BOOLEAN /\ blocked' \in BOOLEAN /\ signup' \in BOOLEAN
        /\ attempts' \in Nat /\ guesses' \in Nat
    <2>1. 0 \in Nat
      OBVIOUS
    <2> QED
      BY <1>1, <1>2, <2>1, Zenon
  <1> QED
    BY <1>1, <1>3, <1>5, <1>6, <1>7, <1>8 DEF KeysInv

-----------------------------------------------------------------------------
(* The steps the calls are made of.                                        *)

LEMMA AtWhere ==
  ASSUME IInv, NEW w \in Workers, NEW c \in Call, NEW s, At(w, c, s)
  PROVE  /\ job[w] # Idle /\ job[w] \in Job /\ job[w].call = c /\ job[w].stage = s
         /\ Holds(job[w]) => job[w].code \in 1 .. codes
         /\ NeedsUser(job[w]) => Exists
  BY DEF At, Idle, Call, Checked, IInv, JobsInv

LEMMA SameAccount ==
  ASSUME AccountInv, UNCHANGED account
  PROVE  AccountInv' /\ (Exists' <=> Exists)
  BY DEF AccountInv, Exists

LEMMA AssertKeeps ==
  ASSUME IInv, NEW w \in Workers, NEW c \in Checked, AssertNotBlocked(w, c)
  PROVE  IInv'
  <1>1. /\ ~blocked /\ Enter(w, c, "checked")
        /\ UNCHANGED <<otp, late, guesses, attempts, young, blocked, signup, volatile>>
        /\ UNCHANGED <<codes, account, past>>
    BY DEF AssertNotBlocked, keys
  <1>2. c \in Call /\ "checked" \in Stage
    BY DEF Call, Stage
  <1>3. JobsInv' /\ job[w].stage = "idle" /\ \A v \in Workers \ {w} : job'[v] = job[v]
    BY <1>1, <1>2, EnterMoves
  <1>4. guesses' \in Nat
    BY <1>1 DEF IInv, KeysInv
  <1> QED
    BY <1>1, <1>3, <1>4, SameAccount, Quiet DEF IInv

LEMMA StoreKeeps ==
  ASSUME IInv, NEW w \in Workers, NEW c \in Call, StoreOtp(w, c)
  PROVE  IInv'
  <1>1. /\ codes < MaxCodes /\ codes' = codes + 1 /\ otp' = codes + 1 /\ late' = FALSE
        /\ volatile' = volatile \cup {"otp"} /\ young' = FALSE /\ guesses' = 0 /\ Return(w)
        /\ UNCHANGED <<attempts, blocked, signup, account, past>>
    BY DEF StoreOtp
  <1>2. job[w].stage = "store"
    BY DEF StoreOtp, At
  <1>3. codes' \in Nat /\ codes <= codes' /\ codes' \in 0 .. MaxCodes /\ otp' \in 0 .. codes'
        /\ otp' # 0
    BY <1>1, Numbers
  <1>4. AccountInv' /\ (Exists' <=> Exists)
    BY <1>1, SameAccount DEF IInv
  <1>5. JobsInv' /\ \A v \in Workers \ {w} : job'[v] = job[v]
    BY <1>1, <1>3, <1>4, ReturnMoves
  <1>6. volatile' \subseteq Present' /\ Present' \ volatile' \subseteq Present \ volatile
    <2>1. volatile \subseteq Present
      BY DEF IInv, KeysInv
    <2> QED
      BY <1>1, <1>3, <2>1, PresentKeys, Zenon DEF Key
  <1>7. slips' = slips /\ spent' = spent
    BY <1>1 DEF past
  <1>8. KeysHaveDeadlines'
    BY <1>2, <1>5, <1>6, <1>7, DeadlinesStay, Numbers
  <1>9. spent \subseteq 1 .. codes' /\ otp' \notin spent
    BY <1>1, Numbers DEF IInv, KeysInv
  <1>10. KeysInv'
    BY <1>1, <1>3, <1>6, <1>7, <1>8, <1>9 DEF IInv, KeysInv, SpentIsGone
  <1> QED
    BY <1>4, <1>5, <1>10 DEF IInv

LEMMA ClearBeforeKeeps ==
  ASSUME IInv, NEW w \in Workers, NEW c \in Call \ {"verifySignup"}, ClearBefore(w, c)
  PROVE  IInv'
  <1>1. DeleteAll /\ Goto(w, "store") /\ UNCHANGED <<codes, account, past>> /\ At(w, c, "clear")
    BY DEF ClearBefore
  <1>2. job[w] # Idle /\ job[w].call # "verifySignup" /\ job[w].stage = "clear" /\ "store" \in Stage
    BY <1>1, AtWhere DEF Stage
  <1>3. AccountInv' /\ (Exists' <=> Exists)
    BY <1>1, SameAccount DEF IInv
  <1>4. blocked' => blocked
    BY <1>1 DEF DeleteAll
  <1>5. JobsInv' /\ \A v \in Workers \ {w} : job'[v] = job[v]
    BY <1>1, <1>2, <1>3, <1>4, GotoMoves, Numbers
  <1>6. KeysInv'
    BY <1>1, <1>2, <1>5, Deleted DEF past, IInv, KeysInv
  <1> QED
    BY <1>3, <1>5, <1>6 DEF IInv

\* A comparison: no code, too late, right or wrong.
LEMMA CompareKeeps ==
  ASSUME IInv, NEW w \in Workers, NEW c \in Checked, Compare(w, c)
  PROVE  IInv'
  <1>1. /\ At(w, c, "checked")
        /\ UNCHANGED <<otp, late, attempts, young, blocked, signup, volatile>>
        /\ UNCHANGED <<codes, account, past>>
    BY DEF Compare
  <1>2. /\ job[w] \in Job /\ job[w] # Idle /\ job[w].call = c /\ job[w].stage = "checked"
        /\ job \in [Workers -> Job \cup {Idle}] /\ guesses \in Nat
    BY <1>1, AtWhere DEF Call, IInv, JobsInv, KeysInv
  <1>3. AccountInv' /\ (Exists' <=> Exists)
    BY <1>1, SameAccount DEF IInv
  <1>4. codes' \in Nat /\ codes <= codes' /\ codes' = codes
    BY <1>1, Numbers
  <1>5. CASE otp = 0 /\ Return(w) /\ UNCHANGED guesses
    BY <1>1, <1>2, <1>3, <1>4, <1>5, ReturnMoves, Quiet
  <1>6. ASSUME NEW s \in {"drop", "count"}, UNCHANGED elders, guesses' \in Nat,
               job' = [job EXCEPT ![w].call = "refuse", ![w].stage = s]
        PROVE  IInv'
    <2>1. PICK j : j = [job[w] EXCEPT !.call = "refuse", !.stage = s]
      OBVIOUS
    <2>2. j \in Job /\ j.call = "refuse" /\ j.stage = s
      BY <1>2, <2>1 DEF Job, Call, Checked, Stage
    <2>3. j # Idle /\ ~Holds(j) /\ ~NeedsUser(j)
      BY <2>2 DEF Idle, Holds, NeedsUser
    <2>4. job' = [job EXCEPT ![w] = j]
      BY <1>2, <1>6, <2>1
    <2>5. JobsInv' /\ \A v \in Workers \ {w} : job'[v] = job[v]
      BY <1>1, <1>2, <1>3, <1>4, <1>6, <2>2, <2>3, <2>4, JobMoves
    <2> QED
      BY <1>1, <1>2, <1>3, <1>6, <2>5, Quiet
  <1>7. CASE /\ otp # 0 /\ job' = [job EXCEPT ![w].stage = "accepted", ![w].code = otp]
             /\ UNCHANGED <<elders, guesses>>
    <2>1. PICK j : j = [job[w] EXCEPT !.stage = "accepted", !.code = otp]
      OBVIOUS
    <2>2. otp \in 1 .. codes /\ otp \in 0 .. MaxCodes
      BY <1>7, Numbers
    <2>3. j \in Job /\ j.call = c /\ j.stage = "accepted" /\ j.code = otp
      BY <1>2, <2>1, <2>2 DEF Job, Stage
    <2>4. j # Idle /\ ~NeedsUser(j) /\ j.code \in 1 .. codes'
      BY <1>4, <2>2, <2>3 DEF Idle, NeedsUser
    <2>5. job' = [job EXCEPT ![w] = j]
      BY <1>2, <1>7, <2>1
    <2>6. elders' = IF j = Idle THEN elders \ {w} ELSE elders
      BY <1>7, <2>4
    <2>7. (blocked' => blocked) /\ job[w].call \in Checked
      BY <1>1, <1>2
    <2>8. JobsInv' /\ \A v \in Workers \ {w} : job'[v] = job[v]
      BY <1>3, <1>4, <2>3, <2>4, <2>5, <2>6, <2>7, JobMoves
    <2> QED
      BY <1>1, <1>2, <1>3, <1>7, <2>8, Quiet
  <1>8. guesses + 1 \in Nat
    BY <1>2
  <1> QED
    BY <1>2, <1>5, <1>6, <1>7, <1>8 DEF Compare

LEMMA ClearAcceptedKeeps ==
  ASSUME IInv, NEW w \in Workers, NEW c \in Checked, ClearAccepted(w, c)
  PROVE  IInv'
  <1>1. /\ At(w, c, "accepted") /\ DeleteAll /\ spent' = spent \cup {job[w].code} /\ Return(w)
        /\ UNCHANGED <<codes, account, slips>>
    BY DEF ClearAccepted
  <1>2. job[w].stage = "accepted" /\ job[w].code \in 1 .. codes
    BY <1>1, AtWhere DEF Call, Holds
  <1>3. AccountInv' /\ (Exists' <=> Exists)
    BY <1>1, SameAccount DEF IInv
  <1>4. blocked' => blocked
    BY <1>1 DEF DeleteAll
  <1>5. JobsInv' /\ \A v \in Workers \ {w} : job'[v] = job[v]
    BY <1>1, <1>3, <1>4, ReturnMoves, Numbers
  <1>6. KeysInv'
    BY <1>1, <1>2, <1>5, Deleted DEF IInv, KeysInv
  <1> QED
    BY <1>3, <1>5, <1>6 DEF IInv

-----------------------------------------------------------------------------
(* recordFailedAttempt.                                                    *)

LEMMA DropKeeps ==
  ASSUME IInv, NEW w \in Workers, Drop(w)
  PROVE  IInv'
  <1>1. job[w].stage = "drop" /\ DeleteOtp /\ Return(w) /\ UNCHANGED <<codes, account, past>>
    BY DEF Drop
  <1>2. AccountInv' /\ (Exists' <=> Exists)
    BY <1>1, SameAccount DEF IInv
  <1>3. blocked' => blocked
    BY <1>1 DEF DeleteOtp
  <1>4. JobsInv' /\ \A v \in Workers \ {w} : job'[v] = job[v]
    BY <1>1, <1>2, <1>3, ReturnMoves, Numbers
  <1>5. KeysInv'
    BY <1>1, <1>4, Deleted DEF past, IInv, KeysInv
  <1> QED
    BY <1>2, <1>4, <1>5 DEF IInv

\* A call on a stage of recordFailedAttempt is one.
LEMMA Failing ==
  ASSUME IInv, NEW w \in Workers, job[w].stage \in {"count", "expire", "block", "forget"}
  PROVE  job[w] \in Job /\ job[w] # Idle
  BY DEF Idle, IInv, JobsInv

LEMMA IncrKeeps ==
  ASSUME IInv, NEW w \in Workers, Incr(w)
  PROVE  IInv'
  <1>1. /\ job[w].stage = "count" /\ attempts' = attempts + 1
        /\ UNCHANGED <<otp, late, guesses, young, blocked, signup, volatile, codes, account, past>>
    BY DEF Incr
  <1>2. AccountInv' /\ (Exists' <=> Exists)
    BY <1>1, SameAccount DEF IInv
  <1>3. \/ attempts = 0 /\ Goto(w, "expire")
        \/ attempts # 0 /\ (Goto(w, "block") \/ Return(w))
    BY DEF Incr
  <1>4. job[w] # Idle /\ job[w] \in Job
    BY <1>1, Failing
  <1>5. job[w].call = "verifySignup" => job[w].code \in 1 .. codes
    BY <1>1 DEF Holds, IInv, JobsInv
  <1>6. "expire" \in Stage /\ "block" \in Stage
    BY DEF Stage
  <1>7. JobsInv' /\ \A v \in Workers \ {w} : job'[v] = job[v]
    <2>1. CASE Return(w)
      BY <1>1, <1>2, <2>1, ReturnMoves, Numbers
    <2>2. CASE Goto(w, "expire")
      BY <1>1, <1>2, <1>4, <1>5, <1>6, <2>2, GotoMoves, Numbers
    <2>3. CASE Goto(w, "block")
      BY <1>1, <1>2, <1>4, <1>5, <1>6, <2>3, GotoMoves, Numbers
    <2> QED
      BY <1>3, <2>1, <2>2, <2>3
  <1>8. attempts \in Nat /\ attempts' \in Nat /\ attempts' # 0
    BY <1>1 DEF IInv, KeysInv
  <1>9. KeysHaveDeadlines'
    <2>1. CASE attempts = 0
      <3>1. job'[w].stage = "expire"
        BY <1>3, <1>4, <2>1 DEF Goto, IInv, JobsInv, Job
      <3>2. Present' \ volatile' \subseteq (Present \ volatile) \cup {"attempts"}
        BY <1>1 DEF Present
      <3> QED
        BY <3>1, <3>2 DEF IInv, KeysInv, KeysHaveDeadlines
    <2>2. CASE attempts # 0
      <3>1. Present' = Present
        BY <1>1, <1>8, <2>2 DEF Present
      <3>2. slips' = slips
        BY <1>1 DEF past
      <3> QED
        BY <1>1, <1>7, <3>1, <3>2, DeadlinesStay, Numbers
    <2> QED
      BY <2>1, <2>2
  <1>10. volatile' \subseteq Present'
    BY <1>1, <1>8 DEF Present, IInv, KeysInv
  <1>11. KeysInv'
    BY <1>1, <1>8, <1>9, <1>10 DEF past, IInv, KeysInv, SpentIsGone
  <1> QED
    BY <1>2, <1>7, <1>11 DEF IInv

LEMMA ExpireKeeps ==
  ASSUME IInv, NEW w \in Workers, Expire(w)
  PROVE  IInv'
  <1>1. /\ job[w].stage = "expire" /\ Return(w)
        /\ UNCHANGED <<otp, late, guesses, attempts, blocked, signup, codes, account, past>>
    BY DEF Expire
  <1>2. \/ attempts = 0 /\ UNCHANGED <<volatile, young>>
        \/ attempts # 0 /\ volatile' = volatile \cup {"attempts"} /\ young' = TRUE
    BY DEF Expire
  <1>3. AccountInv' /\ (Exists' <=> Exists)
    BY <1>1, SameAccount DEF IInv
  <1>4. JobsInv' /\ \A v \in Workers \ {w} : job'[v] = job[v]
    BY <1>1, <1>3, ReturnMoves, Numbers
  <1>5. Present' = Present
    BY <1>1 DEF Present
  <1>6. volatile' \subseteq Present' /\ young' \in BOOLEAN
    <2>1. volatile \subseteq Present /\ young \in BOOLEAN
      BY DEF IInv, KeysInv
    <2>2. attempts # 0 => "attempts" \in Present
      BY PresentKeys
    <2> QED
      BY <1>2, <1>5, <2>1, <2>2, Zenon
  <1>7. "attempts" \notin Present' \ volatile'
    BY <1>2, <1>5 DEF Present
  <1>8. Present' \ volatile' \subseteq Present \ volatile
    BY <1>2, <1>5
  <1>9. KeysHaveDeadlines'
    BY <1>7, <1>8 DEF IInv, KeysInv, KeysHaveDeadlines
  <1>10. KeysInv'
    BY <1>1, <1>6, <1>9 DEF past, IInv, KeysInv, SpentIsGone
  <1> QED
    BY <1>3, <1>4, <1>10 DEF IInv

\* When the block is set, whoever is in progress is older.
LEMMA BlockKeeps ==
  ASSUME IInv, NEW w \in Workers, Block(w)
  PROVE  IInv'
  <1>1. /\ job[w].stage = "block" /\ blocked' = TRUE
        /\ volatile' = volatile \cup {"blocked"}
        /\ job' = [job EXCEPT ![w].stage = "forget"]
        /\ elders' = IF blocked THEN elders ELSE Busy
        /\ UNCHANGED <<otp, late, guesses, attempts, young, signup, codes, account, past>>
    BY DEF Block
  <1>2. /\ job[w] # Idle /\ job[w] \in Job /\ job \in [Workers -> Job \cup {Idle}]
        /\ elders \subseteq Busy
    BY <1>1, Failing DEF IInv, JobsInv
  <1>3. PICK j : j = [job[w] EXCEPT !.stage = "forget"]
    OBVIOUS
  <1>4. j \in Job /\ j.stage = "forget" /\ j.call = job[w].call /\ j.code = job[w].code
    BY <1>2, <1>3 DEF Job, Stage
  <1>5. j # Idle
    BY <1>4 DEF Idle
  <1>6. job' = [job EXCEPT ![w] = j]
    BY <1>1, <1>2, <1>3
  <1>7. /\ job' \in [Workers -> Job \cup {Idle}] /\ job'[w] = j
        /\ \A v \in Workers \ {w} : job'[v] = job[v]
    BY <1>2, <1>4, <1>6
  <1>8. AccountInv' /\ (Exists' <=> Exists)
    BY <1>1, SameAccount DEF IInv
  <1>9. Busy' = Busy
    BY <1>2, <1>5, <1>7 DEF Busy
  <1>10. AskedBefore'
    BY <1>1, <1>2, <1>4, <1>7, <1>9 DEF IInv, JobsInv, AskedBefore, Busy
  <1>11. JobsInv'
    <2>1. elders' \subseteq Busy'
      BY <1>1, <1>2, <1>9
    <2>2. \A v \in Workers : Holds(job'[v]) => job'[v].code \in 1 .. codes'
      BY <1>1, <1>4, <1>7 DEF IInv, JobsInv, Holds
    <2>3. \A v \in Workers : NeedsUser(job'[v]) => Exists'
      BY <1>4, <1>7, <1>8 DEF IInv, JobsInv, NeedsUser
    <2> QED
      BY <1>7, <1>10, <2>1, <2>2, <2>3 DEF JobsInv, Holds, NeedsUser
  <1>12. volatile' \subseteq Present' /\ Present' \ volatile' \subseteq Present \ volatile
    <2>1. volatile \subseteq Present
      BY DEF IInv, KeysInv
    <2> QED
      BY <1>1, <2>1, PresentKeys, Zenon DEF Key
  <1>13. KeysHaveDeadlines'
    <2>1. slips' = slips
      BY <1>1 DEF past
    <2> QED
      BY <1>1, <1>7, <1>12, <2>1, DeadlinesStay, Numbers
  <1>14. KeysInv'
    BY <1>1, <1>12, <1>13 DEF past, IInv, KeysInv, SpentIsGone
  <1> QED
    BY <1>8, <1>11, <1>14 DEF IInv

LEMMA ForgetKeeps ==
  ASSUME IInv, NEW w \in Workers, Forget(w)
  PROVE  IInv'
  <1>1. /\ job[w].stage = "forget" /\ Return(w)
        /\ attempts' = 0 /\ young' = FALSE /\ volatile' = volatile \ {"attempts"}
        /\ UNCHANGED <<otp, late, guesses, blocked, signup, codes, account, past>>
    BY DEF Forget
  <1>2. AccountInv' /\ (Exists' <=> Exists)
    BY <1>1, SameAccount DEF IInv
  <1>3. JobsInv' /\ \A v \in Workers \ {w} : job'[v] = job[v]
    BY <1>1, <1>2, ReturnMoves, Numbers
  <1>4. volatile' \subseteq Present' /\ Present' \ volatile' \subseteq Present \ volatile
    BY <1>1 DEF Present, IInv, KeysInv
  <1>5. KeysHaveDeadlines'
    <2>1. slips' = slips
      BY <1>1 DEF past
    <2> QED
      BY <1>1, <1>3, <1>4, <2>1, DeadlinesStay, Numbers
  <1>6. KeysInv'
    BY <1>1, <1>4, <1>5 DEF past, IInv, KeysInv, SpentIsGone
  <1> QED
    BY <1>2, <1>3, <1>6 DEF IInv

-----------------------------------------------------------------------------
(* What the calls do between two keys.                                     *)

\* A call that reads something and goes on, or returns.
LEMMA QuietStep ==
  ASSUME IInv, NEW w \in Workers, NEW c \in Call, NEW s, At(w, c, s), s # "expire",
         UNCHANGED <<keys, codes, account, past>>,
         \/ Return(w)
         \/ \E t \in Stage \ {"accepted"} :
              /\ Goto(w, t)
              /\ t \in {"look", "settings"} => Exists
              /\ c = "verifySignup" => s # "checked"
  PROVE  IInv'
  <1>1. /\ job[w] # Idle /\ job[w].call = c /\ job[w].stage = s
        /\ Holds(job[w]) => job[w].code \in 1 .. codes
    BY AtWhere
  <1>2. AccountInv' /\ (Exists' <=> Exists)
    BY SameAccount DEF IInv
  <1>3. (blocked' => blocked) /\ guesses' \in Nat
        /\ UNCHANGED <<otp, late, attempts, young, blocked, signup, volatile, codes, past>>
    BY DEF keys, IInv, KeysInv
  <1>4. JobsInv' /\ \A v \in Workers \ {w} : job'[v] = job[v]
    <2>1. CASE Return(w)
      BY <1>2, <1>3, <2>1, ReturnMoves, Numbers
    <2>2. ASSUME NEW t \in Stage \ {"accepted"}, Goto(w, t),
                 t \in {"look", "settings"} => Exists, c = "verifySignup" => s # "checked"
          PROVE  JobsInv' /\ \A v \in Workers \ {w} : job'[v] = job[v]
      <3>1. job[w].call = "verifySignup" => job[w].code \in 1 .. codes'
        BY <1>1, <1>3, <2>2 DEF Holds
      <3>2. codes' \in Nat /\ codes <= codes'
        BY <1>3, Numbers
      <3> QED
        BY <1>1, <1>2, <1>3, <2>2, <3>1, <3>2, GotoMoves
    <2> QED
      BY <2>1, <2>2
  <1> QED
    BY <1>1, <1>2, <1>3, <1>4, Quiet

\* A call that begins without looking for a block.
LEMMA QuietEnter ==
  ASSUME IInv, NEW w \in Workers, NEW c \in {"password", "settings", "createUser"},
         NEW s \in {"clear", "look", "create"}, Enter(w, c, s),
         s = "look" => Exists, UNCHANGED <<keys, codes, account, past>>
  PROVE  IInv'
  <1>1. c \in Call /\ s \in Stage /\ c \notin Checked /\ s # "settings"
    BY DEF Call, Stage, Checked
  <1>2. AccountInv'
    BY SameAccount DEF IInv
  <1>3. (blocked' => blocked) /\ guesses' \in Nat
        /\ UNCHANGED <<otp, late, attempts, young, blocked, signup, volatile, codes, past>>
    BY DEF keys, IInv, KeysInv
  <1>4. JobsInv' /\ job[w].stage = "idle" /\ \A v \in Workers \ {w} : job'[v] = job[v]
    BY <1>1, <1>3, EnterMoves
  <1> QED
    BY <1>2, <1>3, <1>4, Quiet

\* A step that writes a row and is otherwise quiet.
LEMMA RowStep ==
  ASSUME IInv, NEW w \in Workers, NEW c \in Call, NEW s \in {"create", "settings"}, At(w, c, s),
         UNCHANGED <<keys, codes, past>>, AccountInv', Exists => Exists',
         \/ Return(w)
         \/ \E t \in {"look", "settings", "store", "clear"} :
              Goto(w, t) /\ (t \in {"look", "settings"} => Exists')
  PROVE  IInv'
  <1>1. /\ job[w] # Idle /\ job[w].call = c /\ job[w].stage = s
        /\ Holds(job[w]) => job[w].code \in 1 .. codes
    BY AtWhere
  <1>2. (blocked' => blocked) /\ guesses' \in Nat /\ codes' \in Nat /\ codes <= codes'
        /\ UNCHANGED <<otp, late, attempts, young, blocked, signup, volatile, codes, past>>
    BY Numbers DEF keys, IInv, KeysInv
  <1>3. JobsInv' /\ \A v \in Workers \ {w} : job'[v] = job[v]
    <2>1. CASE Return(w)
      BY <1>2, <2>1, ReturnMoves
    <2>2. ASSUME NEW t \in {"look", "settings", "store", "clear"}, Goto(w, t),
                 t \in {"look", "settings"} => Exists'
          PROVE  JobsInv' /\ \A v \in Workers \ {w} : job'[v] = job[v]
      <3>1. job[w].call = "verifySignup" => job[w].code \in 1 .. codes'
        BY <1>1, <1>2 DEF Holds
      <3>2. t \in Stage /\ t # "accepted"
        BY DEF Stage
      <3> QED
        BY <1>1, <1>2, <2>2, <3>1, <3>2, GotoMoves
    <2> QED
      BY <2>1, <2>2
  <1> QED
    BY <1>1, <1>2, <1>3, Quiet

LEMMA CreateUserKeeps ==
  ASSUME IInv, NEW w \in Workers, NEW c \in Call, NEW role \in {"CUSTOMER", "ADMIN"},
         At(w, c, "create"), UNCHANGED <<keys, codes, past>>,
         \/ Exists /\ Return(w) /\ UNCHANGED account
         \/ /\ ~Exists /\ account' = [account EXCEPT !.role = role]
            /\ Return(w) \/ Goto(w, "look") \/ Goto(w, "settings")
  PROVE  IInv'
  <1>1. CASE Exists /\ Return(w) /\ UNCHANGED account
    BY <1>1, SameAccount, RowStep DEF IInv
  <1>2. CASE /\ ~Exists /\ account' = [account EXCEPT !.role = role]
             /\ Return(w) \/ Goto(w, "look") \/ Goto(w, "settings")
    <2>1. AccountInv' /\ Exists'
      BY <1>2 DEF IInv, AccountInv, Account, Exists
    <2> QED
      BY <1>2, <2>1, RowStep
  <1> QED
    BY <1>1, <1>2

LEMMA CreateSettingsKeeps ==
  ASSUME IInv, NEW w \in Workers, NEW c \in Call,
         At(w, c, "settings"), UNCHANGED <<keys, codes, past>>,
         \/ Return(w) /\ UNCHANGED account
         \/ /\ account' = [account EXCEPT !.method = "PASSWORD_AND_OTP"]
            /\ Return(w) \/ Goto(w, "store") \/ Goto(w, "clear")
  PROVE  IInv'
  <1>1. Exists
    BY AtWhere DEF NeedsUser
  <1>2. CASE Return(w) /\ UNCHANGED account
    BY <1>2, SameAccount, RowStep DEF IInv
  <1>3. CASE /\ account' = [account EXCEPT !.method = "PASSWORD_AND_OTP"]
             /\ Return(w) \/ Goto(w, "store") \/ Goto(w, "clear")
    <2>1. AccountInv' /\ Exists'
      BY <1>1, <1>3 DEF IInv, AccountInv, Account, LoginMethod, Exists
    <2> QED
      BY <1>3, <2>1, RowStep
  <1> QED
    BY <1>2, <1>3

\* The data of a sign-up are stored, or deleted.
LEMMA SignupDataKeeps ==
  ASSUME IInv, NEW w \in Workers, NEW c \in Call, NEW s \in {"data", "unsign"}, At(w, c, s),
         \/ signup' = TRUE /\ volatile' = volatile \cup {"signup"}
         \/ signup' = FALSE /\ volatile' = volatile \ {"signup"},
         Goto(w, "store") \/ Return(w),
         UNCHANGED <<otp, late, guesses, attempts, young, blocked, codes, account, past>>
  PROVE  IInv'
  <1>1. /\ job[w] # Idle /\ job[w].call = c /\ job[w].stage = s
        /\ Holds(job[w]) => job[w].code \in 1 .. codes
    BY AtWhere
  <1>2. AccountInv' /\ (Exists' <=> Exists)
    BY SameAccount DEF IInv
  <1>3. job[w].call = "verifySignup" => job[w].code \in 1 .. codes'
    BY <1>1 DEF Holds
  <1>4. "store" \in Stage
    BY DEF Stage
  <1>5. JobsInv' /\ \A v \in Workers \ {w} : job'[v] = job[v]
    <2>1. CASE Return(w)
      BY <1>2, <2>1, ReturnMoves, Numbers
    <2>2. CASE Goto(w, "store")
      BY <1>1, <1>2, <1>3, <1>4, <2>2, GotoMoves, Numbers
    <2> QED
      BY <2>1, <2>2
  <1>6. volatile' \subseteq Present' /\ Present' \ volatile' \subseteq Present \ volatile
        /\ signup' \in BOOLEAN
    <2>1. volatile \subseteq Present
      BY DEF IInv, KeysInv
    <2> QED
      BY <2>1, PresentKeys, Zenon DEF Key
  <1>7. slips' = slips /\ spent' = spent
    BY DEF past
  <1>8. KeysHaveDeadlines'
    BY <1>1, <1>5, <1>6, <1>7, DeadlinesStay, Numbers
  <1>9. KeysInv'
    BY <1>6, <1>7, <1>8 DEF IInv, KeysInv, SpentIsGone
  <1> QED
    BY <1>2, <1>5, <1>9 DEF IInv

\* The keys go, or the code does, and the call goes on.
LEMMA DeleteAndGo ==
  ASSUME IInv, NEW w \in Workers, NEW c \in Call, NEW s \in {"checked", "clear"}, At(w, c, s),
         DeleteAll \/ DeleteOtp,
         NEW t \in {"find", "unsign"}, Goto(w, t),
         c = "verifySignup" => s = "clear",
         UNCHANGED <<codes, account, slips>>,
         spent' = spent \/ (c = "verifySignup" /\ spent' = spent \cup {job[w].code})
  PROVE  IInv'
  <1>1. /\ job[w] # Idle /\ job[w].call = c /\ job[w].stage = s
        /\ Holds(job[w]) => job[w].code \in 1 .. codes
    BY AtWhere
  <1>2. AccountInv' /\ (Exists' <=> Exists)
    BY SameAccount DEF IInv
  <1>3. c = "verifySignup" => job[w].code \in 1 .. codes
    BY <1>1 DEF Holds
  <1>4. t \in Stage /\ t \notin {"accepted", "look", "settings"}
    BY DEF Stage
  <1>5. blocked' => blocked
    BY DEF DeleteAll, DeleteOtp
  <1>6. JobsInv' /\ \A v \in Workers \ {w} : job'[v] = job[v]
    BY <1>1, <1>2, <1>3, <1>4, <1>5, GotoMoves, Numbers
  <1>7. spent' \subseteq 1 .. codes
    BY <1>3 DEF IInv, KeysInv
  <1>8. KeysInv'
    BY <1>1, <1>6, <1>7, Deleted
  <1> QED
    BY <1>2, <1>6, <1>8 DEF IInv

-----------------------------------------------------------------------------
(* The calls.                                                              *)

LEMMA VerifyingKeeps ==
  ASSUME IInv, NEW w \in Workers,
         \/ VerifyAdminLoginCode(w) \/ VerifyCustomerLoginCode(w)
         \/ VerifyForgotPasswordOtp(w) \/ Verifying(w)
  PROVE  IInv'
  <1>1. "verify" \in Checked
    BY DEF Checked
  <1> QED
    BY <1>1, AssertKeeps, CompareKeeps, ClearAcceptedKeeps, DropKeeps, IncrKeeps, ExpireKeeps,
       BlockKeeps, ForgetKeeps
    DEF VerifyAdminLoginCode, VerifyCustomerLoginCode, VerifyForgotPasswordOtp, VerifyCode,
        Verifying

LEMMA RequestAdminKeeps ==
  ASSUME IInv, NEW w \in Workers, RequestAdminLoginCode(w) \/ PasswordLogin(w)
  PROVE  IInv'
  <1>1. "admin" \in Checked /\ "admin" \in Call \ {"verifySignup"}
        /\ "password" \in Call \ {"verifySignup"} /\ "clear" \in Stage \ {"accepted"}
    BY DEF Checked, Call, Stage
  <1>2. ASSUME At(w, "admin", "checked"), Goto(w, "clear") \/ Return(w),
               UNCHANGED <<keys, codes, account, past>>
        PROVE  IInv'
    BY <1>1, <1>2, QuietStep
  <1>3. ASSUME Enter(w, "password", "clear"), UNCHANGED <<keys, codes, account, past>>
        PROVE  IInv'
    BY <1>3, QuietEnter
  <1> QED
    BY <1>1, <1>2, <1>3, AssertKeeps, ClearBeforeKeeps, StoreKeeps
    DEF RequestAdminLoginCode, PasswordLogin

LEMMA RequestCustomerKeeps ==
  ASSUME IInv, NEW w \in Workers, RequestCustomerLoginCode(w)
  PROVE  IInv'
  <1>1. "customer" \in Checked /\ "customer" \in Call
        /\ {"look", "create", "settings", "store"} \subseteq Stage \ {"accepted"}
    BY DEF Checked, Call, Stage
  <1>2. ASSUME At(w, "customer", "checked"), FindUser(w, Goto(w, "look"))
        PROVE  IInv'
    BY <1>1, <1>2, QuietStep DEF FindUser
  <1>3. ASSUME At(w, "customer", "create"), CreateUser(w, "CUSTOMER", Goto(w, "look"))
        PROVE  IInv'
    BY <1>1, <1>3, CreateUserKeeps DEF CreateUser
  <1>4. ASSUME At(w, "customer", "look"),
               Goto(w, "settings") \/ Return(w) \/ Goto(w, "store"),
               UNCHANGED <<keys, codes, account, past>>
        PROVE  IInv'
    <2>1. Exists
      BY <1>1, <1>4, AtWhere DEF NeedsUser
    <2> QED
      BY <1>1, <1>4, <2>1, QuietStep
  <1>5. ASSUME At(w, "customer", "settings"), CreateSettings(w, Goto(w, "store"))
        PROVE  IInv'
    BY <1>1, <1>5, CreateSettingsKeeps DEF CreateSettings
  <1> QED
    BY <1>1, <1>2, <1>3, <1>4, <1>5, AssertKeeps, StoreKeeps DEF RequestCustomerLoginCode

LEMMA ResendKeeps ==
  ASSUME IInv, NEW w \in Workers, ResendOtp(w) \/ ForgotPassword(w)
  PROVE  IInv'
  <1>1. "resend" \in Checked /\ "forgot" \in Checked /\ "resend" \in Call /\ "forgot" \in Call
        /\ "store" \in Stage \ {"accepted"}
    BY DEF Checked, Call, Stage
  <1>2. ASSUME At(w, "resend", "checked"), DeleteOtp, Goto(w, "find"),
               UNCHANGED <<codes, account, past>>
        PROVE  IInv'
    BY <1>1, <1>2, DeleteAndGo DEF past
  <1>3. ASSUME At(w, "resend", "find") \/ At(w, "forgot", "checked"),
               Goto(w, "store") \/ Return(w), UNCHANGED <<keys, codes, account, past>>
        PROVE  IInv'
    BY <1>1, <1>3, QuietStep
  <1> QED
    BY <1>1, <1>2, <1>3, AssertKeeps, StoreKeeps DEF ResendOtp, ForgotPassword

LEMMA SignUpKeeps ==
  ASSUME IInv, NEW w \in Workers, SignUp(w)
  PROVE  IInv'
  <1>1. "signUp" \in Checked /\ "signUp" \in Call /\ "data" \in Stage \ {"accepted"}
    BY DEF Checked, Call, Stage
  <1>2. ASSUME At(w, "signUp", "checked"), Goto(w, "data") \/ Return(w),
               UNCHANGED <<keys, codes, account, past>>
        PROVE  IInv'
    BY <1>1, <1>2, QuietStep
  <1>3. ASSUME At(w, "signUp", "data"), signup' = TRUE, volatile' = volatile \cup {"signup"},
               Goto(w, "store"),
               UNCHANGED <<otp, late, guesses, attempts, young, blocked, codes, account, past>>
        PROVE  IInv'
    BY <1>1, <1>3, SignupDataKeeps
  <1> QED
    BY <1>1, <1>2, <1>3, AssertKeeps, StoreKeeps DEF SignUp

LEMMA VerifySignupKeeps ==
  ASSUME IInv, NEW w \in Workers, VerifySignupOtp(w)
  PROVE  IInv'
  <1>1. "verifySignup" \in Checked /\ "verifySignup" \in Call /\ "create" \in Stage \ {"accepted"}
    BY DEF Checked, Call, Stage
  <1>2. ASSUME At(w, "verifySignup", "accepted"), Goto(w, "create") \/ Return(w),
               UNCHANGED <<keys, codes, account, past>>
        PROVE  IInv'
    BY <1>1, <1>2, QuietStep
  <1>3. ASSUME NEW role \in {"CUSTOMER", "ADMIN"}, At(w, "verifySignup", "create"),
               CreateUser(w, role, Goto(w, "settings"))
        PROVE  IInv'
    BY <1>1, <1>3, CreateUserKeeps DEF CreateUser
  <1>4. ASSUME At(w, "verifySignup", "settings"), CreateSettings(w, Goto(w, "clear"))
        PROVE  IInv'
    BY <1>1, <1>4, CreateSettingsKeeps DEF CreateSettings
  <1>5. ASSUME At(w, "verifySignup", "clear"), DeleteAll, spent' = spent \cup {job[w].code},
               Goto(w, "unsign"), UNCHANGED <<codes, account, slips>>
        PROVE  IInv'
    BY <1>1, <1>5, DeleteAndGo
  <1>6. ASSUME At(w, "verifySignup", "unsign"), signup' = FALSE, volatile' = volatile \ {"signup"},
               Return(w),
               UNCHANGED <<otp, late, guesses, attempts, young, blocked, codes, account, past>>
        PROVE  IInv'
    BY <1>1, <1>6, SignupDataKeeps
  <1> QED
    BY <1>1, <1>2, <1>3, <1>4, <1>5, <1>6, AssertKeeps, CompareKeeps DEF VerifySignupOtp

LEMMA RowsKeep ==
  ASSUME IInv, NEW w \in Workers, GetUserSettings(w) \/ CreateUserByAdmin(w)
  PROVE  IInv'
  <1>1. "settings" \in Call /\ "createUser" \in Call /\ "settings" \in Stage \ {"accepted"}
    BY DEF Call, Stage
  <1>2. ASSUME Exists, Enter(w, "settings", "look"), UNCHANGED <<keys, codes, account, past>>
        PROVE  IInv'
    BY <1>2, QuietEnter
  <1>3. ASSUME At(w, "settings", "look"), Goto(w, "settings") \/ Return(w),
               UNCHANGED <<keys, codes, account, past>>
        PROVE  IInv'
    <2>1. Exists
      BY <1>1, <1>3, AtWhere DEF NeedsUser
    <2> QED
      BY <1>1, <1>3, <2>1, QuietStep
  <1>4. ASSUME At(w, "settings", "settings"), CreateSettings(w, Return(w))
        PROVE  IInv'
    BY <1>1, <1>4, CreateSettingsKeeps DEF CreateSettings
  <1>5. ASSUME Enter(w, "createUser", "create"), UNCHANGED <<keys, codes, account, past>>
        PROVE  IInv'
    BY <1>5, QuietEnter
  <1>6. ASSUME NEW role \in {"CUSTOMER", "ADMIN"}, At(w, "createUser", "create"),
               CreateUser(w, role, Return(w))
        PROVE  IInv'
    BY <1>1, <1>6, CreateUserKeeps DEF CreateUser
  <1> QED
    BY <1>2, <1>3, <1>4, <1>5, <1>6 DEF GetUserSettings, CreateUserByAdmin

LEMMA InterruptKeeps ==
  ASSUME IInv, NEW w \in Workers, Interrupt(w)
  PROVE  IInv'
  <1>1. Return(w) /\ slips < MaxSlips /\ slips' = slips + 1 /\ UNCHANGED <<keys, codes, account, spent>>
    BY DEF Interrupt
  <1>2. AccountInv' /\ (Exists' <=> Exists)
    BY <1>1, SameAccount DEF IInv
  <1>3. UNCHANGED <<otp, late, attempts, young, blocked, signup, volatile, codes, spent>>
        /\ guesses' \in Nat
    BY <1>1 DEF keys, IInv, KeysInv
  <1>4. JobsInv' /\ \A v \in Workers \ {w} : job'[v] = job[v]
    BY <1>1, <1>2, <1>3, ReturnMoves, Numbers
  <1>5. slips' > 0 /\ slips' >= slips /\ slips' \in 0 .. MaxSlips
    BY <1>1, Numbers
  <1>6. KeysInv'
    BY <1>3, <1>4, <1>5, KeysStay
  <1> QED
    BY <1>2, <1>4, <1>6 DEF IInv

-----------------------------------------------------------------------------
(* Passwords, settings and time.                                           *)

\* The calls do not change and the block is not set.
LEMMA JobsStay ==
  ASSUME IInv, UNCHANGED <<job, elders, codes>>, Exists => Exists', blocked' => blocked
  PROVE  JobsInv'
  BY DEF IInv, JobsInv, AskedBefore, Busy, Holds, NeedsUser

LEMMA EditKeeps ==
  ASSUME IInv, Edit
  PROVE  IInv'
  <1> USE OtpAssumption
  <1>1. UNCHANGED <<keys, codes, job, elders, past>> /\ Exists /\ account \in Account
    BY DEF Edit, SetPassword, ResetPasswordWithToken, ChangePassword, UpdateUserSettings,
           IInv, AccountInv, Exists, Account
  <1>2. \/ account' = [account EXCEPT !.password = TRUE]
        \/ \E m \in LoginMethods : account' = [account EXCEPT !.method = m]
    BY DEF Edit, SetPassword, ResetPasswordWithToken, ChangePassword, UpdateUserSettings
  <1>3. account' \in Account /\ Exists'
    <2>1. CASE account' = [account EXCEPT !.password = TRUE]
      BY <1>1, <2>1 DEF Account, Exists
    <2>2. ASSUME NEW m \in LoginMethods, account' = [account EXCEPT !.method = m]
          PROVE  account' \in Account /\ Exists'
      BY <1>1, <2>2 DEF Account, Exists
    <2> QED
      BY <1>2, <2>1, <2>2
  <1>4. JobsInv'
    BY <1>1, <1>3, JobsStay DEF keys
  <1>5. KeysInv'
    <2>1. Present' = Present
      BY <1>1 DEF Present, keys
    <2> QED
      BY <1>1, <2>1 DEF keys, past, IInv, KeysInv, KeysHaveDeadlines, SpentIsGone
  <1> QED
    BY <1>3, <1>4, <1>5 DEF IInv, AccountInv

LEMMA TimeKeeps ==
  ASSUME IInv, TimePasses
  PROVE  IInv'
  <1>1. UNCHANGED <<codes, account, job, elders, past>>
    BY DEF TimePasses
  <1>2. /\ blocked' => blocked
        /\ late' \in BOOLEAN /\ young' \in BOOLEAN /\ blocked' \in BOOLEAN /\ signup' \in BOOLEAN
        /\ attempts' \in Nat /\ guesses' \in Nat /\ otp' \in {0, otp}
    <2>1. /\ late \in BOOLEAN /\ young \in BOOLEAN /\ blocked \in BOOLEAN /\ signup \in BOOLEAN
          /\ attempts \in Nat /\ guesses \in Nat /\ 0 \in Nat
      BY DEF IInv, KeysInv
    <2>2. /\ attempts' = attempts \/ attempts' = 0
          /\ guesses' = guesses \/ guesses' = 0
          /\ otp' = otp \/ otp' = 0
      BY DEF TimePasses, Vanish, DeleteOtp
    <2>3. (blocked' => blocked) /\ blocked' \in BOOLEAN
      <3>1. blocked' \in BOOLEAN
        BY <2>1, Zenon DEF TimePasses, Vanish, DeleteOtp
      <3>2. blocked' = blocked \/ blocked' = FALSE
        BY Zenon DEF TimePasses, Vanish, DeleteOtp
      <3>3. CASE blocked' = blocked
        BY <3>1, <3>3
      <3>4. CASE blocked' = FALSE
        BY <3>4
      <3> QED
        BY <3>1, <3>2, <3>3, <3>4
    <2>4. late' \in BOOLEAN /\ young' \in BOOLEAN /\ signup' \in BOOLEAN
      BY <2>1, Zenon DEF TimePasses, Vanish, DeleteOtp
    <2>5. attempts' \in Nat /\ guesses' \in Nat /\ otp' \in {0, otp}
      BY <2>1, <2>2
    <2> QED
      BY <2>3, <2>4, <2>5, Zenon
  <1>3. volatile' \subseteq Present' /\ Present' \ volatile' \subseteq Present \ volatile
    <2>1. volatile \subseteq Present
      BY DEF IInv, KeysInv
    <2>2. CASE DeleteOtp
      BY <2>1, <2>2, PresentKeys, Zenon DEF DeleteOtp, Key
    <2>3. CASE /\ attempts' = 0 /\ volatile' = volatile \ {"attempts"}
               /\ UNCHANGED <<otp, blocked, signup>>
      BY <2>1, <2>3, PresentKeys, Zenon DEF Key
    <2>4. CASE /\ blocked' = FALSE /\ volatile' = volatile \ {"blocked"}
               /\ UNCHANGED <<otp, attempts, signup>>
      BY <2>1, <2>4, PresentKeys, Zenon DEF Key
    <2>5. CASE /\ signup' = FALSE /\ volatile' = volatile \ {"signup"}
               /\ UNCHANGED <<otp, attempts, blocked>>
      BY <2>1, <2>5, PresentKeys, Zenon DEF Key
    <2>6. CASE UNCHANGED <<otp, attempts, blocked, signup, volatile>>
      BY <2>1, <2>6, PresentKeys, Zenon DEF Key
    <2> QED
      BY <2>2, <2>3, <2>4, <2>5, <2>6 DEF TimePasses, Vanish
  <1>4. AccountInv' /\ (Exists' <=> Exists)
    BY <1>1, SameAccount DEF IInv
  <1>5. JobsInv'
    BY <1>1, <1>2, <1>4, JobsStay
  <1>6. KeysHaveDeadlines'
    BY <1>1, <1>3 DEF past, IInv, KeysInv, KeysHaveDeadlines
  <1>7. KeysInv'
    <2>1. SpentIsGone'
      BY <1>1, <1>2, Numbers DEF past, IInv, KeysInv, SpentIsGone
    <2>2. codes' \in 0 .. MaxCodes /\ otp' \in 0 .. codes' /\ slips' \in 0 .. MaxSlips
          /\ spent' \subseteq 1 .. codes'
      BY <1>1, <1>2, Numbers DEF past, IInv, KeysInv
    <2> QED
      BY <1>2, <1>3, <1>6, <2>1, <2>2, Zenon DEF KeysInv
  <1> QED
    BY <1>4, <1>5, <1>7 DEF IInv

-----------------------------------------------------------------------------
(* The initial state and every step.                                       *)

LEMMA Initially == Init => IInv
  <1> SUFFICES ASSUME Init PROVE IInv
    OBVIOUS
  <1>1. /\ otp = 0 /\ late = FALSE /\ attempts = 0 /\ young = FALSE /\ blocked = FALSE
        /\ signup = FALSE /\ volatile = {} /\ codes = 0 /\ guesses = 0 /\ spent = {}
        /\ elders = {} /\ slips = 0 /\ job = [w \in Workers |-> Idle]
    BY DEF Init
  <1>2. Idle.call = "none" /\ Idle.stage = "idle"
    BY DEF Idle
  <1>3. JobsInv
    <2>1. job \in [Workers -> Job \cup {Idle}] /\ \A w \in Workers : job[w] = Idle
      BY <1>1
    <2>2. \A w \in Workers : ~Holds(job[w]) /\ ~NeedsUser(job[w])
      BY <1>2, <2>1 DEF Holds, NeedsUser
    <2>3. elders \subseteq Busy /\ AskedBefore
      BY <1>1, Zenon DEF AskedBefore
    <2> QED
      BY <2>1, <2>2, <2>3 DEF JobsInv
  <1>4. AccountInv
    <2>1. account.method = "none" /\ account \in Account
      <3>1. CASE account = [role |-> "none", method |-> "none", password |-> FALSE]
        BY <3>1, Zenon DEF Account
      <3>2. CASE account = [role |-> "ADMIN", method |-> "none", password |-> TRUE]
        BY <3>2, Zenon DEF Account
      <3> QED
        BY <3>1, <3>2 DEF Init
    <2> QED
      BY <2>1, Zenon DEF AccountInv
  <1>5. Present = {}
    BY <1>1, PresentKeys, Zenon DEF Key
  <1>6. 0 \in 0 .. MaxCodes /\ 0 \in 0 .. MaxSlips /\ 0 \in 0 .. 0 /\ 0 \in Nat
    BY OtpAssumption
  <1>7. KeysInv
    BY <1>1, <1>5, <1>6, Zenon DEF KeysInv, KeysHaveDeadlines, SpentIsGone
  <1> QED
    BY <1>3, <1>4, <1>7 DEF IInv

LEMMA NextKeeps ==
  ASSUME IInv, [Next]_vars
  PROVE  IInv'
  <1>1. CASE UNCHANGED vars
    <2>1. UNCHANGED <<keys, codes, account, job, past, elders>>
      BY <1>1 DEF vars
    <2>2. Present' = Present /\ Busy' = Busy
      BY <2>1 DEF Present, Busy, keys
    <2> QED
      BY <2>1, <2>2 DEF keys, past, IInv, JobsInv, AccountInv, KeysInv, KeysHaveDeadlines,
                        SpentIsGone, AskedBefore, Holds, NeedsUser, Exists
  <1>2. ASSUME NEW w \in Workers, Step(w) PROVE IInv'
    BY <1>2, VerifyingKeeps, RequestAdminKeeps, RequestCustomerKeeps, ResendKeeps, SignUpKeeps,
       VerifySignupKeeps, RowsKeep, InterruptKeeps DEF Step
  <1> QED
    BY <1>1, <1>2, EditKeeps, TimeKeeps DEF Next

-----------------------------------------------------------------------------
(* The theorems.                                                           *)

\* The calls, the rows and the keys are in order in every reachable state.
THEOREM Invariance == Spec => []IInv
  <1>1. Init => IInv
    BY Initially
  <1>2. IInv /\ [Next]_vars => IInv'
    BY NextKeeps
  <1> QED
    BY <1>1, <1>2, PTL DEF Spec

\* Every variable of Otp keeps its type.
THEOREM TypeCorrect == Spec => []TypeOK
  <1>1. IInv => TypeOK
    <2> SUFFICES ASSUME IInv PROVE TypeOK
      OBVIOUS
    <2>1. otp \in 0 .. MaxCodes
      BY Numbers
    <2> QED
      BY <2>1 DEF IInv, JobsInv, AccountInv, KeysInv, TypeOK
  <1> QED
    BY Invariance, <1>1, PTL

\* No code, block or sign-up stays for ever, and no counter but one whose first
\* failure has yet to be given its deadline or broke off before.
THEOREM NothingCountsForEver == Spec => []KeysHaveDeadlines
  <1>1. IInv => KeysHaveDeadlines
    BY DEF IInv, KeysInv
  <1> QED
    BY Invariance, <1>1, PTL

\* The routes of the settings and of the users touch the rows only.
RowCall == {"settings", "createUser"}
RowStage == {"look", "settings", "create"}
RowCalls == \A w \in Workers : job[w].call \in RowCall => job[w].stage \in RowStage

LEMMA RowCallsKept ==
  ASSUME IInv, RowCalls, [Next]_vars
  PROVE  RowCalls'
  <1>1. job \in [Workers -> Job \cup {Idle}] /\ Idle.call = "none"
    BY DEF IInv, JobsInv, Idle
  <1>2. CASE UNCHANGED job
    BY <1>2 DEF RowCalls
  <1>3. ASSUME NEW w \in Workers, Step(w) PROVE RowCalls'
    <2>1. ASSUME NEW j, job' = [job EXCEPT ![w] = j],
                 j.call \in RowCall => j.stage \in RowStage
          PROVE  RowCalls'
      BY <1>1, <2>1 DEF RowCalls
    <2>2. CASE Return(w)
      BY <1>1, <2>1, <2>2 DEF Return, RowCall
    <2>3. ASSUME NEW c \in Call, NEW s \in Stage, Enter(w, c, s), c \in RowCall => s \in RowStage
          PROVE  RowCalls'
      <3>1. PICK j : j = [call |-> c, stage |-> s, code |-> 0]
        OBVIOUS
      <3> QED
        BY <2>1, <2>3, <3>1 DEF Enter
    <2>4. ASSUME NEW c \in Call, NEW r, NEW s \in Stage, At(w, c, r), Goto(w, s),
                 c \in RowCall => s \in RowStage
          PROVE  RowCalls'
      <3>1. job[w] \in Job /\ job[w].call = c
        BY <1>1, <2>4 DEF At, Call, Checked
      <3>2. PICK j : j = [job[w] EXCEPT !.stage = s]
        OBVIOUS
      <3> QED
        BY <1>1, <2>1, <2>4, <3>1, <3>2 DEF Goto, Job
    <2>5. ASSUME job[w].stage \notin RowStage, NEW s \in Stage, job[w] # Idle,
                 job' = [job EXCEPT ![w].stage = s]
          PROVE  RowCalls'
      <3>1. job[w] \in Job /\ job[w].call \notin RowCall
        BY <1>1, <2>5 DEF RowCalls
      <3>2. PICK j : j = [job[w] EXCEPT !.stage = s]
        OBVIOUS
      <3> QED
        BY <1>1, <2>1, <2>5, <3>1, <3>2 DEF Goto, Job
    <2>6. ASSUME NEW c \in Checked, Compare(w, c) PROVE RowCalls'
      <3>1. job[w] \in Job /\ job[w].call = c
        BY <1>1, <2>6 DEF Compare, At, Checked
      <3>2. ASSUME NEW s, job' = [job EXCEPT ![w].call = "refuse", ![w].stage = s] PROVE RowCalls'
        <4>1. PICK j : j = [job[w] EXCEPT !.call = "refuse", !.stage = s]
          OBVIOUS
        <4> QED
          BY <1>1, <2>1, <3>1, <3>2, <4>1 DEF Job, RowCall
      <3>3. CASE job' = [job EXCEPT ![w].stage = "accepted", ![w].code = otp]
        <4>1. PICK j : j = [job[w] EXCEPT !.stage = "accepted", !.code = otp]
          OBVIOUS
        <4> QED
          BY <1>1, <2>1, <3>1, <3>3, <4>1 DEF Job, RowCall, Checked
      <3> QED
        BY <2>2, <2>6, <3>2, <3>3 DEF Compare
    <2>7. CASE Verifying(w)
      <3>1. ASSUME job[w].stage \in {"drop", "count", "expire", "block", "forget"}
            PROVE  job[w] # Idle /\ job[w].stage \notin RowStage
        BY <3>1 DEF Idle, RowStage
      <3>2. CASE Block(w)
        BY <2>5, <3>1, <3>2 DEF Block, Stage
      <3>3. CASE Drop(w) \/ Expire(w) \/ Forget(w)
        BY <2>2, <3>3 DEF Drop, Expire, Forget
      <3>4. CASE Incr(w)
        BY <2>2, <2>5, <3>1, <3>4 DEF Incr, Goto, Stage
      <3> QED
        BY <2>7, <3>2, <3>3, <3>4 DEF Verifying
    <2>8. /\ Checked \subseteq Call /\ RowCall \subseteq Call /\ RowStage \subseteq Stage
          /\ "password" \in Call /\ {"checked", "clear", "store", "data", "find", "unsign"} \subseteq Stage
          /\ {"signUp", "verifySignup", "admin", "customer", "resend", "forgot", "verify"} \subseteq Checked
          /\ {"look", "settings", "create"} \subseteq RowStage
          /\ RowCall = {"settings", "createUser"}
          /\ Checked \cap RowCall = {} /\ "password" \notin RowCall
      BY DEF Call, Checked, RowCall, RowStage, Stage
    <2>9. CASE SignUp(w) \/ ResendOtp(w) \/ ForgotPassword(w) \/ RequestAdminLoginCode(w)
      BY <2>2, <2>3, <2>4, <2>8, <2>9
      DEF SignUp, ResendOtp, ForgotPassword, RequestAdminLoginCode, AssertNotBlocked, StoreOtp, ClearBefore
    <2>10. CASE PasswordLogin(w)
      BY <2>2, <2>3, <2>4, <2>8, <2>10 DEF PasswordLogin, StoreOtp, ClearBefore
    <2>11. CASE RequestCustomerLoginCode(w)
      BY <2>2, <2>3, <2>4, <2>8, <2>11
      DEF RequestCustomerLoginCode, AssertNotBlocked, StoreOtp, FindUser, CreateUser, CreateSettings
    <2>12. CASE VerifySignupOtp(w)
      BY <2>2, <2>3, <2>4, <2>6, <2>8, <2>12
      DEF VerifySignupOtp, AssertNotBlocked, CreateUser, CreateSettings
    <2>13. CASE VerifyAdminLoginCode(w) \/ VerifyCustomerLoginCode(w) \/ VerifyForgotPasswordOtp(w)
      BY <2>2, <2>3, <2>6, <2>8, <2>13
      DEF VerifyAdminLoginCode, VerifyCustomerLoginCode, VerifyForgotPasswordOtp, VerifyCode,
          AssertNotBlocked, ClearAccepted
    <2>14. CASE GetUserSettings(w) \/ CreateUserByAdmin(w)
      BY <2>2, <2>3, <2>4, <2>8, <2>14 DEF GetUserSettings, CreateUserByAdmin, CreateUser, CreateSettings
    <2>15. CASE Interrupt(w)
      BY <2>2, <2>15 DEF Interrupt
    <2> QED
      BY <1>3, <2>7, <2>9, <2>10, <2>11, <2>12, <2>13, <2>14, <2>15 DEF Step
  <1> QED
    BY <1>2, <1>3 DEF Next, Edit, TimePasses, vars

\* Whoever is neither older than the block nor a password login leaves the keys
\* alone while it stands.
LEMMA BlockStops ==
  ASSUME IInv, RowCalls, blocked, NEW w \in Workers, Step(w), ~(w \in Busy /\ Unstopped(w))
  PROVE  UNCHANGED <<keys, codes, spent>>
  <1>1. job[w] = Idle \/ (job[w].call \in RowCall /\ job[w].stage \in RowStage)
    <2>1. CASE job[w] # Idle
      <3>1. job[w] \in Job /\ w \in Busy /\ w \notin elders /\ job[w].call # "password"
        BY <2>1 DEF IInv, JobsInv, Busy, Unstopped
      <3>2. job[w].call \in Call /\ job[w].call \notin Checked
        BY <3>1 DEF IInv, JobsInv, AskedBefore, Job
      <3> QED
        <4>1. job[w].call \in RowCall
          BY <3>1, <3>2 DEF Call, RowCall
        <4> QED
          BY <4>1 DEF RowCalls
    <2> QED
      BY <2>1
  <1>2. job[w].call \in {"none"} \cup RowCall /\ job[w].stage \in {"idle"} \cup RowStage
        /\ (job[w].stage = "idle" <=> job[w].call = "none")
    BY <1>1 DEF Idle, RowCall, RowStage
  <1>3. \A c \in Checked \cup {"password"} : \A s : ~At(w, c, s)
    BY <1>2 DEF At, Checked, RowCall
  <1>4. {"signUp", "verifySignup", "admin", "customer", "resend", "forgot", "verify"} \subseteq Checked
    BY DEF Checked
  <1>5. ~Verifying(w)
    BY <1>2 DEF Verifying, Drop, Incr, Expire, Block, Forget, RowStage
  <1>6. CASE \/ SignUp(w) \/ ResendOtp(w) \/ ForgotPassword(w) \/ RequestAdminLoginCode(w)
             \/ RequestCustomerLoginCode(w) \/ VerifySignupOtp(w)
    BY <1>3, <1>4, <1>6
    DEF SignUp, ResendOtp, ForgotPassword, RequestAdminLoginCode, RequestCustomerLoginCode,
        VerifySignupOtp, AssertNotBlocked, StoreOtp, ClearBefore, Compare
  <1>7. CASE VerifyAdminLoginCode(w) \/ VerifyCustomerLoginCode(w) \/ VerifyForgotPasswordOtp(w)
    BY <1>3, <1>4, <1>7
    DEF VerifyAdminLoginCode, VerifyCustomerLoginCode, VerifyForgotPasswordOtp, VerifyCode,
        AssertNotBlocked, Compare, ClearAccepted
  <1>8. CASE PasswordLogin(w)
    BY <1>3, <1>8 DEF PasswordLogin, StoreOtp, ClearBefore, past
  <1>9. CASE GetUserSettings(w) \/ CreateUserByAdmin(w)
    BY <1>9 DEF GetUserSettings, CreateUserByAdmin, CreateUser, CreateSettings, past
  <1>10. CASE Interrupt(w)
    BY <1>10 DEF Interrupt
  <1> QED
    BY <1>5, <1>6, <1>7, <1>8, <1>9, <1>10 DEF Step

\* While an identity is blocked nothing happens to its keys but by a call older
\* than the block, by a password login or by a deadline.
THEOREM BlockStopsTheOthers == Spec => BlockStands
  <1>1. Init => RowCalls
    BY DEF Init, RowCalls, RowCall, Idle
  <1>2. IInv /\ RowCalls /\ [Next]_vars => RowCalls'
    BY RowCallsKept
  <1>3. IInv /\ RowCalls /\ [Next]_vars =>
          [blocked => \/ UNCHANGED <<keys, codes, spent>>
                      \/ TimePasses
                      \/ \E w \in Busy : Unstopped(w) /\ Step(w)]_vars
    <2> SUFFICES ASSUME IInv, RowCalls, [Next]_vars, blocked
                 PROVE  \/ UNCHANGED <<keys, codes, spent>>
                        \/ TimePasses
                        \/ UNCHANGED vars
                        \/ \E w \in Busy : Unstopped(w) /\ Step(w)
      OBVIOUS
    <2>1. CASE Edit
      BY <2>1 DEF Edit, past
    <2>2. ASSUME NEW w \in Workers, Step(w), ~(w \in Busy /\ Unstopped(w))
          PROVE  UNCHANGED <<keys, codes, spent>>
      BY <2>2, BlockStops
    <2> QED
      BY <2>1, <2>2 DEF Next
  <1> QED
    BY Invariance, <1>1, <1>2, <1>3, PTL DEF Spec, BlockStands

\* A code that was accepted and cleared never comes back.
THEOREM CodesAreSpentOnce == Spec => []SpentIsGone
  <1>1. IInv => SpentIsGone
    BY DEF IInv, KeysInv
  <1> QED
    BY Invariance, <1>1, PTL

-----------------------------------------------------------------------------
(* Wrong guesses.  A code has met no more of them than the credit: what    *)
(* the counter holds or lost, what each call may yet delete of a counter,  *)
(* and what is not counted yet.                                            *)

\* How many calls are at one of some stages.
StandingAt(j, S) == Cardinality({w \in Workers : j[w].stage \in S})

\* A counter with the deadline of an earlier code: it may go while this code lives.
OldCounter == "attempts" \in volatile /\ ~young

\* A counter at its limit has a call on the way to delete it.
Counted == IF attempts < MaxAttempts THEN attempts ELSE MaxAttempts - 1

Pending == StandingAt(job, {"count", "block"})
Forgetting == StandingAt(job, {"forget"})
Comparing == StandingAt(job, {"checked"})

\* The guesses that were counted, or lost with an older counter; those that
\* each of the calls that delete a counter takes with it; those not counted yet.
CounterCredit == IF OldCounter THEN Counted - 1 ELSE Counted + MaxAttempts - 2

GuessCredit ==
  CounterCredit + (Cardinality(Workers) - 1 - Forgetting) * (MaxAttempts - 1) + Pending + slips

GuessInv ==
  /\ otp = 0 => guesses = 0
  /\ otp # 0 /\ ~blocked => guesses <= GuessCredit
  /\ otp # 0 /\ blocked => guesses + Comparing <= GuessLimit + slips

\* One call moves.
LEMMA StandingMoves ==
  ASSUME NEW j, NEW k, NEW w \in Workers, \A v \in Workers \ {w} : k[v] = j[v], NEW S
  PROVE  /\ StandingAt(j, S) \in Nat /\ StandingAt(k, S) \in Nat
         /\ StandingAt(k, S) = StandingAt(j, S)
                               - (IF j[w].stage \in S THEN 1 ELSE 0)
                               + (IF k[w].stage \in S THEN 1 ELSE 0)
  <1> DEFINE J == {v \in Workers : j[v].stage \in S}
             K == {v \in Workers : k[v].stage \in S}
  <1>1. IsFiniteSet(Workers)
    BY OtpAssumption
  <1>2. J \in SUBSET Workers /\ K \in SUBSET Workers
    OBVIOUS
  <1>3. IsFiniteSet(J) /\ IsFiniteSet(K)
    BY <1>1, <1>2, FS_Subset
  <1>4. J \ {w} = K \ {w} /\ (w \in J <=> j[w].stage \in S) /\ (w \in K <=> k[w].stage \in S)
    OBVIOUS
  <1>5. StandingAt(j, S) = Cardinality(J) /\ StandingAt(k, S) = Cardinality(K)
    BY DEF StandingAt
  <1> HIDE DEF J, K
  <1>6. Cardinality(J) \in Nat /\ Cardinality(K) \in Nat
    BY <1>3, FS_CardinalityType
  <1>7. Cardinality(J \ {w}) = IF w \in J THEN Cardinality(J) - 1 ELSE Cardinality(J)
    BY <1>3, FS_RemoveElement
  <1>8. Cardinality(K \ {w}) = IF w \in K THEN Cardinality(K) - 1 ELSE Cardinality(K)
    BY <1>3, FS_RemoveElement
  <1>9. Cardinality(J \ {w}) = Cardinality(K \ {w})
    BY <1>4
  <1> QED
    BY <1>4, <1>5, <1>6, <1>7, <1>8, <1>9

\* A call is at one stage at a time.
LEMMA StandingTogether ==
  ASSUME NEW S, NEW T, S \cap T = {}
  PROVE  /\ StandingAt(job, S) \in Nat /\ StandingAt(job, T) \in Nat
         /\ StandingAt(job, S) + StandingAt(job, T) = StandingAt(job, S \cup T)
  <1> DEFINE A == {v \in Workers : job[v].stage \in S}
             B == {v \in Workers : job[v].stage \in T}
             C == {v \in Workers : job[v].stage \in S \cup T}
  <1>1. IsFiniteSet(Workers) /\ A \in SUBSET Workers /\ B \in SUBSET Workers
    BY OtpAssumption
  <1>2. IsFiniteSet(A) /\ IsFiniteSet(B)
    BY <1>1, FS_Subset
  <1>3. A \cup B = C /\ A \cap B = {}
    OBVIOUS
  <1>4. StandingAt(job, S) = Cardinality(A) /\ StandingAt(job, T) = Cardinality(B)
        /\ StandingAt(job, S \cup T) = Cardinality(C)
    BY DEF StandingAt
  <1> HIDE DEF A, B, C
  <1>5. Cardinality(A) \in Nat /\ Cardinality(B) \in Nat
    BY <1>2, FS_CardinalityType
  <1>6. Cardinality(C) = Cardinality(A) + Cardinality(B) - Cardinality(A \cap B)
    BY <1>2, <1>3, FS_Union
  <1>7. Cardinality(A \cap B) = 0
    BY <1>3, FS_EmptySet
  <1> QED
    BY <1>4, <1>5, <1>6, <1>7

LEMMA StandingWithin ==
  ASSUME NEW j, NEW S
  PROVE  /\ StandingAt(j, S) \in Nat /\ Cardinality(Workers) \in Nat
         /\ StandingAt(j, S) <= Cardinality(Workers)
  <1> DEFINE A == {v \in Workers : j[v].stage \in S}
  <1>1. IsFiniteSet(Workers) /\ A \in SUBSET Workers
    BY OtpAssumption
  <1>2. IsFiniteSet(A) /\ Cardinality(A) <= Cardinality(Workers)
    BY <1>1, FS_Subset
  <1>3. Cardinality(A) \in Nat /\ Cardinality(Workers) \in Nat
    BY <1>1, <1>2, FS_CardinalityType
  <1> QED
    BY <1>2, <1>3 DEF StandingAt

\* The calls that the credit and the limit count are different ones.
LEMMA StandingApart ==
  /\ Pending \in Nat /\ Forgetting \in Nat /\ Comparing \in Nat
  /\ Cardinality(Workers) \in Nat
  /\ Pending + Forgetting + Comparing <= Cardinality(Workers)
  <1>1. {"count", "block"} \cap {"forget"} = {}
        /\ ({"count", "block"} \cup {"forget"}) \cap {"checked"} = {}
    OBVIOUS
  <1>2. /\ StandingAt(job, {"count", "block"}) \in Nat /\ StandingAt(job, {"forget"}) \in Nat
        /\ StandingAt(job, {"count", "block"}) + StandingAt(job, {"forget"})
             = StandingAt(job, {"count", "block"} \cup {"forget"})
    BY <1>1, StandingTogether
  <1>3. /\ StandingAt(job, {"checked"}) \in Nat
        /\ StandingAt(job, {"count", "block"} \cup {"forget"}) + StandingAt(job, {"checked"})
             = StandingAt(job, ({"count", "block"} \cup {"forget"}) \cup {"checked"})
    BY <1>1, StandingTogether
  <1>4. Cardinality(Workers) \in Nat
        /\ StandingAt(job, ({"count", "block"} \cup {"forget"}) \cup {"checked"}) <= Cardinality(Workers)
    BY StandingWithin
  <1> QED
    BY <1>2, <1>3, <1>4 DEF Pending, Forgetting, Comparing

\* Products of numbers that are not negative.
LEMMA Products ==
  ASSUME NEW a \in Nat, NEW b \in Nat
  PROVE  a * b \in Nat
  OBVIOUS

\* The limit is enough for what any credit allows.
LEMMA CreditArithmetic ==
  ASSUME NEW n \in Nat, NEW m \in Nat \ {0, 1}, NEW p \in Nat, NEW f \in Nat, NEW q \in Nat,
         p + f + q <= n
  PROVE  (2 * m - 3) + (n - 1 - f) * (m - 1) + p + q <= (n + 1) * m - 2
  <1>1. f * m \in Nat
    BY Products
  <1>2. (n - 1 - f) * (m - 1) = n * m - n - m + 1 - f * m + f
    OBVIOUS
  <1>3. (n + 1) * m = n * m + m
    OBVIOUS
  <1> DEFINE nm == n * m
             fm == f * m
  <1>4. nm \in Int /\ fm \in Nat
    BY <1>1
  <1>5. (n - 1 - f) * (m - 1) = nm - n - m + 1 - fm + f /\ (n + 1) * m = nm + m
    BY <1>2, <1>3
  <1> HIDE DEF nm, fm
  <1>6. PICK x \in Int : x = (n - 1 - f) * (m - 1)
    OBVIOUS
  <1>7. PICK y \in Int : y = (n + 1) * m
    OBVIOUS
  <1>8. x = nm - n - m + 1 - fm + f /\ y = nm + m
    BY <1>5, <1>6, <1>7
  <1>9. (2 * m - 3) + x + p + q <= y - 2
    BY <1>4, <1>8
  <1> QED
    BY <1>6, <1>7, <1>9

\* What a credit says while there is no block, the block's limit holds too.
LEMMA CreditIsBounded ==
  ASSUME IInv, NEW g \in Int, g <= GuessCredit
  PROVE  g + Comparing <= GuessLimit + slips
  <1>1. MaxAttempts \in Nat \ {0, 1} /\ slips \in Nat /\ attempts \in Nat
    BY OtpAssumption DEF IInv, KeysInv
  <1>2. PICK c \in Int : c = (Cardinality(Workers) - 1 - Forgetting) * (MaxAttempts - 1)
    BY <1>1, StandingApart
  <1>3. PICK l \in Int : l = (Cardinality(Workers) + 1) * MaxAttempts
    BY <1>1, StandingApart
  <1>4. (2 * MaxAttempts - 3) + c + Pending + Comparing <= l - 2
    BY <1>1, <1>2, <1>3, StandingApart, CreditArithmetic
  <1>5. GuessCredit <= (2 * MaxAttempts - 3) + c + Pending + slips
    BY <1>1, <1>2, StandingApart DEF GuessCredit, CounterCredit, Counted
  <1>6. GuessCredit \in Int
    BY <1>1, <1>2, StandingApart DEF GuessCredit, CounterCredit, Counted
  <1> QED
    BY <1>1, <1>3, <1>4, <1>5, <1>6, StandingApart DEF GuessLimit

\* The limit leaves room for every call.
LEMMA LimitIsRoomy == Cardinality(Workers) <= GuessLimit
  <1>1. MaxAttempts \in Nat \ {0, 1} /\ Cardinality(Workers) \in Nat
    BY OtpAssumption, StandingApart
  <1>2. (Cardinality(Workers) + 1) * (MaxAttempts - 2) \in Nat
    BY <1>1, Products
  <1>3. (Cardinality(Workers) + 1) * (MaxAttempts - 2)
          = (Cardinality(Workers) + 1) * MaxAttempts - 2 * (Cardinality(Workers) + 1)
    BY <1>1
  <1>4. PICK l \in Int : l = (Cardinality(Workers) + 1) * MaxAttempts
    BY <1>1
  <1>5. PICK d \in Nat : d = (Cardinality(Workers) + 1) * (MaxAttempts - 2)
    BY <1>2
  <1>6. d = l - 2 * (Cardinality(Workers) + 1)
    BY <1>3, <1>4, <1>5
  <1> QED
    BY <1>1, <1>4, <1>5, <1>6 DEF GuessLimit

\* A step that deletes the code.
LEMMA GuessesGone ==
  ASSUME otp' = 0, guesses' = 0
  PROVE  GuessInv'
  BY DEF GuessInv

\* One call moves to another stage, and the three counts with it.
LEMMA CountsMove ==
  ASSUME NEW w \in Workers, \A v \in Workers \ {w} : job'[v] = job[v]
  PROVE  /\ Pending \in Nat /\ Forgetting \in Nat /\ Comparing \in Nat
         /\ Pending' \in Nat /\ Forgetting' \in Nat /\ Comparing' \in Nat
         /\ Pending' = Pending - (IF job[w].stage \in {"count", "block"} THEN 1 ELSE 0)
                               + (IF job'[w].stage \in {"count", "block"} THEN 1 ELSE 0)
         /\ Forgetting' = Forgetting - (IF job[w].stage \in {"forget"} THEN 1 ELSE 0)
                                     + (IF job'[w].stage \in {"forget"} THEN 1 ELSE 0)
         /\ Comparing' = Comparing - (IF job[w].stage \in {"checked"} THEN 1 ELSE 0)
                                   + (IF job'[w].stage \in {"checked"} THEN 1 ELSE 0)
  <1>1. PICK j : j = job
    OBVIOUS
  <1>2. PICK k : k = job'
    OBVIOUS
  <1>3. \A v \in Workers \ {w} : k[v] = j[v]
    BY <1>1, <1>2
  <1>4. \A S : /\ StandingAt(j, S) \in Nat /\ StandingAt(k, S) \in Nat
              /\ StandingAt(k, S) = StandingAt(j, S)
                                    - (IF j[w].stage \in S THEN 1 ELSE 0)
                                    + (IF k[w].stage \in S THEN 1 ELSE 0)
    BY <1>3, StandingMoves
  <1>5. /\ Pending = StandingAt(j, {"count", "block"}) /\ Pending' = StandingAt(k, {"count", "block"})
        /\ Forgetting = StandingAt(j, {"forget"}) /\ Forgetting' = StandingAt(k, {"forget"})
        /\ Comparing = StandingAt(j, {"checked"}) /\ Comparing' = StandingAt(k, {"checked"})
    BY <1>1, <1>2 DEF Pending, Forgetting, Comparing, StandingAt
  <1> QED
    BY <1>1, <1>2, <1>4, <1>5

\* A step that is not about guesses: the counter, the block and the code stay, and
\* nobody begins to compare past a block.
Aside(w) ==
  /\ \A v \in Workers \ {w} : job'[v] = job[v]
  /\ UNCHANGED <<otp, guesses, attempts, young, blocked, slips>>
  /\ "attempts" \in volatile' <=> "attempts" \in volatile
  /\ job[w].stage \notin {"count", "block", "forget"}
  /\ job'[w].stage \notin {"count", "block", "forget"}
  /\ job'[w].stage = "checked" => ~blocked

LEMMA AsideKeeps ==
  ASSUME IInv, GuessInv, NEW w \in Workers, Aside(w)
  PROVE  GuessInv'
  <1>1. /\ UNCHANGED <<otp, guesses, attempts, young, blocked, slips>>
        /\ job'[w].stage = "checked" => ~blocked
    BY DEF Aside
  <1>2. Pending' = Pending /\ Forgetting' = Forgetting /\ Comparing' \in Nat /\ Comparing \in Nat
        /\ (blocked => Comparing' <= Comparing)
    BY CountsMove DEF Aside
  <1>3. GuessCredit' = GuessCredit
    <2>1. OldCounter' <=> OldCounter
      BY DEF OldCounter, Aside
    <2> QED
      BY <1>1, <1>2, <2>1 DEF GuessCredit, CounterCredit, Counted
  <1>4. GuessLimit' = GuessLimit /\ guesses \in Nat
    BY DEF GuessLimit, IInv, KeysInv
  <1>5. GuessLimit \in Int /\ slips \in Nat
    BY StandingApart, OtpAssumption DEF GuessLimit, IInv, KeysInv
  <1>6. CASE otp = 0
    BY <1>1, <1>6 DEF GuessInv
  <1>7. CASE otp # 0 /\ ~blocked
    <2>1. guesses <= GuessCredit
      BY <1>7 DEF GuessInv
    <2> QED
      BY <1>1, <1>3, <1>7, <2>1 DEF GuessInv
  <1>8. CASE otp # 0 /\ blocked
    <2>1. guesses + Comparing <= GuessLimit + slips
      BY <1>8 DEF GuessInv
    <2>2. guesses' + Comparing' <= GuessLimit' + slips'
      BY <1>1, <1>2, <1>4, <1>5, <1>8, <2>1
    <2> QED
      BY <1>1, <1>8, <2>2 DEF GuessInv
  <1> QED
    BY <1>6, <1>7, <1>8

\* A new code has met no guess, and the credit of whatever counter there is is
\* not negative.
LEMMA StoreGuesses ==
  ASSUME IInv, NEW w \in Workers, NEW c \in Call, StoreOtp(w, c)
  PROVE  GuessInv'
  <1>1. /\ otp' # 0 /\ guesses' = 0 /\ young' = FALSE /\ volatile' = volatile \cup {"otp"}
        /\ UNCHANGED <<attempts, blocked, slips>> /\ job[w].stage = "store"
    BY Numbers DEF StoreOtp, At, past
  <1>2. \A v \in Workers \ {w} : job'[v] = job[v]
    BY DEF StoreOtp, Return, IInv, JobsInv
  <1>3. job'[w].stage = "idle"
    BY DEF StoreOtp, Return, IInv, JobsInv, Idle
  <1>4. Pending' = Pending /\ Forgetting' = Forgetting /\ Comparing' = Comparing
        /\ Pending \in Nat /\ Forgetting \in Nat /\ Comparing \in Nat
    BY <1>1, <1>2, <1>3, CountsMove
  <1>5. GuessLimit' = GuessLimit /\ GuessLimit \in Int /\ slips \in Nat
        /\ Cardinality(Workers) \in Nat /\ MaxAttempts \in Nat \ {0, 1} /\ attempts \in Nat
    BY StandingApart, OtpAssumption DEF GuessLimit, IInv, KeysInv
  <1>6. Forgetting <= Cardinality(Workers) - 1
    <2>1. PICK k : k = [v \in Workers |-> IF v = w THEN [stage |-> "forget"] ELSE job[v]]
      OBVIOUS
    <2>2. \A v \in Workers \ {w} : k[v] = job[v]
      BY <2>1
    <2>3. k[w].stage = "forget"
      BY <2>1
    <2>4. StandingAt(k, {"forget"}) = StandingAt(job, {"forget"}) + 1
      BY <1>1, <2>2, <2>3, StandingMoves
    <2>5. StandingAt(k, {"forget"}) <= Cardinality(Workers)
      BY StandingWithin
    <2> QED
      BY <1>4, <1>5, <2>4, <2>5 DEF Forgetting
  <1>7. CASE ~blocked
    <2>1. (Cardinality(Workers) - 1 - Forgetting) * (MaxAttempts - 1) \in Nat
      BY <1>4, <1>5, <1>6, Products
    <2>2. PICK x \in Nat : x = (Cardinality(Workers) - 1 - Forgetting) * (MaxAttempts - 1)
      BY <2>1
    <2>3. OldCounter' => attempts > 0
      BY <1>1, <1>5, PresentKeys DEF OldCounter, IInv, KeysInv
    <2>4. 0 <= (IF OldCounter' THEN Counted - 1 ELSE Counted + MaxAttempts - 2)
      BY <1>5, <2>3 DEF Counted
    <2>5. Counted' = Counted /\ Counted \in Int
      BY <1>1, <1>5 DEF Counted
    <2>6. GuessCredit' = (IF OldCounter' THEN Counted - 1 ELSE Counted + MaxAttempts - 2)
                         + x + Pending + slips
      BY <1>1, <1>4, <2>2, <2>5 DEF GuessCredit, CounterCredit
    <2>7. 0 <= GuessCredit'
      BY <1>4, <1>5, <2>2, <2>4, <2>5, <2>6
    <2> QED
      BY <1>1, <1>7, <2>7 DEF GuessInv
  <1>8. CASE blocked
    <2>1. Comparing <= Cardinality(Workers)
      BY StandingApart
    <2>2. 0 + Comparing' <= GuessLimit' + slips'
      BY <1>1, <1>4, <1>5, <2>1, LimitIsRoomy
    <2> QED
      BY <1>1, <1>8, <2>2 DEF GuessInv
  <1> QED
    BY <1>7, <1>8

\* A wrong guess: the call that compared is about to count it.
LEMMA WrongGuess ==
  ASSUME IInv, GuessInv, NEW w \in Workers,
         \A v \in Workers \ {w} : job'[v] = job[v],
         job[w].stage = "checked", job'[w].stage = "count", otp # 0, guesses' = guesses + 1,
         UNCHANGED <<otp, attempts, young, blocked, volatile, slips>>
  PROVE  GuessInv'
  <1>1. Pending' = Pending + 1 /\ Forgetting' = Forgetting /\ Comparing' = Comparing - 1
        /\ Pending \in Nat /\ Forgetting \in Nat /\ Comparing \in Nat
    BY CountsMove
  <1>2. GuessLimit' = GuessLimit /\ GuessLimit \in Int /\ slips \in Nat /\ guesses \in Nat
        /\ Cardinality(Workers) \in Nat /\ MaxAttempts \in Nat \ {0, 1} /\ attempts \in Nat
    BY StandingApart, OtpAssumption DEF GuessLimit, IInv, KeysInv
  <1>3. CASE ~blocked
    <2>1. guesses <= GuessCredit
      BY <1>3 DEF GuessInv
    <2>2. PICK x \in Int : x = (Cardinality(Workers) - 1 - Forgetting) * (MaxAttempts - 1)
      BY <1>1, <1>2
    <2>3. GuessCredit' = GuessCredit + 1 /\ GuessCredit \in Int
      <3>1. (OldCounter' <=> OldCounter) /\ Counted' = Counted /\ Counted \in Int
        BY <1>2 DEF OldCounter, Counted
      <3> QED
        BY <1>1, <1>2, <2>2, <3>1 DEF GuessCredit, CounterCredit
    <2>4. guesses' <= GuessCredit'
      BY <1>2, <2>1, <2>3
    <2> QED
      BY <1>3, <2>4 DEF GuessInv
  <1>4. CASE blocked
    <2>1. guesses + Comparing <= GuessLimit + slips
      BY <1>4 DEF GuessInv
    <2>2. guesses' + Comparing' <= GuessLimit' + slips'
      BY <1>1, <1>2, <2>1
    <2> QED
      BY <1>4, <2>2 DEF GuessInv
  <1> QED
    BY <1>3, <1>4

\* A step on a blocked identity that no call enters, or on one without a code.
LEMMA BlockedStays ==
  ASSUME IInv, GuessInv, blocked, blocked', Comparing \in Nat, Comparing' \in Nat,
         Comparing' <= Comparing, UNCHANGED <<otp, guesses>>, slips' >= slips, slips' \in Nat
  PROVE  GuessInv'
  <1>1. GuessLimit' = GuessLimit /\ GuessLimit \in Int /\ slips \in Nat /\ guesses \in Nat
    BY StandingApart, OtpAssumption DEF GuessLimit, IInv, KeysInv
  <1>2. CASE otp = 0
    BY <1>2 DEF GuessInv
  <1>3. CASE otp # 0
    <2>1. guesses + Comparing <= GuessLimit + slips
      BY <1>3 DEF GuessInv
    <2>2. PICK c \in Nat, d \in Nat : c = Comparing /\ d = Comparing'
      OBVIOUS
    <2>3. PICK s \in Nat, t \in Nat, l \in Int, g \in Nat :
            s = slips /\ t = slips' /\ l = GuessLimit /\ g = guesses
      BY <1>1
    <2>4. d <= c /\ s <= t /\ g + c <= l + s
      BY <2>1, <2>2, <2>3
    <2>5. g + d <= l + t
      BY <2>4
    <2>6. guesses' + Comparing' <= GuessLimit' + slips'
      BY <1>1, <2>2, <2>3, <2>5
    <2> QED
      BY <1>3, <2>6 DEF GuessInv
  <1> QED
    BY <1>2, <1>3

\* A step on an identity that is not blocked, which takes nothing from the credit.
LEMMA CreditStays ==
  ASSUME IInv, GuessInv, ~blocked, ~blocked', UNCHANGED <<otp, guesses>>,
         otp # 0 => GuessCredit' \in Int /\ GuessCredit \in Int /\ GuessCredit <= GuessCredit'
  PROVE  GuessInv'
  <1>1. guesses \in Nat
    BY DEF IInv, KeysInv
  <1>2. CASE otp = 0
    BY <1>2 DEF GuessInv
  <1>3. CASE otp # 0
    <2>1. guesses <= GuessCredit
      BY <1>3 DEF GuessInv
    <2>2. guesses' <= GuessCredit'
      BY <1>1, <1>3, <2>1
    <2> QED
      BY <1>3, <2>2 DEF GuessInv
  <1> QED
    BY <1>2, <1>3

LEMMA GuessNumbers ==
  ASSUME IInv
  PROVE  /\ MaxAttempts \in Nat \ {0, 1} /\ attempts \in Nat /\ guesses \in Nat /\ slips \in Nat
         /\ Cardinality(Workers) \in Nat /\ Counted \in Nat /\ CounterCredit \in Int
         /\ Counted <= MaxAttempts - 1 /\ CounterCredit <= 2 * MaxAttempts - 3
         /\ OldCounter => CounterCredit <= MaxAttempts - 2
  BY StandingApart, OtpAssumption DEF IInv, KeysInv, Counted, CounterCredit

\* The credit of the counter and the guesses not counted yet do not shrink, and no
\* call begins or ends deleting the counter.
LEMMA CreditKept ==
  ASSUME IInv, UNCHANGED Forgetting, Pending \in Nat, Pending' \in Nat, Forgetting \in Nat,
         slips' \in Nat, CounterCredit' \in Int,
         CounterCredit + Pending + slips <= CounterCredit' + Pending' + slips'
  PROVE  GuessCredit \in Int /\ GuessCredit' \in Int /\ GuessCredit <= GuessCredit'
  <1>1. PICK x \in Int : x = (Cardinality(Workers) - 1 - Forgetting) * (MaxAttempts - 1)
    BY GuessNumbers
  <1>2. PICK p \in Nat, q \in Nat, s \in Nat, t \in Nat, c \in Int, d \in Int :
          /\ p = Pending /\ q = Pending' /\ s = slips /\ t = slips'
          /\ c = CounterCredit /\ d = CounterCredit'
    BY GuessNumbers
  <1>3. GuessCredit = c + x + p + s /\ GuessCredit' = d + x + q + t
    BY <1>1, <1>2 DEF GuessCredit
  <1>4. c + p + s <= d + q + t
    BY <1>2
  <1>5. c + x + p + s <= d + x + q + t /\ c + x + p + s \in Int /\ d + x + q + t \in Int
    BY <1>4
  <1> QED
    BY <1>3, <1>5

\* The failure of a call is counted.
LEMMA IncrGuesses ==
  ASSUME IInv, GuessInv, NEW w \in Workers, Incr(w)
  PROVE  GuessInv'
  <1>1. /\ job[w].stage = "count" /\ attempts' = attempts + 1
        /\ UNCHANGED <<otp, guesses, young, blocked, volatile, slips>>
    BY DEF Incr, past
  <1>2. job[w] # Idle /\ job[w] \in Job /\ job \in [Workers -> Job \cup {Idle}]
    BY <1>1, Failing DEF IInv, JobsInv
  <1>3. /\ \A v \in Workers \ {w} : job'[v] = job[v]
        /\ \/ job'[w].stage \in {"idle", "expire"} /\ (attempts = 0 \/ attempts + 1 < MaxAttempts)
           \/ job'[w].stage = "block" /\ attempts # 0 /\ attempts + 1 >= MaxAttempts
    <2>1. CASE attempts = 0 /\ Goto(w, "expire")
      BY <1>2, <2>1 DEF Goto, Job
    <2>2. CASE attempts # 0 /\ attempts + 1 >= MaxAttempts /\ Goto(w, "block")
      BY <1>2, <2>2 DEF Goto, Job
    <2>3. CASE attempts # 0 /\ ~(attempts + 1 >= MaxAttempts) /\ Return(w)
      BY <1>2, <2>3, GuessNumbers DEF Return, Idle
    <2> QED
      BY <2>1, <2>2, <2>3 DEF Incr
  <1>4. /\ Pending \in Nat /\ Pending' \in Nat /\ Forgetting \in Nat /\ Forgetting' = Forgetting
        /\ Comparing \in Nat /\ Comparing' = Comparing
        /\ \/ Pending' = Pending - 1 /\ (attempts = 0 \/ attempts + 1 < MaxAttempts)
           \/ Pending' = Pending /\ attempts # 0 /\ attempts + 1 >= MaxAttempts
    <2>1. /\ Pending \in Nat /\ Pending' \in Nat /\ Forgetting \in Nat /\ Forgetting' = Forgetting
          /\ Comparing \in Nat /\ Comparing' = Comparing
      BY <1>1, <1>3, CountsMove
    <2>2. CASE job'[w].stage \in {"idle", "expire"} /\ (attempts = 0 \/ attempts + 1 < MaxAttempts)
      <3>1. Pending' = Pending - 1
        BY <1>1, <1>3, <2>2, CountsMove
      <3> QED
        BY <2>1, <2>2, <3>1
    <2>3. CASE job'[w].stage = "block" /\ attempts # 0 /\ attempts + 1 >= MaxAttempts
      <3>1. Pending' = Pending
        BY <1>1, <1>3, <2>3, CountsMove
      <3> QED
        BY <2>1, <2>3, <3>1
    <2> QED
      BY <1>3, <2>2, <2>3
  <1>5. CASE blocked
    BY <1>1, <1>4, <1>5, GuessNumbers, BlockedStays
  <1>6. CASE ~blocked
    <2>1. OldCounter' <=> OldCounter
      BY <1>1 DEF OldCounter
    <2>2. attempts = 0 => ~OldCounter
      BY PresentKeys DEF OldCounter, IInv, KeysInv
    <2>3. Counted' \in Int /\ Counted \in Int
          /\ (Pending' = Pending - 1 => Counted' = Counted + 1)
          /\ (Pending' = Pending => Counted' >= Counted)
      BY <1>1, <1>4, GuessNumbers DEF Counted
    <2>4. CounterCredit' \in Int /\ CounterCredit + Pending <= CounterCredit' + Pending'
      BY <1>4, <2>1, <2>3, GuessNumbers DEF CounterCredit
    <2>5. CounterCredit + Pending + slips <= CounterCredit' + Pending' + slips'
      BY <1>1, <1>4, <2>4, GuessNumbers
    <2>6. GuessCredit \in Int /\ GuessCredit' \in Int /\ GuessCredit <= GuessCredit'
      BY <1>1, <1>4, <2>4, <2>5, GuessNumbers, CreditKept
    <2> QED
      BY <1>1, <1>6, <2>6, CreditStays
  <1> QED
    BY <1>5, <1>6

\* The counter gets its deadline.
LEMMA ExpireGuesses ==
  ASSUME IInv, GuessInv, NEW w \in Workers, Expire(w)
  PROVE  GuessInv'
  <1>1. /\ job[w].stage = "expire" /\ Return(w)
        /\ UNCHANGED <<otp, guesses, attempts, blocked, slips>>
        /\ UNCHANGED <<volatile, young>> \/ young' = TRUE
    BY DEF Expire, past
  <1>2. job'[w].stage = "idle" /\ \A v \in Workers \ {w} : job'[v] = job[v]
    BY <1>1 DEF Return, Idle, IInv, JobsInv
  <1>3. /\ Pending \in Nat /\ Forgetting \in Nat /\ Comparing \in Nat
        /\ UNCHANGED <<Pending, Forgetting, Comparing>>
    BY <1>1, <1>2, CountsMove
  <1>4. CASE blocked
    BY <1>1, <1>3, <1>4, GuessNumbers, BlockedStays
  <1>5. CASE ~blocked
    <2>1. OldCounter' => OldCounter
      BY <1>1 DEF OldCounter
    <2>2. Counted' = Counted
      BY <1>1 DEF Counted
    <2>3. CounterCredit' \in Int /\ CounterCredit <= CounterCredit'
      BY <2>1, <2>2, GuessNumbers DEF CounterCredit
    <2>4. CounterCredit + Pending + slips <= CounterCredit' + Pending' + slips'
      BY <1>1, <1>3, <2>3, GuessNumbers
    <2>5. GuessCredit \in Int /\ GuessCredit' \in Int /\ GuessCredit <= GuessCredit'
      BY <1>1, <1>3, <2>3, <2>4, GuessNumbers, CreditKept
    <2> QED
      BY <1>1, <1>5, <2>5, CreditStays
  <1> QED
    BY <1>4, <1>5

\* The block is set, and the credit becomes a limit.
LEMMA BlockGuesses ==
  ASSUME IInv, GuessInv, NEW w \in Workers, Block(w)
  PROVE  GuessInv'
  <1>1. /\ job[w].stage = "block" /\ job' = [job EXCEPT ![w].stage = "forget"] /\ blocked'
        /\ UNCHANGED <<otp, guesses, slips>>
    BY DEF Block, past
  <1>2. job[w] \in Job /\ job \in [Workers -> Job \cup {Idle}]
    BY <1>1, Failing DEF IInv, JobsInv
  <1>3. job'[w].stage = "forget" /\ \A v \in Workers \ {w} : job'[v] = job[v]
    BY <1>1, <1>2 DEF Job
  <1>4. Comparing \in Nat /\ Comparing' = Comparing
    BY <1>1, <1>3, CountsMove
  <1>5. CASE blocked
    BY <1>1, <1>4, <1>5, GuessNumbers, BlockedStays
  <1>6. CASE otp = 0
    BY <1>1, <1>6 DEF GuessInv
  <1>7. CASE otp # 0 /\ ~blocked
    <2>1. guesses <= GuessCredit
      BY <1>7 DEF GuessInv
    <2>2. guesses + Comparing <= GuessLimit + slips
      BY <2>1, GuessNumbers, CreditIsBounded
    <2>3. GuessLimit' = GuessLimit
      BY DEF GuessLimit
    <2>4. guesses' + Comparing' <= GuessLimit' + slips'
      BY <1>1, <1>4, <2>2, <2>3
    <2> QED
      BY <1>1, <1>7, <2>4 DEF GuessInv
  <1> QED
    BY <1>5, <1>6, <1>7

\* The counter is deleted: the credit of the call pays for what the counter held.
LEMMA ForgetGuesses ==
  ASSUME IInv, GuessInv, NEW w \in Workers, Forget(w)
  PROVE  GuessInv'
  <1>1. /\ job[w].stage = "forget" /\ Return(w) /\ attempts' = 0 /\ young' = FALSE
        /\ volatile' = volatile \ {"attempts"} /\ UNCHANGED <<otp, guesses, blocked, slips>>
    BY DEF Forget, past
  <1>2. job'[w].stage = "idle" /\ \A v \in Workers \ {w} : job'[v] = job[v]
    BY <1>1 DEF Return, Idle, IInv, JobsInv
  <1>3. /\ Pending \in Nat /\ Forgetting \in Nat /\ Comparing \in Nat
        /\ UNCHANGED <<Pending, Comparing>> /\ Forgetting' = Forgetting - 1
    BY <1>1, <1>2, CountsMove
  <1>4. CASE blocked
    BY <1>1, <1>3, <1>4, GuessNumbers, BlockedStays
  <1>5. CASE ~blocked
    <2>1. CounterCredit' = MaxAttempts - 2
      BY <1>1, GuessNumbers DEF CounterCredit, OldCounter, Counted
    <2>2. PICK n \in Nat, m \in Nat \ {0, 1}, f \in Nat, p \in Nat, s \in Nat, c \in Int :
            /\ n = Cardinality(Workers) /\ m = MaxAttempts /\ f = Forgetting /\ p = Pending
            /\ s = slips /\ c = CounterCredit
      BY <1>3, GuessNumbers
    <2>3. c <= 2 * m - 3
      BY <2>2, GuessNumbers
    <2>4. GuessCredit = c + (n - 1 - f) * (m - 1) + p + s
      BY <2>2 DEF GuessCredit
    <2>5. GuessCredit' = m - 2 + (n - 1 - (f - 1)) * (m - 1) + p + s
      BY <1>1, <1>3, <2>1, <2>2 DEF GuessCredit
    <2>6. (n - 1 - (f - 1)) * (m - 1) = (n - 1 - f) * (m - 1) + (m - 1)
      OBVIOUS
    <2>7. PICK x \in Int : x = (n - 1 - f) * (m - 1)
      OBVIOUS
    <2>8. GuessCredit = c + x + p + s /\ GuessCredit' = m - 2 + x + m - 1 + p + s
      BY <2>4, <2>5, <2>6, <2>7
    <2>9. GuessCredit \in Int /\ GuessCredit' \in Int /\ GuessCredit <= GuessCredit'
      BY <2>3, <2>8
    <2> QED
      BY <1>1, <1>5, <2>9, CreditStays
  <1> QED
    BY <1>4, <1>5

\* A call breaks off: a guess that it would have counted is one more slip.
LEMMA InterruptGuesses ==
  ASSUME IInv, GuessInv, NEW w \in Workers, Interrupt(w)
  PROVE  GuessInv'
  <1>1. /\ Return(w) /\ slips' = slips + 1
        /\ UNCHANGED <<otp, guesses, attempts, young, blocked, volatile>>
    BY DEF Interrupt, keys
  <1>2. job'[w].stage = "idle" /\ \A v \in Workers \ {w} : job'[v] = job[v]
    BY <1>1 DEF Return, Idle, IInv, JobsInv
  <1>3. /\ Pending \in Nat /\ Forgetting \in Nat /\ Comparing \in Nat
        /\ Pending' \in Nat /\ Forgetting' \in Nat /\ Comparing' \in Nat
        /\ Pending' >= Pending - 1 /\ Forgetting' <= Forgetting /\ Comparing' <= Comparing
    BY <1>1, <1>2, CountsMove
  <1>4. CASE blocked
    BY <1>1, <1>3, <1>4, GuessNumbers, BlockedStays
  <1>5. CASE ~blocked
    <2>1. CounterCredit' = CounterCredit
      BY <1>1 DEF CounterCredit, OldCounter, Counted
    <2>2. PICK n \in Nat, m \in Nat \ {0, 1}, f \in Nat, g \in Nat, p \in Nat, q \in Nat,
               s \in Nat, c \in Int :
            /\ n = Cardinality(Workers) /\ m = MaxAttempts /\ f = Forgetting /\ g = Forgetting'
            /\ p = Pending /\ q = Pending' /\ s = slips /\ c = CounterCredit
      BY <1>3, GuessNumbers
    <2>3. q >= p - 1 /\ g <= f
      BY <1>3, <2>2
    <2>4. GuessCredit = c + (n - 1 - f) * (m - 1) + p + s
      BY <2>2 DEF GuessCredit
    <2>5. GuessCredit' = c + (n - 1 - g) * (m - 1) + q + s + 1
      BY <1>1, <2>1, <2>2 DEF GuessCredit
    <2>6. (f - g) * (m - 1) \in Nat
      BY <2>3, Products
    <2>7. (n - 1 - g) * (m - 1) = (n - 1 - f) * (m - 1) + (f - g) * (m - 1)
      OBVIOUS
    <2>8. PICK x \in Int, d \in Nat : x = (n - 1 - f) * (m - 1) /\ d = (f - g) * (m - 1)
      BY <2>6
    <2>9. GuessCredit = c + x + p + s /\ GuessCredit' = c + x + d + q + s + 1
      BY <2>4, <2>5, <2>7, <2>8
    <2>10. GuessCredit \in Int /\ GuessCredit' \in Int /\ GuessCredit <= GuessCredit'
      BY <2>3, <2>9
    <2> QED
      BY <1>1, <1>5, <2>10, CreditStays
  <1> QED
    BY <1>4, <1>5

\* The calls stand still: time passes, or somebody edits a row.
LEMMA StandstillGuesses ==
  ASSUME IInv, GuessInv, UNCHANGED <<job, slips>>,
         \/ otp' = 0 /\ guesses' = 0
         \/ UNCHANGED <<otp, guesses, attempts, young, blocked>>
            /\ ("attempts" \in volatile' <=> "attempts" \in volatile)
         \/ UNCHANGED <<otp, guesses, blocked>> /\ (otp # 0 => OldCounter)
            /\ attempts' = 0 /\ young' = FALSE /\ volatile' = volatile \ {"attempts"}
         \/ UNCHANGED <<otp, guesses>> /\ otp = 0
  PROVE  GuessInv'
  <1>1. /\ Pending \in Nat /\ Forgetting \in Nat /\ Comparing \in Nat
        /\ UNCHANGED <<Pending, Forgetting, Comparing>>
    BY StandingApart DEF Pending, Forgetting, Comparing, StandingAt
  <1>2. CASE otp' = 0 /\ guesses' = 0
    BY <1>2, GuessesGone
  <1>3. CASE UNCHANGED <<otp, guesses>> /\ otp = 0
    BY <1>3 DEF GuessInv
  <1>4. CASE otp # 0 /\ UNCHANGED <<otp, guesses, blocked>> /\ blocked
    BY <1>1, <1>4, GuessNumbers, BlockedStays
  <1>5. ASSUME otp # 0, UNCHANGED <<otp, guesses, blocked>>, ~blocked,
               CounterCredit' \in Int, CounterCredit <= CounterCredit'
        PROVE  GuessInv'
    <2>1. CounterCredit + Pending + slips <= CounterCredit' + Pending' + slips'
      BY <1>1, <1>5, GuessNumbers
    <2>2. GuessCredit \in Int /\ GuessCredit' \in Int /\ GuessCredit <= GuessCredit'
      BY <1>1, <1>5, <2>1, GuessNumbers, CreditKept
    <2> QED
      BY <1>5, <2>2, CreditStays
  <1>6. CASE /\ UNCHANGED <<otp, guesses, attempts, young, blocked>>
             /\ ("attempts" \in volatile' <=> "attempts" \in volatile)
    <2>1. CounterCredit' = CounterCredit
      BY <1>6 DEF CounterCredit, OldCounter, Counted
    <2> QED
      BY <1>3, <1>4, <1>5, <1>6, <2>1, GuessNumbers
  <1>7. CASE /\ UNCHANGED <<otp, guesses, blocked>> /\ (otp # 0 => OldCounter)
             /\ attempts' = 0 /\ young' = FALSE /\ volatile' = volatile \ {"attempts"}
    <2>1. CounterCredit' = MaxAttempts - 2
      BY <1>7, GuessNumbers DEF CounterCredit, OldCounter, Counted
    <2>2. CASE otp # 0
      BY <1>4, <1>5, <1>7, <2>1, <2>2, GuessNumbers
    <2> QED
      BY <1>3, <1>7, <2>2
  <1> QED
    BY <1>2, <1>3, <1>6, <1>7

LEMMA TimeGuesses ==
  ASSUME IInv, GuessInv, TimePasses
  PROVE  GuessInv'
  <1>1. UNCHANGED <<job, slips>> /\ Vanish
    BY DEF TimePasses, past
  <1>2. \/ otp' = 0 /\ guesses' = 0
        \/ UNCHANGED <<otp, guesses, attempts, young, blocked>>
           /\ ("attempts" \in volatile' <=> "attempts" \in volatile)
        \/ UNCHANGED <<otp, guesses, blocked>> /\ (otp # 0 => OldCounter)
           /\ attempts' = 0 /\ young' = FALSE /\ volatile' = volatile \ {"attempts"}
        \/ UNCHANGED <<otp, guesses>> /\ otp = 0
    BY <1>1 DEF Vanish, DeleteOtp, OldCounter
  <1> QED
    BY <1>1, <1>2, StandstillGuesses

\* A call goes on or returns, and nothing about the guesses changes.
LEMMA AsideStep ==
  ASSUME IInv, GuessInv, NEW w \in Workers, NEW t \in Stage \ {"count", "block", "forget", "checked"},
         job[w] # Idle, job[w].stage \notin {"count", "block", "forget"},
         Goto(w, t) \/ Return(w),
         UNCHANGED <<otp, guesses, attempts, young, blocked, slips>>,
         "attempts" \in volatile' <=> "attempts" \in volatile
  PROVE  GuessInv'
  <1>1. job[w] \in Job /\ job \in [Workers -> Job \cup {Idle}]
    BY DEF IInv, JobsInv
  <1>2. /\ \A v \in Workers \ {w} : job'[v] = job[v]
        /\ job'[w].stage \in {"idle", t}
    <2>1. CASE Goto(w, t)
      BY <1>1, <2>1 DEF Goto, Job
    <2>2. CASE Return(w)
      BY <1>1, <2>2 DEF Return, Idle
    <2> QED
      BY <2>1, <2>2
  <1>3. Aside(w)
    BY <1>2 DEF Aside
  <1> QED
    BY <1>3, AsideKeeps

\* The same for a call that leaves all keys alone.
LEMMA AsideQuiet ==
  ASSUME IInv, GuessInv, NEW w \in Workers, NEW c \in Call,
         NEW s \in Stage \ {"count", "block", "forget"},
         NEW t \in Stage \ {"count", "block", "forget", "checked"},
         At(w, c, s), Goto(w, t) \/ Return(w), UNCHANGED <<keys, past>>
  PROVE  GuessInv'
  <1>1. job[w] # Idle /\ job[w].stage = s
    BY AtWhere
  <1>2. UNCHANGED <<otp, guesses, attempts, young, blocked, volatile, slips>>
    BY DEF keys, past
  <1> QED
    BY <1>1, <1>2, AsideStep

LEMMA EnterGuesses ==
  ASSUME IInv, GuessInv, NEW w \in Workers, NEW c \in Call,
         NEW t \in Stage \ {"count", "block", "forget"},
         Enter(w, c, t), t = "checked" => ~blocked, UNCHANGED <<keys, past>>
  PROVE  GuessInv'
  <1>1. job \in [Workers -> Job \cup {Idle}]
    BY DEF IInv, JobsInv
  <1>2. /\ \A v \in Workers \ {w} : job'[v] = job[v]
        /\ job'[w].stage = t /\ job[w].stage = "idle"
    BY <1>1 DEF Enter, Idle
  <1>3. Aside(w)
    BY <1>2 DEF Aside, keys, past
  <1> QED
    BY <1>3, AsideKeeps

LEMMA AssertGuesses ==
  ASSUME IInv, GuessInv, NEW w \in Workers, NEW c \in Call, AssertNotBlocked(w, c)
  PROVE  GuessInv'
  BY EnterGuesses DEF AssertNotBlocked, Stage

\* A comparison: only a wrong guess changes anything.
LEMMA CompareGuesses ==
  ASSUME IInv, GuessInv, NEW w \in Workers, NEW c \in Call, Compare(w, c)
  PROVE  GuessInv'
  <1>1. /\ At(w, c, "checked") /\ job[w] # Idle /\ job[w].stage = "checked"
        /\ UNCHANGED <<otp, attempts, young, blocked, volatile, slips>>
    BY AtWhere DEF Compare, past
  <1>2. job[w] \in Job /\ job \in [Workers -> Job \cup {Idle}]
    BY <1>1 DEF IInv, JobsInv
  <1>3. CASE Return(w) /\ UNCHANGED guesses
    BY <1>1, <1>3, AsideStep DEF Stage
  <1>4. ASSUME NEW s \in {"drop", "count"}, job' = [job EXCEPT ![w].call = "refuse", ![w].stage = s]
        PROVE  job'[w].stage = s /\ \A v \in Workers \ {w} : job'[v] = job[v]
    BY <1>2, <1>4 DEF Job
  <1>5. CASE job' = [job EXCEPT ![w].call = "refuse", ![w].stage = "drop"] /\ UNCHANGED guesses
    <2>1. Aside(w)
      BY <1>1, <1>4, <1>5 DEF Aside
    <2> QED
      BY <2>1, AsideKeeps
  <1>6. CASE /\ job' = [job EXCEPT ![w].stage = "accepted", ![w].code = otp] /\ UNCHANGED guesses
    <2>1. job'[w].stage = "accepted" /\ \A v \in Workers \ {w} : job'[v] = job[v]
      BY <1>2, <1>6 DEF Job
    <2>2. Aside(w)
      BY <1>1, <1>6, <2>1 DEF Aside
    <2> QED
      BY <2>2, AsideKeeps
  <1>7. CASE /\ otp # 0 /\ guesses' = guesses + 1
             /\ job' = [job EXCEPT ![w].call = "refuse", ![w].stage = "count"]
    BY <1>1, <1>4, <1>7, WrongGuess
  <1> QED
    BY <1>3, <1>5, <1>6, <1>7 DEF Compare

LEMMA VerifyingGuesses ==
  ASSUME IInv, GuessInv, NEW w \in Workers,
         \/ VerifyAdminLoginCode(w) \/ VerifyCustomerLoginCode(w) \/ VerifyForgotPasswordOtp(w)
         \/ Verifying(w)
  PROVE  GuessInv'
  <1>1. CASE Drop(w) \/ ClearAccepted(w, "verify")
    BY <1>1, GuessesGone DEF Drop, DeleteOtp, ClearAccepted, DeleteAll
  <1>2. "verify" \in Call
    BY DEF Call, Checked
  <1> QED
    BY <1>1, <1>2, AssertGuesses, CompareGuesses, IncrGuesses, ExpireGuesses, BlockGuesses, ForgetGuesses
    DEF VerifyAdminLoginCode, VerifyCustomerLoginCode, VerifyForgotPasswordOtp, VerifyCode, Verifying

LEMMA RequestGuesses ==
  ASSUME IInv, GuessInv, NEW w \in Workers,
         \/ RequestAdminLoginCode(w) \/ PasswordLogin(w) \/ RequestCustomerLoginCode(w)
         \/ ResendOtp(w) \/ ForgotPassword(w)
  PROVE  GuessInv'
  <1>1. {"admin", "password", "customer", "resend", "forgot"} \subseteq Call
        /\ {"clear", "look", "create", "settings", "store", "find"}
             \subseteq Stage \ {"count", "block", "forget", "checked"}
        /\ "checked" \in Stage \ {"count", "block", "forget"}
    BY DEF Call, Checked, Stage
  <1>2. ASSUME NEW c \in Call, ClearBefore(w, c) PROVE GuessInv'
    BY <1>2, GuessesGone DEF ClearBefore, DeleteAll
  <1>3. CASE RequestAdminLoginCode(w)
    BY <1>1, <1>2, <1>3, AssertGuesses, StoreGuesses, AsideQuiet DEF RequestAdminLoginCode
  <1>4. CASE PasswordLogin(w)
    BY <1>1, <1>2, <1>4, EnterGuesses, StoreGuesses DEF PasswordLogin
  <1>5. CASE RequestCustomerLoginCode(w)
    BY <1>1, <1>5, AssertGuesses, StoreGuesses, AsideQuiet
    DEF RequestCustomerLoginCode, FindUser, CreateUser, CreateSettings
  <1>6. CASE ResendOtp(w)
    <2>1. CASE DeleteOtp
      BY <2>1, GuessesGone DEF DeleteOtp
    <2> QED
      BY <1>1, <1>6, <2>1, AssertGuesses, StoreGuesses, AsideQuiet DEF ResendOtp
  <1>7. CASE ForgotPassword(w)
    BY <1>1, <1>7, AssertGuesses, StoreGuesses, AsideQuiet DEF ForgotPassword
  <1> QED
    BY <1>3, <1>4, <1>5, <1>6, <1>7

LEMMA SignUpGuesses ==
  ASSUME IInv, GuessInv, NEW w \in Workers, SignUp(w) \/ VerifySignupOtp(w)
  PROVE  GuessInv'
  <1>1. {"signUp", "verifySignup"} \subseteq Call
        /\ {"data", "store", "accepted", "create", "settings", "clear", "unsign"}
             \subseteq Stage \ {"count", "block", "forget", "checked"}
        /\ "checked" \in Stage \ {"count", "block", "forget"}
    BY DEF Call, Checked, Stage
  <1>2. ASSUME NEW c \in Call, NEW s \in Stage \ {"count", "block", "forget", "checked"},
               NEW t \in Stage \ {"count", "block", "forget", "checked"},
               At(w, c, s), Goto(w, t) \/ Return(w),
               volatile' = volatile \cup {"signup"} \/ volatile' = volatile \ {"signup"},
               UNCHANGED <<otp, late, guesses, attempts, young, blocked, codes, account, past>>
        PROVE  GuessInv'
    <2>1. job[w] # Idle /\ job[w].stage = s
      BY <1>2, AtWhere
    <2>2. UNCHANGED <<otp, guesses, attempts, young, blocked, slips>>
          /\ ("attempts" \in volatile' <=> "attempts" \in volatile)
      BY <1>2 DEF past
    <2> QED
      BY <1>2, <2>1, <2>2, AsideStep
  <1>3. CASE SignUp(w)
    BY <1>1, <1>2, <1>3, AssertGuesses, StoreGuesses, AsideQuiet DEF SignUp
  <1>4. CASE VerifySignupOtp(w)
    <2>1. CASE DeleteAll
      BY <2>1, GuessesGone DEF DeleteAll
    <2> QED
      BY <1>1, <1>2, <1>4, <2>1, AssertGuesses, CompareGuesses, AsideQuiet
      DEF VerifySignupOtp, CreateUser, CreateSettings
  <1> QED
    BY <1>3, <1>4

LEMMA RowsGuesses ==
  ASSUME IInv, GuessInv, NEW w \in Workers, GetUserSettings(w) \/ CreateUserByAdmin(w)
  PROVE  GuessInv'
  <1>1. {"settings", "createUser"} \subseteq Call
        /\ {"look", "settings", "create"} \subseteq Stage \ {"count", "block", "forget", "checked"}
    BY DEF Call, Checked, Stage
  <1>2. CASE GetUserSettings(w)
    BY <1>1, <1>2, EnterGuesses, AsideQuiet DEF GetUserSettings, CreateSettings
  <1>3. CASE CreateUserByAdmin(w)
    BY <1>1, <1>3, EnterGuesses, AsideQuiet DEF CreateUserByAdmin, CreateUser
  <1> QED
    BY <1>2, <1>3

LEMMA NextGuesses ==
  ASSUME IInv, GuessInv, [Next]_vars
  PROVE  GuessInv'
  <1>1. CASE Edit \/ UNCHANGED vars
    <2>1. UNCHANGED <<job, keys, past>>
      BY <1>1 DEF Edit, vars
    <2> QED
      BY <2>1, StandstillGuesses DEF keys, past
  <1>2. ASSUME NEW w \in Workers, Step(w) PROVE GuessInv'
    BY <1>2, VerifyingGuesses, RequestGuesses, SignUpGuesses, RowsGuesses, InterruptGuesses DEF Step
  <1> QED
    BY <1>1, <1>2, TimeGuesses DEF Next

\* The credit holds in every reachable state.
THEOREM CreditInvariance == Spec => [](IInv /\ GuessInv)
  <1>1. Init => IInv /\ GuessInv
    BY Initially DEF Init, GuessInv
  <1>2. IInv /\ GuessInv /\ [Next]_vars => IInv' /\ GuessInv'
    BY NextKeeps, NextGuesses
  <1> QED
    BY <1>1, <1>2, PTL DEF Spec

\* However the calls overlap, however keys run out and calls break off, a code
\* meets no more wrong guesses than GuessLimit and one for each call that broke off.
THEOREM GuessesAreBounded == Spec => []GuessesBounded
  <1>1. IInv /\ GuessInv => GuessesBounded
    <2> SUFFICES ASSUME IInv, GuessInv PROVE GuessesBounded
      OBVIOUS
    <2>1. GuessLimit \in Int
      BY GuessNumbers DEF GuessLimit
    <2>2. ASSUME guesses + Comparing <= GuessLimit + slips PROVE guesses <= GuessLimit + slips
      BY <2>1, <2>2, GuessNumbers, StandingApart
    <2>3. CASE otp # 0 /\ ~blocked
      BY <2>2, <2>3, GuessNumbers, CreditIsBounded DEF GuessInv, GuessesBounded
    <2>4. CASE otp # 0 /\ blocked
      BY <2>2, <2>4 DEF GuessInv, GuessesBounded
    <2>5. CASE otp = 0
      <3>1. Cardinality(Workers) <= GuessLimit /\ guesses = 0
        BY <2>5, LimitIsRoomy DEF GuessInv
      <3> QED
        BY <2>1, <3>1, GuessNumbers DEF GuessesBounded
    <2> QED
      BY <2>3, <2>4, <2>5
  <1> QED
    BY CreditInvariance, <1>1, PTL
======================================================================
