-------------------------------- MODULE Otp --------------------------------
(***************************************************************************)
(* The one-time codes of AuthService for one identity (a phone number in a *)
(* tenant): sign-up, code logins, the second factor of a password login,   *)
(* resend and the forgotten password.  All of them share four Redis keys   *)
(* of the identity: the code, the counter of failed attempts, the block    *)
(* and the data of a pending sign-up.  Every await of a call is a step of  *)
(* its own; nothing is undone when a call throws.                          *)
(*                                                                         *)
(* Time.  Codes live OTP_TTL_SECONDS (5 min), the counter and the block    *)
(* OTP_BLOCK_TTL_SECONDS (15 min).  There is no clock, only what the two   *)
(* lengths imply: a key of 15 minutes that was given its deadline in the   *)
(* life of a code outlives that code; and a call in progress when a block  *)
(* is set ends, and so does the life of a code it stores, before the block *)
(* does.  Codes are numbered: that two random codes coincide, or that a    *)
(* wrong guess hits, is left out.                                          *)
(***************************************************************************)
EXTENDS Integers, FiniteSets

CONSTANTS
  Workers,        \* calls that may be in progress at once
  LoginMethods,   \* the login methods that users choose
  MaxAttempts,    \* OTP_MAX_ATTEMPTS
  MaxCodes,       \* bound on the codes that are made
  MaxSlips        \* bound on the calls that break off between two awaits

LoginMethod == {"PASSWORD_ONLY", "OTP_ONLY", "PASSWORD_AND_OTP"}

ASSUME OtpAssumption ==
  /\ IsFiniteSet(Workers)
  /\ LoginMethods \subseteq LoginMethod
  /\ MaxAttempts \in Nat \ {0, 1}
  /\ MaxCodes \in Nat /\ MaxSlips \in Nat

VARIABLES
  otp,        \* the code stored, 0 if there is none
  late,       \* whether it is past its expiresAt already (Redis may be a moment behind)
  attempts,   \* the counter of failed attempts, 0 if there is none
  young,      \* whether the counter got its deadline in the life of the code stored
  blocked,    \* whether the block key is there
  signup,     \* whether the data of a pending sign-up are there
  volatile,   \* the keys that have a deadline
  codes,      \* how many codes were made
  account,    \* the user's row and its settings row
  job,        \* what each worker is doing
  guesses,    \* history: the wrong guesses the stored code has met
  spent,      \* history: the codes whose acceptance has cleared the keys
  elders,     \* history: the calls in progress that are older than the block
  slips       \* history: how many calls broke off

keys == <<otp, late, guesses, attempts, young, blocked, signup, volatile>>
past == <<spent, slips>>
vars == <<keys, codes, account, job, past, elders>>

Key == {"otp", "attempts", "blocked", "signup"}
Present == {k \in Key : \/ k = "otp" /\ otp # 0
                        \/ k = "attempts" /\ attempts # 0
                        \/ k = "blocked" /\ blocked
                        \/ k = "signup" /\ signup}

\* The routes that come here; "verify" is any of the three that take a code and
\* create nobody, "refuse" a verification that will refuse its code, "password"
\* is POST login, the last two are settings and users.
Checked == {"signUp", "verifySignup", "admin", "customer", "resend", "forgot",
            "verify", "refuse"}
Call == Checked \cup {"password", "settings", "createUser"}
Stage == {"checked", "data", "find", "create", "look", "settings", "clear", "store",
          "drop", "count", "expire", "block", "forget", "accepted", "unsign"}

Job == [call : Call, stage : Stage, code : 0 .. MaxCodes]
Idle == [call |-> "none", stage |-> "idle", code |-> 0]
Busy == {w \in Workers : job[w] # Idle}

Account == [role : {"none", "CUSTOMER", "ADMIN"}, method : LoginMethod \cup {"none"},
            password : BOOLEAN]
Exists == account.role # "none"

\* A customer nobody has seen, or an administrator of the seed data.
Init ==
  /\ otp = 0 /\ late = FALSE /\ attempts = 0 /\ young = FALSE
  /\ blocked = FALSE /\ signup = FALSE /\ volatile = {}
  /\ codes = 0
  /\ account \in { [role |-> "none", method |-> "none", password |-> FALSE],
                   [role |-> "ADMIN", method |-> "none", password |-> TRUE] }
  /\ job = [w \in Workers |-> Idle]
  /\ guesses = 0 /\ spent = {} /\ elders = {} /\ slips = 0

-----------------------------------------------------------------------------
(* What the calls are made of.                                             *)

At(w, c, s) == job[w].call = c /\ job[w].stage = s
Enter(w, c, s) == /\ job[w] = Idle
                  /\ job' = [job EXCEPT ![w] = [call |-> c, stage |-> s, code |-> 0]]
                  /\ UNCHANGED elders
Goto(w, s) == job' = [job EXCEPT ![w].stage = s] /\ UNCHANGED elders
Return(w) == job' = [job EXCEPT ![w] = Idle] /\ elders' = elders \ {w}

\* Mutant: the block is not looked at.
ForgetfulAssertNotBlocked(w, c) ==
  /\ Enter(w, c, "checked")
  /\ UNCHANGED <<keys, codes, account, past>>

\* assertNotBlocked; a blocked call ends here.
AssertNotBlocked(w, c) ==
  /\ ~blocked
  /\ Enter(w, c, "checked")
  /\ UNCHANGED <<keys, codes, account, past>>

\* storeOtp of a new code: whatever code was there is overwritten.
StoreOtp(w, c) ==
  /\ At(w, c, "store") /\ codes < MaxCodes
  /\ codes' = codes + 1
  /\ otp' = codes + 1 /\ late' = FALSE /\ volatile' = volatile \cup {"otp"}
  /\ young' = FALSE
  /\ guesses' = 0
  /\ Return(w)
  /\ UNCHANGED <<attempts, blocked, signup, account, past>>

\* redis.del of the code, the counter and the block: one command.
DeleteAll ==
  /\ otp' = 0 /\ late' = FALSE /\ guesses' = 0
  /\ attempts' = 0 /\ young' = FALSE /\ blocked' = FALSE
  /\ volatile' = volatile \ {"otp", "attempts", "blocked"}
  /\ UNCHANGED signup

\* clearOtpState before a new code is made.
ClearBefore(w, c) ==
  /\ At(w, c, "clear")
  /\ DeleteAll /\ Goto(w, "store")
  /\ UNCHANGED <<codes, account, past>>

DeleteOtp == otp' = 0 /\ late' = FALSE /\ guesses' = 0 /\ volatile' = volatile \ {"otp"}
               /\ UNCHANGED <<attempts, young, blocked, signup>>

-----------------------------------------------------------------------------
(* Verifying a code, and recordFailedAttempt.                              *)

\* getOtpEntry and the comparison, in one go: no code, one past its time, the
\* right one or a wrong one.
Compare(w, c) ==
  /\ At(w, c, "checked")
  /\ \/ /\ otp = 0 /\ Return(w)
        /\ UNCHANGED guesses
     \/ /\ late
        /\ job' = [job EXCEPT ![w].call = "refuse", ![w].stage = "drop"]
        /\ UNCHANGED <<elders, guesses>>
     \/ /\ otp # 0 /\ ~late
        /\ job' = [job EXCEPT ![w].stage = "accepted", ![w].code = otp]
        /\ UNCHANGED <<elders, guesses>>
     \/ /\ otp # 0 /\ ~late
        /\ guesses' = guesses + 1
        /\ job' = [job EXCEPT ![w].call = "refuse", ![w].stage = "count"]
        /\ UNCHANGED elders
  /\ UNCHANGED <<otp, late, attempts, young, blocked, signup, volatile>>
  /\ UNCHANGED <<codes, account, past>>

\* A code past its time is deleted, or whatever code is there by now.
Drop(w) ==
  /\ job[w].stage = "drop"
  /\ DeleteOtp /\ Return(w)
  /\ UNCHANGED <<codes, account, past>>

\* Mutant: the counter starts over without a block.
UnblockedIncr(w) ==
  /\ job[w].stage = "count"
  /\ attempts' = attempts + 1
  /\ IF attempts = 0 THEN Goto(w, "expire")
     ELSE IF attempts + 1 >= MaxAttempts THEN Goto(w, "forget") ELSE Return(w)
  /\ UNCHANGED <<otp, late, guesses, young, blocked, signup, volatile, codes, account, past>>

\* incr: a counter that is not there starts at 1, without a deadline.
Incr(w) ==
  /\ job[w].stage = "count"
  /\ attempts' = attempts + 1
  /\ IF attempts = 0 THEN Goto(w, "expire")
     ELSE IF attempts + 1 >= MaxAttempts THEN Goto(w, "block") ELSE Return(w)
  /\ UNCHANGED <<otp, late, guesses, young, blocked, signup, volatile, codes, account, past>>

\* expire, which does nothing to a counter that somebody has deleted meanwhile.
Expire(w) ==
  /\ job[w].stage = "expire"
  /\ IF attempts = 0 THEN UNCHANGED <<volatile, young>>
     ELSE volatile' = volatile \cup {"attempts"} /\ young' = TRUE
  /\ Return(w)
  /\ UNCHANGED <<otp, late, guesses, attempts, blocked, signup, codes, account, past>>

\* Mutant: the block is set without its deadline.
EndlessBlock(w) ==
  /\ job[w].stage = "block"
  /\ blocked' = TRUE
  /\ job' = [job EXCEPT ![w].stage = "forget"]
  /\ elders' = IF blocked THEN elders ELSE Busy
  /\ UNCHANGED <<otp, late, guesses, attempts, young, signup, volatile, codes, account, past>>

\* The block is set, for 15 minutes ...
Block(w) ==
  /\ job[w].stage = "block"
  /\ blocked' = TRUE /\ volatile' = volatile \cup {"blocked"}
  /\ job' = [job EXCEPT ![w].stage = "forget"]
  /\ elders' = IF blocked THEN elders ELSE Busy
  /\ UNCHANGED <<otp, late, guesses, attempts, young, signup, codes, account, past>>

\* ... and the counter is deleted.
Forget(w) ==
  /\ job[w].stage = "forget"
  /\ attempts' = 0 /\ young' = FALSE /\ volatile' = volatile \ {"attempts"}
  /\ Return(w)
  /\ UNCHANGED <<otp, late, guesses, blocked, signup, codes, account, past>>

Verifying(w) == Drop(w) \/ Incr(w) \/ Expire(w) \/ Block(w) \/ Forget(w)

\* Mutant: the counter and the block go, the code stays.
PartialClearAccepted(w, c) ==
  /\ At(w, c, "accepted")
  /\ attempts' = 0 /\ young' = FALSE /\ blocked' = FALSE
  /\ volatile' = volatile \ {"attempts", "blocked"}
  /\ spent' = spent \cup {job[w].code}
  /\ Return(w)
  /\ UNCHANGED <<otp, late, guesses, signup, codes, account, slips>>

\* clearOtpState for an accepted code: the keys go, whatever code they are of by now.
ClearAccepted(w, c) ==
  /\ At(w, c, "accepted")
  /\ DeleteAll
  /\ spent' = spent \cup {job[w].code}
  /\ Return(w)
  /\ UNCHANGED <<codes, account, slips>>

\* The same commands for an administrator, a customer and a forgotten password:
\* what follows, a pair of tokens or a reset token, is not about the keys.
VerifyCode(w) ==
  AssertNotBlocked(w, "verify") \/ Compare(w, "verify") \/ ClearAccepted(w, "verify")

VerifyAdminLoginCode(w) == VerifyCode(w)
VerifyCustomerLoginCode(w) == VerifyCode(w)
VerifyForgotPasswordOtp(w) == VerifyCode(w)

-----------------------------------------------------------------------------
(* Making a code.                                                          *)

\* requestAdminLoginCode: an administrator who may log in by code, then clear and store.
RequestAdminLoginCode(w) ==
  \/ AssertNotBlocked(w, "admin")
  \/ /\ At(w, "admin", "checked")
     /\ IF account.role = "ADMIN" /\ account.method # "PASSWORD_ONLY"
          THEN Goto(w, "clear") ELSE Return(w)
     /\ UNCHANGED <<keys, codes, account, past>>
  \/ ClearBefore(w, "admin")
  \/ StoreOtp(w, "admin")

\* passwordLogin: a right password and two factors, and then clear and store
\* without asking for a block.
PasswordLogin(w) ==
  \/ /\ account.password /\ account.method \in {"none", "PASSWORD_AND_OTP"}
     /\ Enter(w, "password", "clear")
     /\ UNCHANGED <<keys, codes, account, past>>
  \/ ClearBefore(w, "password")
  \/ StoreOtp(w, "password")

\* Mutant: a customer nobody has seen is not created.
AbsentFindUser(w, found) == found /\ UNCHANGED <<keys, codes, account, past>>

\* getOrCreateCustomer and createUser: the row is looked up ...
FindUser(w, found) ==
  /\ IF Exists THEN found ELSE Goto(w, "create")
  /\ UNCHANGED <<keys, codes, account, past>>

\* ... and created: a row that somebody else created meanwhile is refused.
CreateUser(w, role, next) ==
  /\ IF Exists THEN Return(w) /\ UNCHANGED account
     ELSE next /\ account' = [account EXCEPT !.role = role]
  /\ UNCHANGED <<keys, codes, past>>

\* The settings row, with the default method; a second row is refused.
CreateSettings(w, next) ==
  /\ IF account.method # "none" THEN Return(w) /\ UNCHANGED account
     ELSE next /\ account' = [account EXCEPT !.method = "PASSWORD_AND_OTP"]
  /\ UNCHANGED <<keys, codes, past>>

RequestCustomerLoginCode(w) ==
  \/ AssertNotBlocked(w, "customer")
  \/ At(w, "customer", "checked") /\ FindUser(w, Goto(w, "look"))
  \/ At(w, "customer", "create") /\ CreateUser(w, "CUSTOMER", Goto(w, "look"))
  \/ /\ At(w, "customer", "look")
     /\ IF account.method = "none" THEN Goto(w, "settings")
        ELSE IF account.method = "PASSWORD_ONLY" THEN Return(w) ELSE Goto(w, "store")
     /\ UNCHANGED <<keys, codes, account, past>>
  \/ At(w, "customer", "settings") /\ CreateSettings(w, Goto(w, "store"))
  \/ StoreOtp(w, "customer")

\* resendOtp: the old code goes first, then it turns out whether there is a user.
ResendOtp(w) ==
  \/ AssertNotBlocked(w, "resend")
  \/ /\ At(w, "resend", "checked")
     /\ DeleteOtp /\ Goto(w, "find")
     /\ UNCHANGED <<codes, account, past>>
  \/ /\ At(w, "resend", "find")
     /\ IF Exists THEN Goto(w, "store") ELSE Return(w)
     /\ UNCHANGED <<keys, codes, account, past>>
  \/ StoreOtp(w, "resend")

ForgotPassword(w) ==
  \/ AssertNotBlocked(w, "forgot")
  \/ /\ At(w, "forgot", "checked")
     /\ IF Exists THEN Goto(w, "store") ELSE Return(w)
     /\ UNCHANGED <<keys, codes, account, past>>
  \/ StoreOtp(w, "forgot")

\* signUp: nobody with this phone yet, the data are kept, then a code for nobody.
SignUp(w) ==
  \/ AssertNotBlocked(w, "signUp")
  \/ /\ At(w, "signUp", "checked")
     /\ IF Exists THEN Return(w) ELSE Goto(w, "data")
     /\ UNCHANGED <<keys, codes, account, past>>
  \/ /\ At(w, "signUp", "data")
     /\ signup' = TRUE /\ volatile' = volatile \cup {"signup"}
     /\ Goto(w, "store")
     /\ UNCHANGED <<otp, late, guesses, attempts, young, blocked, codes, account, past>>
  \/ StoreOtp(w, "signUp")

\* verifySignupOtp: the data, the user, the settings, and only then the keys.
VerifySignupOtp(w) ==
  \/ AssertNotBlocked(w, "verifySignup")
  \/ Compare(w, "verifySignup")
  \/ /\ At(w, "verifySignup", "accepted")
     /\ IF signup THEN Goto(w, "create") ELSE Return(w)
     /\ UNCHANGED <<keys, codes, account, past>>
  \/ \E role \in {"CUSTOMER", "ADMIN"} :
       At(w, "verifySignup", "create") /\ CreateUser(w, role, Goto(w, "settings"))
  \/ At(w, "verifySignup", "settings") /\ CreateSettings(w, Goto(w, "clear"))
  \/ /\ At(w, "verifySignup", "clear")
     /\ DeleteAll /\ spent' = spent \cup {job[w].code}
     /\ Goto(w, "unsign")
     /\ UNCHANGED <<codes, account, slips>>
  \/ /\ At(w, "verifySignup", "unsign")
     /\ signup' = FALSE /\ volatile' = volatile \ {"signup"}
     /\ Return(w)
     /\ UNCHANGED <<otp, late, guesses, attempts, young, blocked, codes, account, past>>

-----------------------------------------------------------------------------
(* Passwords, settings and users.                                          *)

\* setPassword of somebody logged in, changePassword with the old one,
\* resetPasswordWithToken with a token that stems from an accepted code.
SetPassword == Exists /\ account' = [account EXCEPT !.password = TRUE]
ResetPasswordWithToken == spent # {} /\ SetPassword
ChangePassword == account.password /\ SetPassword

\* updateUserSettings: one upsert.
UpdateUserSettings ==
  \E m \in LoginMethods : Exists /\ account' = [account EXCEPT !.method = m]

Edit ==
  /\ SetPassword \/ ResetPasswordWithToken \/ ChangePassword \/ UpdateUserSettings
  /\ UNCHANGED <<keys, codes, job, elders, past>>

\* The settings route: findOrCreateCustomer, then getUserSettings.
GetUserSettings(w) ==
  \/ Exists /\ Enter(w, "settings", "look") /\ UNCHANGED <<keys, codes, account, past>>
  \/ /\ At(w, "settings", "look")
     /\ IF account.method = "none" THEN Goto(w, "settings") ELSE Return(w)
     /\ UNCHANGED <<keys, codes, account, past>>
  \/ At(w, "settings", "settings") /\ CreateSettings(w, Return(w))

\* createUser of an administrator, or the customer's first message.
CreateUserByAdmin(w) ==
  \/ ~Exists /\ Enter(w, "createUser", "create") /\ UNCHANGED <<keys, codes, account, past>>
  \/ \E role \in {"CUSTOMER", "ADMIN"} :
       At(w, "createUser", "create") /\ CreateUser(w, role, Return(w))

-----------------------------------------------------------------------------
(* Time and failures.                                                      *)

Vanish ==
  \/ "otp" \in volatile /\ DeleteOtp
  \/ /\ "attempts" \in volatile /\ (young => otp = 0)
     /\ attempts' = 0 /\ young' = FALSE /\ volatile' = volatile \ {"attempts"}
     /\ UNCHANGED <<otp, late, guesses, blocked, signup>>
  \/ /\ "blocked" \in volatile /\ otp = 0 /\ elders = {}
     /\ blocked' = FALSE /\ volatile' = volatile \ {"blocked"}
     /\ UNCHANGED <<otp, late, guesses, attempts, young, signup>>
  \/ /\ "signup" \in volatile
     /\ signup' = FALSE /\ volatile' = volatile \ {"signup"}
     /\ UNCHANGED <<otp, late, guesses, attempts, young, blocked>>
  \/ /\ otp # 0 /\ late' = TRUE
     /\ UNCHANGED <<otp, guesses, attempts, young, blocked, signup, volatile>>

\* A key's deadline passes, or a code's expiresAt.
TimePasses == Vanish /\ UNCHANGED <<codes, account, job, elders, past>>

\* A Redis or database call is rejected, or the process dies.
Interrupt(w) ==
  /\ job[w] # Idle /\ slips < MaxSlips
  /\ slips' = slips + 1
  /\ Return(w)
  /\ UNCHANGED <<keys, codes, account, spent>>

Step(w) ==
  \/ SignUp(w) \/ VerifySignupOtp(w) \/ RequestAdminLoginCode(w) \/ VerifyAdminLoginCode(w)
  \/ RequestCustomerLoginCode(w) \/ VerifyCustomerLoginCode(w) \/ ResendOtp(w)
  \/ ForgotPassword(w) \/ VerifyForgotPasswordOtp(w) \/ PasswordLogin(w)
  \/ Verifying(w) \/ GetUserSettings(w) \/ CreateUserByAdmin(w) \/ Interrupt(w)

Next == Edit \/ TimePasses \/ \E w \in Workers : Step(w)

Spec == Init /\ [][Next]_vars

-----------------------------------------------------------------------------
(* Type invariant.                                                         *)
TypeOK ==
  /\ otp \in 0 .. MaxCodes /\ late \in BOOLEAN
  /\ attempts \in Nat /\ young \in BOOLEAN
  /\ blocked \in BOOLEAN /\ signup \in BOOLEAN /\ volatile \subseteq Present
  /\ codes \in 0 .. MaxCodes
  /\ account \in Account /\ (account.method # "none" => Exists)
  /\ job \in [Workers -> Job \cup {Idle}]
  /\ guesses \in Nat /\ spent \subseteq 1 .. codes
  /\ elders \subseteq Busy /\ slips \in 0 .. MaxSlips

-----------------------------------------------------------------------------
(* Safety, with overlapping and interrupted calls.                         *)

\* A key without a deadline would count or block for ever: only the counter is
\* ever without one, while its first failure is still on the way to expire, or
\* after a call broke off there.
KeysHaveDeadlines ==
  \A k \in Present \ volatile :
    k = "attempts" /\ (slips > 0 \/ \E w \in Workers : job[w].stage = "expire")

\* Whom the block does not stop: the calls in progress when it was set, and a
\* password login, which does not ask for it.
Unstopped(w) == w \in elders \/ job[w].call = "password"

\* "Please try again in 15 minutes" holds of every call that asks: while the block
\* stands no code is made, deleted, guessed at or accepted, no failure counted and
\* the block itself not lifted, but by a call that was in progress when it was set,
\* by a deadline or by passwordLogin, of which it does not hold: that one deletes
\* the block and makes a code.
BlockStands ==
  [][blocked => \/ UNCHANGED <<keys, codes, spent>>
                \/ TimePasses
                \/ \E w \in Busy : Unstopped(w) /\ Step(w)]_vars

\* A code is for one use: once an acceptance has cleared the keys the code is
\* not in Redis again, so only a call that read it before may still accept it.
SpentIsGone == otp \notin spent

\* OTP_MAX_ATTEMPTS limits a counter, not a code.  Beyond the MaxAttempts of one
\* full counter a code may meet the guesses of an older counter that timed out
\* short of its limit (one of them before the code was stored), and for each of
\* the other calls those of a counter which that call deletes, still busy with a
\* block that was cleared meanwhile, and one guess not counted when the block is
\* set.
GuessLimit == (Cardinality(Workers) + 1) * MaxAttempts - 2

\* A stored code meets no more wrong guesses than that, and one more for each call
\* that breaks off before its guess is counted.
GuessesBounded == guesses <= GuessLimit + slips
=============================================================================
