-------------------------------- MODULE MCOtp --------------------------------
(* Small instances of Otp for TLC.                                         *)
EXTENDS Otp, TLC

CONSTANTS w1, w2

MCWorkers == {w1, w2}
\* Users may choose the default only: PASSWORD_ONLY ends a call before it
\* touches a key, OTP_ONLY opens one way fewer.
MCLoginMethods == {"PASSWORD_AND_OTP"}
MCSymmetry == Permutations(MCWorkers)
=============================================================================
