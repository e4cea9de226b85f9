---------------------------- MODULE MCConnection ----------------------------
(* Small instances of Connection for TLC.                                  *)
EXTENDS Connection

CONSTANTS t1, b1

MCTexts == {t1}
MCButtons == {b1}
=============================================================================
