----------------------------- MODULE MCCampaign -----------------------------
(* Small instances of Campaign for TLC.                                    *)
EXTENDS Campaign

CONSTANTS c1, s1, s2

\* Handlers of different contacts share nothing but the process.
MCContacts == {c1}
MCStarts == {s1, s2}
=============================================================================
