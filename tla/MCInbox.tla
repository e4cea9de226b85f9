------------------------------ MODULE MCInbox ------------------------------
(* Small instances of Inbox for TLC.                                       *)
EXTENDS Inbox, TLC

CONSTANTS c1, c2, s1, s2, r1, r2, l1, l2

MCChats == {c1, c2}
MCSends == {s1, s2}
MCSlots == {r1, r2}
MCLoads == {l1, l2}
Symmetry == Permutations(MCChats) \cup Permutations(MCSlots) \cup Permutations(MCLoads) \cup Permutations(MCSends)
=============================================================================
