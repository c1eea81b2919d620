----------------------------- MODULE MCSessions -----------------------------
(* Instances of Sessions for TLC. *)
EXTENDS Sessions, TLC

CONSTANTS r1, r2, r3, p1, p2

MCRequests  == {r1, r2, r3}
MCPasswords == {p1, p2}
MCSymmetry  == Permutations(MCRequests) \cup Permutations(MCPasswords)
=============================================================================
