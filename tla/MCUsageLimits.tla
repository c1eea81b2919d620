---------------------------- MODULE MCUsageLimits ----------------------------
(* Instances of UsageLimits for TLC. *)
EXTENDS UsageLimits, TLC

CONSTANTS r1, r2, r3, a1, a2, a3, k1, k2

MCRequests   == {r1, r2, r3}
\* One connection with two accounts and one with one.
MCAccounts   == {a1, a2, a3}
MCConnection == (a1 :> k1) @@ (a2 :> k1) @@ (a3 :> k2)

\* A paid plan, its workspace once an entitlement restricts it, and a
\* workspace of the first version.
MCTerms ==
  {[legacy |-> FALSE, override |-> Absent, subscription |-> "active", plan |-> 2],
   [legacy |-> FALSE, override |-> 1, subscription |-> "active", plan |-> 2],
   [legacy |-> TRUE, override |-> Absent, subscription |-> "absent", plan |-> 2]}

MCSymmetry == Permutations(MCRequests) \cup Permutations({a1, a2})

\* Where there is no limit nothing is promised: a workspace without one is
\* only explored as long as it has had no other.
MCLimited == None \in offered => offered = {None}
=============================================================================
