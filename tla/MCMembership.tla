----------------------------- MODULE MCMembership -----------------------------
(* Instances of Membership for TLC. *)
EXTENDS Membership, TLC

CONSTANTS r1, r2, r3, o1, o2, x

MCRequests == {r1, r2, r3}
MCSymmetry == Permutations(MCRequests)

\* Two owners from an import, and somebody to invite.
MCUsers == {o1, o2, x}
MCFirst == (o1 :> "OWNER") @@ (o2 :> "OWNER") @@ (x :> None)
=============================================================================
