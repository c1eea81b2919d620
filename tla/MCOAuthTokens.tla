---------------------------- MODULE MCOAuthTokens ----------------------------
(* Instances of OAuthTokens for TLC. *)
EXTENDS OAuthTokens, TLC

CONSTANTS r1, r2, r3, r4

MCThree == {r1, r2, r3}
MCFour  == {r1, r2, r3, r4}

\* Requests are interchangeable.
MCSymmetry == Permutations(Requests)
=============================================================================
