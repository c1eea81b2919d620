---------------------------- MODULE MCOAuthConsent ----------------------------
(* Instances of OAuthConsent for TLC. *)
EXTENDS OAuthConsent, TLC

CONSTANTS r1, r2, r3, u1, u2, w1, w2

MCVisits     == {r1, r2, r3}
MCUsers      == {u1, u2}
MCWorkspaces == {w1, w2}

\* u1 chooses between two workspaces, u2 has one.
MCMembers == {<<u1, w1>>, <<u1, w2>>, <<u2, w2>>}

MCSymmetry == Permutations(MCVisits)
=============================================================================
