---------------------------- MODULE MCOAuthServer ----------------------------
(* Instances of OAuthServer for TLC. *)
EXTENDS OAuthServer, TLC

CONSTANTS u1, u2, w1

MCUsers   == {u1, u2}
MCMembers == {<<u1, w1>>, <<u2, w1>>}

\* Visits (which name their codes) are interchangeable, and so are requests.
MCServerSymmetry == Permutations(Visits) \cup Permutations(Requests)
=============================================================================
