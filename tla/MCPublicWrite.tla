--------------------------- MODULE MCPublicWrite ---------------------------
(* Instances of PublicWrite for TLC. *)
EXTENDS PublicWrite, TLC

CONSTANTS p1, p2, c1, c2, u1, u2, g1, g2, g3, v1, v2, v3

MCPreviews == {p1}
MCTwoPreviews == {p1, p2}
MCCalls    == {c1, c2}
MCUsers    == {u1, u2}
\* two grants of one user and one of another
MCGrants   == {g1, g2, g3}
MCUserOf   == (g1 :> u1) @@ (g2 :> u1) @@ (g3 :> u2)
MCOneUser  == (g1 :> u1)
MCFields   == {"name"}
MCValues   == {v1, v2, v3}

\* The handlers, the previews and the field values are interchangeable.
MCSymmetry == Permutations(MCCalls) \cup Permutations(MCTwoPreviews)
                \cup Permutations(MCValues)
============================================================================
