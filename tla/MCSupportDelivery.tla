------------------------- MODULE MCSupportDelivery -------------------------
(* Instances of SupportDelivery for TLC. *)
EXTENDS SupportDelivery, TLC

CONSTANTS m1, m2, r1, r2, r3, w1, w2

MCMessages == {m1, m2}
MCTwo      == {r1, r2}
MCThree    == {r1, r2, r3}
MCWorkers  == {w1, w2}

\* The handlers, the executions and the messages are interchangeable.
MCSymmetry == Permutations(MCMessages) \cup Permutations(MCThree)
                \cup Permutations(MCWorkers)
============================================================================
