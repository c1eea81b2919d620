--------------------------- MODULE MCServicePreview ---------------------------
(* Instances of ServicePreview for TLC. *)
EXTENDS ServicePreview, TLC

CONSTANTS c1, c2, c3, p1, p2, p3, p4

MCCalls    == {c1, c2, c3}
MCSymmetry == Permutations(MCCalls)

\* A preview of each kind the policy knows.
MCPolicy ==
  (p1 :> "controlled") @@ (p2 :> "review") @@ (p3 :> "listed") @@ (p4 :> "blocked")

\* In each behaviour one of them is created: all the calls are about it.
MCOnePreview == Cardinality({p \in Previews : plan[p] # NoPlan}) <= 1
=============================================================================
