---------------------------- MODULE OneShotWrite ----------------------------
(***************************************************************************)
(* What a confirmed provider write promises, whatever happens to the       *)
(* request handlers that carry it out: a change is offered, its owner      *)
(* approves or cancels it, an approved change is either spent without      *)
(* being written or claimed, and a claimed change is written at most once. *)
(* PublicWrite implements this specification.                              *)
(***************************************************************************)
EXTENDS Naturals

CONSTANT Previews      \* the changes that can be proposed

VARIABLES
  phase,    \* phase[p]: how far the change p has come
  writes    \* writes[p]: how many provider writes were issued for p

oneShotVars == <<phase, writes>>

Phases ==
  {"none", "pending", "approved", "cancelled", "spent", "claimed", "written"}

OneShotTypeOK ==
  /\ phase \in [Previews -> Phases]
  /\ writes \in [Previews -> Nat]

Move(p, from, to) ==
  /\ phase[p] = from
  /\ phase' = [phase EXCEPT ![p] = to]

OneShotInit ==
  /\ phase = [p \in Previews |-> "none"]
  /\ writes = [p \in Previews |-> 0]

Offer(p) == Move(p, "none", "pending") /\ UNCHANGED writes

Approve(p) == Move(p, "pending", "approved") /\ UNCHANGED writes

Cancel(p) == Move(p, "pending", "cancelled") /\ UNCHANGED writes

\* The approved change is given up before any write was issued.
Spend(p) == Move(p, "approved", "spent") /\ UNCHANGED writes

\* One handler takes the change; from here on nobody else may write it.
Claim(p) == Move(p, "approved", "claimed") /\ UNCHANGED writes

Write(p) ==
  /\ Move(p, "claimed", "written")
  /\ writes' = [writes EXCEPT ![p] = @ + 1]

OneShotNext ==
  \E p \in Previews :
    Offer(p) \/ Approve(p) \/ Cancel(p) \/ Spend(p) \/ Claim(p) \/ Write(p)

OneShotSpec == OneShotInit /\ [][OneShotNext]_oneShotVars
=============================================================================
