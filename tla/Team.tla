--------------------------------- MODULE Team ---------------------------------
(***************************************************************************)
(* What the members of a workspace may rely on, whatever requests about    *)
(* roles, removals and invitations run at the same time: somebody joins    *)
(* only by an open invitation, as the person and with the role it names,   *)
(* an invitation is taken once or withdrawn, and the last owner neither    *)
(* leaves nor becomes anything else.  Membership implements this.          *)
(***************************************************************************)
CONSTANTS
  People, Invitations,
  First,   \* First[u]: the role u begins with, or Nobody
  Nobody   \* no role, no person

VARIABLES
  team,    \* team[u]: the role of u, or Nobody
  offer,   \* offer[i]: the person and the role of invitation i
  seat     \* seat[i]: what became of it

teamVars == <<team, offer, seat>>

TeamInit ==
  /\ team = First
  /\ offer = [i \in Invitations |-> <<Nobody, Nobody>>]
  /\ seat = [i \in Invitations |-> "none"]

GivenRoles == {"ADMIN", "MEMBER"}

Turn(i, from, to) == seat[i] = from /\ seat' = [seat EXCEPT ![i] = to]

Offer(i, u, role) ==
  /\ Turn(i, "none", "open")
  /\ offer' = [offer EXCEPT ![i] = <<u, role>>]
  /\ UNCHANGED team

Withdraw(i) == Turn(i, "open", "withdrawn") /\ UNCHANGED <<team, offer>>

Take(i) ==
  LET u == offer[i][1] IN
  /\ Turn(i, "open", "taken")
  /\ team[u] = Nobody
  /\ team' = [team EXCEPT ![u] = offer[i][2]]
  /\ UNCHANGED offer

Dispensable(u) == team[u] = "OWNER" => \E v \in People \ {u} : team[v] = "OWNER"

\* The role of u becomes another one, or u leaves.
Become(u, role) ==
  /\ team[u] # Nobody /\ Dispensable(u)
  /\ team' = [team EXCEPT ![u] = role]
  /\ UNCHANGED <<offer, seat>>

TeamNext ==
  \/ \E i \in Invitations : Withdraw(i) \/ Take(i)
  \/ \E i \in Invitations, u \in People, role \in GivenRoles : Offer(i, u, role)
  \/ \E u \in People, role \in GivenRoles \cup {Nobody} : Become(u, role)

TeamSpec == TeamInit /\ [][TeamNext]_teamVars
=============================================================================
