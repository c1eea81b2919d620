----------------------------- MODULE OAuthConsent -----------------------------
(***************************************************************************)
(* The consent of the OAuth server                                         *)
(* (apps/api/src/mcp/oauth-authorization.service.ts): an authorization     *)
(* transaction is begun, possibly before anybody is logged in, continued   *)
(* by the user who logs in, shown, and allowed or denied.  Allowing issues *)
(* the authorization code that OAuthTokens exchanges.                      *)
(*                                                                         *)
(* Transactions do not touch each other, so there is one.  It is visited   *)
(* by any browser and any user at any time; each await is a step.  The     *)
(* scope, the client and the redirect URI only lead to refusals without    *)
(* effects and are left out.                                               *)
(***************************************************************************)
EXTENDS FiniteSets

CONSTANTS
  Users, Workspaces,
  Members,   \* Members: pairs <<user, workspace>> that may be memberships
  Visits,    \* HTTP requests about the transaction
  Null       \* null

ASSUME OAuthConsentAssumption ==
  /\ Members \subseteq Users \X Workspaces
  /\ Null \notin Users \cup Workspaces

VARIABLES
  txn,     \* the transaction row
  member,  \* memberships of active workspaces
  codes,   \* codes[r]: the authorization code that request r issued
  visit    \* visit[r]: the next step of request r and what it has read

consentVars == <<txn, member, codes, visit>>

Kinds       == {"continue", "show", "allow", "deny"}
Transaction ==
  [begun : BOOLEAN, by : Users \cup {Null}, owner : Users \cup {Null},
   workspace : Workspaces \cup {Null}, consumed : BOOLEAN, expired : BOOLEAN]
Visit ==
  [pc : {"idle", "select", "check", "store", "done"}, kind : Kinds \cup {Null},
   user : Users \cup {Null}, choice : Workspaces \cup {Null},
   workspace : Workspaces \cup {Null}, answer : {"none", "ok", "refused"}]
Code   == [user : Users \cup {Null}, workspace : Workspaces \cup {Null}]
NoCode == [user |-> Null, workspace |-> Null]

ConsentTypeOK ==
  /\ txn \in Transaction
  /\ member \subseteq Members
  /\ codes \in [Visits -> Code]
  /\ visit \in [Visits -> Visit]

ConsentInit ==
  /\ txn = [begun |-> FALSE, by |-> Null, owner |-> Null, workspace |-> Null,
            consumed |-> FALSE, expired |-> FALSE]
  /\ member = Members
  /\ codes = [r \in Visits |-> NoCode]
  /\ visit = [r \in Visits |->
       [pc |-> "idle", kind |-> Null, user |-> Null, choice |-> Null, workspace |-> Null,
        answer |-> "none"]]

Mine(u) == {w \in Workspaces : <<u, w>> \in member}

\* The only workspace of a user who has one, else null.
Single(u) ==
  IF Cardinality(Mine(u)) = 1 THEN CHOOSE w \in Mine(u) : TRUE ELSE Null

Chosen(x, y) == IF x = Null THEN y ELSE x

Active == txn.begun /\ ~ txn.consumed /\ ~ txn.expired

Serving(r, step, kinds) == visit[r].pc = step /\ visit[r].kind \in kinds
Reply(r, answer)        == visit' = [visit EXCEPT ![r].pc = "done", ![r].answer = answer,
                                                 ![r].choice = Null, ![r].workspace = Null]
Select(r, w, step)      == visit' = [visit EXCEPT ![r].pc = step, ![r].workspace = w]

-----------------------------------------------------------------------------
(* beginAuthorization, with or without a session *)

BeginAuthorization(u) ==
  /\ ~ txn.begun
  /\ txn' = [txn EXCEPT !.begun = TRUE, !.by = u, !.owner = u,
                        !.workspace = IF u = Null THEN Null ELSE Single(u)]
  /\ UNCHANGED <<member, codes, visit>>

\* Mutant: the owner is not looked at when the decision is made.
Available_AnyDecider(kind, u) ==
  /\ Active
  /\ kind = "show" => txn.owner = u
  /\ kind = "continue" => txn.owner \in {u, Null}

\* activeTransaction and the check of its user.
Available(kind, u) ==
  /\ Active
  /\ IF kind = "show" THEN txn.owner = u ELSE txn.owner \in {u, Null}

\* The first read of a request for the transaction.
Load(r, kind, u, choice) ==
  /\ visit[r].pc = "idle" /\ txn.begun
  /\ kind = "show" => choice = Null
  /\ IF Available(kind, u)
       THEN visit' = [visit EXCEPT ![r] =
              [pc |-> "select", kind |-> kind, user |-> u, choice |-> choice,
               workspace |-> txn.workspace, answer |-> "none"]]
       ELSE Reply(r, "refused")
  /\ UNCHANGED <<txn, member, codes>>

-----------------------------------------------------------------------------
(* The workspace a request is about *)

\* Mutant: the workspace that the request names is taken as it is.
ToCheck_NotChosen(r, w) == IF w = Null \/ w = visit[r].choice THEN "store" ELSE "check"

ToCheck(r, w) == IF w = Null THEN "store" ELSE "check"

\* continueAuthorization and the denial need no workspace; the former needs
\* a user who has one.
SelectAny(r) ==
  LET u == visit[r].user
      w == Chosen(visit[r].choice, Chosen(visit[r].workspace, Single(u))) IN
  /\ Serving(r, "select", {"continue", "deny"})
  /\ IF visit[r].kind = "continue" /\ Mine(u) = {}
       THEN Reply(r, "refused") ELSE Select(r, w, ToCheck(r, w))
  /\ UNCHANGED <<txn, member, codes>>

\* Allowing needs one: the chosen, the stored or the only one.
SelectOne(r) ==
  LET w == Chosen(visit[r].choice, Chosen(visit[r].workspace, Single(visit[r].user))) IN
  /\ Serving(r, "select", {"allow"})
  /\ IF w = Null THEN Reply(r, "refused") ELSE Select(r, w, ToCheck(r, w))
  /\ UNCHANGED <<txn, member, codes>>

\* authorizationContext stores its selection when it differs.
SelectShown(r) ==
  LET u == visit[r].user
      w == IF visit[r].workspace \in Mine(u) THEN visit[r].workspace ELSE Single(u) IN
  /\ Serving(r, "select", {"show"})
  /\ IF Mine(u) = {} THEN Reply(r, "refused")
     ELSE IF w = visit[r].workspace THEN Reply(r, "ok") ELSE Select(r, w, "store")
  /\ UNCHANGED <<txn, member, codes>>

\* requireWorkspaceMembership
Check(r) ==
  /\ visit[r].pc = "check"
  /\ IF visit[r].workspace \in Mine(visit[r].user)
       THEN visit' = [visit EXCEPT ![r].pc = "store"] ELSE Reply(r, "refused")
  /\ UNCHANGED <<txn, member, codes>>

-----------------------------------------------------------------------------
(* What is stored *)

\* Both updates are by id: they also reach a transaction that was decided or
\* continued by somebody else in the meantime.
StoreContinued(r) ==
  /\ Serving(r, "store", {"continue"})
  /\ txn' = [txn EXCEPT !.owner = visit[r].user, !.workspace = visit[r].workspace]
  /\ Reply(r, "ok")
  /\ UNCHANGED <<member, codes>>

StoreShown(r) ==
  /\ Serving(r, "store", {"show"})
  /\ txn' = [txn EXCEPT !.workspace = visit[r].workspace]
  /\ Reply(r, "ok")
  /\ UNCHANGED <<member, codes>>

\* Mutant: the decision is stored by the transaction's id alone.
Undecided_Assumed == TRUE

\* The WHERE clause of a decision.
Undecided == ~ txn.consumed /\ ~ txn.expired

StoreDecision(r) ==
  /\ Serving(r, "store", {"allow", "deny"})
  /\ IF Undecided
       THEN /\ txn' = [txn EXCEPT !.consumed = TRUE, !.owner = visit[r].user,
                                  !.workspace = visit[r].workspace]
            /\ Reply(r, "ok")
            /\ IF visit[r].kind = "allow"
                 THEN codes' = [codes EXCEPT ![r] = [user |-> visit[r].user,
                                                     workspace |-> visit[r].workspace]]
                 ELSE UNCHANGED codes
       ELSE Reply(r, "refused") /\ UNCHANGED <<txn, codes>>
  /\ UNCHANGED member

-----------------------------------------------------------------------------
(* The surroundings *)

TransactionExpires ==
  /\ txn.begun /\ ~ txn.expired
  /\ txn' = [txn EXCEPT !.expired = TRUE]
  /\ UNCHANGED <<member, codes, visit>>

\* A membership is removed or given again, a workspace suspended or restored.
ChangeMembership(m) ==
  /\ member' = IF m \in member THEN member \ {m} ELSE member \cup {m}
  /\ UNCHANGED <<txn, codes, visit>>

\* The process dies, or a query fails.
VisitDies(r) ==
  /\ visit[r].pc \in {"select", "check", "store"}
  /\ Reply(r, "refused")
  /\ UNCHANGED <<txn, member, codes>>

VisitStep(r) ==
  \/ SelectAny(r) \/ SelectOne(r) \/ SelectShown(r) \/ Check(r)
  \/ StoreContinued(r) \/ StoreShown(r) \/ StoreDecision(r)

ConsentNext ==
  \/ \E u \in Users \cup {Null} : BeginAuthorization(u)
  \/ \E r \in Visits, k \in Kinds, u \in Users, w \in Workspaces \cup {Null} : Load(r, k, u, w)
  \/ \E r \in Visits : VisitStep(r) \/ VisitDies(r)
  \/ TransactionExpires
  \/ \E m \in Members : ChangeMembership(m)

ConsentSpec == ConsentInit /\ [][ConsentNext]_consentVars
-----------------------------------------------------------------------------
(* Properties *)

Decided(r) == visit[r].kind \in {"allow", "deny"} /\ visit[r].answer = "ok"

\* A transaction is decided once: of any number of approvals and denials, in
\* any tabs, one is accepted, so a denied request never has a code.
OneDecision ==
  \A r1, r2 \in Visits : Decided(r1) /\ Decided(r2) => r1 = r2

\* A transaction that a logged-in user began stays with that user: nobody
\* else continues it, sees it or gets a code from it.
BegunStaysMine ==
  txn.by # Null =>
    /\ txn.owner = txn.by
    /\ \A r \in Visits : visit[r].answer = "ok" => visit[r].user = txn.by
    /\ \A r \in Visits : codes[r] # NoCode => codes[r].user = txn.by

\* A code is for a workspace its user may be a member of, also when the
\* workspace was stored by an earlier request, perhaps of another user.
CodeIsForMember ==
  \A r \in Visits :
    codes[r] # NoCode => <<codes[r].user, codes[r].workspace>> \in Members
=============================================================================
