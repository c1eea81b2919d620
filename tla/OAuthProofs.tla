----------------------------- MODULE OAuthProofs -----------------------------
(***************************************************************************)
(* Proofs about the OAuth server, OAuthConsent, OAuthTokens and the two    *)
(* together, for any number of users, workspaces, codes and requests.      *)
(*                                                                         *)
(* The consent: a decision consumes the transaction, and only a            *)
(* transaction that is not consumed is decided; an owner who began it is   *)
(* its owner until the end; and an approval reaches its store step only by *)
(* a membership that was found.                                            *)
(*                                                                         *)
(* The tokens: TokenInv says what an inserted token tells about the        *)
(* request that inserted it, and which rows a running transaction holds;   *)
(* OneLiveToken and NothingBuysTwice follow, and with them the chain of    *)
(* TokenChain.                                                             *)
(*                                                                         *)
(* The two together: ServerSpec implies the specification of each part, so *)
(* their invariants hold in it; what they add to each other is that a code *)
(* which is presented was issued, by a visit that allowed the transaction. *)
(***************************************************************************)
EXTENDS OAuthServer, FiniteSetTheorems, TLAPS
-----------------------------------------------------------------------------
(* OAuthConsent: what its requests know *)

USE DEF Kinds

\* Before the transaction is begun there is nothing to ask about.
StartInv ==
  /\ ~ txn.begun => txn.by = Null /\ ~ txn.consumed
  /\ ~ txn.begun => \A r \in Visits : visit[r].pc = "idle" /\ codes[r] = NoCode
  /\ \A r \in Visits : visit[r].pc = "idle" => visit[r].answer = "none"

\* A decision consumed the transaction; nothing else issues a code.
DecisionInv ==
  /\ \A r \in Visits : Decided(r) => txn.consumed
  /\ \A r \in Visits : codes[r] # NoCode => txn.consumed
  /\ OneDecision

\* Whoever has passed the check of the user, or was told ok, is the user who
\* began the transaction, if there is one.
OwnerInv ==
  txn.by # Null =>
    /\ txn.owner = txn.by
    /\ \A r \in Visits :
         visit[r].pc \in {"select", "check", "store"} \/ visit[r].answer = "ok" =>
           visit[r].user = txn.by
    /\ \A r \in Visits : codes[r] # NoCode => codes[r].user = txn.by

\* An approval that is about to be stored found a membership.
CheckedInv ==
  /\ \A r \in Visits : visit[r].pc = "store" /\ visit[r].kind = "allow" =>
       <<visit[r].user, visit[r].workspace>> \in Members
  /\ CodeIsForMember

ConsentInv == ConsentTypeOK /\ StartInv /\ DecisionInv /\ OwnerInv /\ CheckedInv
-----------------------------------------------------------------------------
(* How a request moves *)

\* Visit r alone moves, and keeps who asked for what.
OneMoves(r) ==
  /\ visit' \in [Visits -> Visit]
  /\ \A s \in Visits \ {r} : visit'[s] = visit[s]
  /\ visit'[r].kind = visit[r].kind /\ visit'[r].user = visit[r].user

LEMMA VisitMoves ==
  ASSUME ConsentTypeOK, NEW r \in Visits
  PROVE  /\ \A a \in {"ok", "refused"} : Reply(r, a) =>
              OneMoves(r) /\ visit'[r].pc = "done" /\ visit'[r].answer = a
         /\ \A w \in Workspaces \cup {Null}, step \in {"check", "store"} : Select(r, w, step) =>
              OneMoves(r) /\ visit'[r].pc = step /\ visit'[r].workspace = w
              /\ visit'[r].answer = visit[r].answer
  <1>1. visit \in [Visits -> Visit] /\ visit[r] \in Visit
    BY DEF ConsentTypeOK
  <1>2. ASSUME NEW a \in {"ok", "refused"}, Reply(r, a)
        PROVE  OneMoves(r) /\ visit'[r].pc = "done" /\ visit'[r].answer = a
    <2> DEFINE q == [visit[r] EXCEPT !.pc = "done", !.answer = a, !.choice = Null,
                                   !.workspace = Null]
    <2>1. /\ q \in Visit /\ q.kind = visit[r].kind /\ q.user = visit[r].user
          /\ q.pc = "done" /\ q.answer = a
      BY <1>1 DEF Visit
    <2>2. visit' = [visit EXCEPT ![r] = q]
      BY <1>1, <1>2 DEF Reply
    <2> HIDE DEF q
    <2> QED BY <1>1, <2>1, <2>2 DEF OneMoves
  <1>3. ASSUME NEW w \in Workspaces \cup {Null}, NEW step \in {"check", "store"}, Select(r, w, step)
        PROVE  OneMoves(r) /\ visit'[r].pc = step /\ visit'[r].workspace = w
               /\ visit'[r].answer = visit[r].answer
    <2> DEFINE q == [visit[r] EXCEPT !.pc = step, !.workspace = w]
    <2>1. q \in Visit /\ q.kind = visit[r].kind /\ q.user = visit[r].user /\ q.pc = step
          /\ q.workspace = w /\ q.answer = visit[r].answer
      BY <1>1 DEF Visit
    <2>2. visit' = [visit EXCEPT ![r] = q]
      BY <1>1, <1>3 DEF Select
    <2> HIDE DEF q
    <2> QED BY <1>1, <2>1, <2>2 DEF OneMoves
  <1> QED BY <1>2, <1>3

LEMMA SingleIsWorkspace ==
  ASSUME NEW u
  PROVE  Single(u) \in Workspaces \cup {Null}
  <1>1. CASE Mine(u) = {}
    <2>1. Cardinality(Mine(u)) = 0
      BY <1>1, FS_EmptySet
    <2> QED BY <2>1 DEF Single
  <1>2. CASE Mine(u) # {}
    <2>1. (CHOOSE w \in Mine(u) : TRUE) \in Mine(u)
      BY <1>2
    <2> QED BY <2>1 DEF Single, Mine
  <1> QED BY <1>1, <1>2

\* What a step of request r leaves of the transaction and the codes, before
\* its last one.
Refuses(r) ==
  /\ visit'[r].pc = "done" /\ visit'[r].answer = "refused"
  /\ UNCHANGED <<txn, member, codes>>

Passes(r) ==
  /\ \/ visit[r].pc = "select" /\ visit'[r].pc = "check"
     \/ visit[r].pc = "select" /\ visit'[r].pc = "store" /\ visit[r].kind # "allow"
     \/ /\ visit[r].pc = "check" /\ visit'[r].pc = "store"
        /\ <<visit'[r].user, visit'[r].workspace>> \in Members
  /\ visit'[r].answer = visit[r].answer
  /\ UNCHANGED <<txn, member, codes>>

\* A showing that has nothing to store, or an update by id.
Shows(r) ==
  /\ visit[r].pc \in {"select", "store"} /\ visit[r].kind \in {"continue", "show"}
  /\ visit'[r].pc = "done" /\ visit'[r].answer = "ok"
  /\ \/ txn' = txn
     \/ \E w \in Workspaces \cup {Null} : txn' = [txn EXCEPT !.workspace = w]
     \/ \E w \in Workspaces \cup {Null} :
          visit[r].pc = "store" /\ txn' = [txn EXCEPT !.owner = visit[r].user, !.workspace = w]
  /\ UNCHANGED <<member, codes>>

Decides(r) ==
  /\ visit[r].pc = "store" /\ visit[r].kind \in {"allow", "deny"}
  /\ visit'[r].pc = "done" /\ visit'[r].answer = "ok"
  /\ ~ txn.consumed
  /\ txn' = [txn EXCEPT !.consumed = TRUE, !.owner = visit[r].user,
                         !.workspace = visit[r].workspace]
  /\ \/ UNCHANGED codes
     \/ /\ visit[r].kind = "allow"
        /\ codes' = [codes EXCEPT ![r] = [user |-> visit[r].user, workspace |-> visit[r].workspace]]
  /\ UNCHANGED member

Went(r) == Refuses(r) \/ Passes(r) \/ Shows(r) \/ Decides(r)

LEMMA RunsWent ==
  ASSUME ConsentTypeOK, NEW r \in Visits, VisitStep(r) \/ VisitDies(r)
  PROVE  OneMoves(r) /\ Went(r) /\ visit[r].pc \in {"select", "check", "store"}
  <1> DEFINE Goal == OneMoves(r) /\ Went(r) /\ visit[r].pc \in {"select", "check", "store"}
  <1>1. visit \in [Visits -> Visit] /\ visit[r] \in Visit
    BY DEF ConsentTypeOK
  <1>2. \A x, y : x \in Workspaces \cup {Null} /\ y \in Workspaces \cup {Null} =>
          Chosen(x, y) \in Workspaces \cup {Null}
    BY DEF Chosen
  <1>3. /\ visit[r].choice \in Workspaces \cup {Null}
        /\ visit[r].workspace \in Workspaces \cup {Null}
        /\ Single(visit[r].user) \in Workspaces \cup {Null}
    BY <1>1, SingleIsWorkspace DEF Visit
  <1> DEFINE w == Chosen(visit[r].choice, Chosen(visit[r].workspace, Single(visit[r].user)))
  <1>4. w \in Workspaces \cup {Null}
    BY <1>2, <1>3
  <1>5. CASE SelectAny(r)
    <2>1. /\ visit[r].pc = "select" /\ visit[r].kind \in {"continue", "deny"}
          /\ UNCHANGED <<txn, member, codes>>
      BY <1>5 DEF SelectAny, Serving
    <2>2. Reply(r, "refused") \/ Select(r, w, ToCheck(r, w))
      BY <1>5 DEF SelectAny
    <2> HIDE DEF w
    <2>3. ToCheck(r, w) \in {"check", "store"}
      BY DEF ToCheck
    <2> QED BY <1>4, <2>1, <2>2, <2>3, VisitMoves DEF Went, Refuses, Passes
  <1>6. CASE SelectOne(r)
    <2>1. visit[r].pc = "select" /\ UNCHANGED <<txn, member, codes>>
      BY <1>6 DEF SelectOne, Serving
    <2>2. Reply(r, "refused") \/ (w # Null /\ Select(r, w, ToCheck(r, w)))
      BY <1>6 DEF SelectOne
    <2> HIDE DEF w
    <2>3. w # Null => ToCheck(r, w) = "check"
      BY DEF ToCheck
    <2> QED BY <1>4, <2>1, <2>2, <2>3, VisitMoves DEF Went, Refuses, Passes
  <1>7. CASE SelectShown(r)
    <2> DEFINE v == IF visit[r].workspace \in Mine(visit[r].user)
                      THEN visit[r].workspace ELSE Single(visit[r].user)
    <2>1. visit[r].pc = "select" /\ visit[r].kind = "show" /\ UNCHANGED <<txn, member, codes>>
      BY <1>7 DEF SelectShown, Serving
    <2>2. Reply(r, "refused") \/ Reply(r, "ok") \/ Select(r, v, "store")
      BY <1>7 DEF SelectShown
    <2>3. v \in Workspaces \cup {Null}
      BY <1>3
    <2> HIDE DEF v
    <2> QED BY <2>1, <2>2, <2>3, VisitMoves DEF Went, Refuses, Passes, Shows
  <1>8. CASE Check(r)
    <2>1. CASE visit[r].workspace \notin Mine(visit[r].user)
      BY <1>8, <2>1, VisitMoves DEF Check, Went, Refuses
    <2>2. CASE visit[r].workspace \in Mine(visit[r].user)
      <3> DEFINE q == [visit[r] EXCEPT !.pc = "store"]
      <3>1. q \in Visit /\ q.kind = visit[r].kind /\ q.user = visit[r].user /\ q.pc = "store"
            /\ q.workspace = visit[r].workspace /\ q.answer = visit[r].answer
        BY <1>1 DEF Visit
      <3>2. /\ visit' = [visit EXCEPT ![r] = q] /\ visit[r].pc = "check"
            /\ UNCHANGED <<txn, member, codes>>
        BY <1>1, <1>8, <2>2 DEF Check
      <3>3. <<visit[r].user, visit[r].workspace>> \in Members
        BY <2>2 DEF Mine, ConsentTypeOK
      <3> HIDE DEF q
      <3>4. OneMoves(r) /\ visit'[r] = q
        BY <1>1, <3>1, <3>2 DEF OneMoves
      <3> QED BY <3>1, <3>2, <3>3, <3>4 DEF Went, Passes
    <2> QED BY <2>1, <2>2
  <1>9. CASE StoreContinued(r) \/ StoreShown(r)
    <2>1. OneMoves(r) /\ visit'[r].pc = "done" /\ visit'[r].answer = "ok"
      BY <1>9, VisitMoves DEF StoreContinued, StoreShown
    <2> QED BY <1>3, <1>9, <2>1 DEF StoreContinued, StoreShown, Serving, Went, Shows
  <1>10. CASE StoreDecision(r)
    <2>1. CASE Undecided
      BY <1>10, <2>1, VisitMoves DEF StoreDecision, Serving, Undecided, Went, Decides
    <2>2. CASE ~ Undecided
      BY <1>10, <2>2, VisitMoves DEF StoreDecision, Serving, Went, Refuses
    <2> QED BY <2>1, <2>2
  <1>11. CASE VisitDies(r)
    BY <1>11, VisitMoves DEF VisitDies, Went, Refuses
  <1> QED BY <1>5, <1>6, <1>7, <1>8, <1>9, <1>10, <1>11 DEF VisitStep

\* A request that was idle asks; the users it is for pass the check.
Loads(r) ==
  /\ visit' \in [Visits -> Visit]
  /\ \A s \in Visits \ {r} : visit'[s] = visit[s]
  /\ visit[r].pc = "idle" /\ txn.begun
  /\ \/ visit'[r].pc = "done" /\ visit'[r].answer = "refused"
     \/ visit'[r].pc = "select" /\ visit'[r].answer = "none" /\ txn.owner \in {visit'[r].user, Null}
  /\ UNCHANGED <<txn, member, codes>>

LEMMA LoadLoads ==
  ASSUME ConsentTypeOK, NEW r \in Visits, NEW k \in Kinds, NEW u \in Users,
         NEW w \in Workspaces \cup {Null}, Load(r, k, u, w)
  PROVE  Loads(r)
  <1>1. visit \in [Visits -> Visit] /\ txn \in Transaction
    BY DEF ConsentTypeOK
  <1>2. CASE Available(k, u)
    <2> DEFINE q == [pc |-> "select", kind |-> k, user |-> u, choice |-> w,
                     workspace |-> txn.workspace, answer |-> "none"]
    <2>1. q \in Visit /\ q.pc = "select" /\ q.user = u /\ q.answer = "none"
      BY <1>1 DEF Visit, Transaction
    <2>2. visit' = [visit EXCEPT ![r] = q] /\ visit[r].pc = "idle" /\ txn.begun
          /\ UNCHANGED <<txn, member, codes>>
      BY <1>2 DEF Load
    <2>3. txn.owner \in {u, Null}
      BY <1>2 DEF Available
    <2> HIDE DEF q
    <2> QED BY <1>1, <2>1, <2>2, <2>3 DEF Loads
  <1>3. CASE ~ Available(k, u)
    BY <1>3, VisitMoves DEF Load, Loads, OneMoves
  <1> QED BY <1>2, <1>3

\* What happens to the transaction but by a request.
Turns ==
  \/ /\ \E u \in Users \cup {Null} : BeginAuthorization(u)
     /\ txn' \in Transaction /\ txn'.by = txn'.owner /\ ~ txn'.consumed
  \/ /\ TransactionExpires
     /\ txn' \in Transaction /\ txn'.begun = txn.begun /\ txn'.by = txn.by /\ txn'.owner = txn.owner
     /\ txn'.consumed = txn.consumed
  \/ txn' = txn /\ member' \subseteq Members /\ UNCHANGED <<codes, visit>>

Does ==
  \/ \E r \in Visits : Loads(r)
  \/ \E r \in Visits : OneMoves(r) /\ Went(r) /\ visit[r].pc \in {"select", "check", "store"}
  \/ Turns

LEMMA NextDoes ==
  ASSUME ConsentTypeOK, StartInv, [ConsentNext]_consentVars
  PROVE  Does
  <1>1. txn \in Transaction /\ member \subseteq Members
    BY DEF ConsentTypeOK
  <1>2. ASSUME NEW u \in Users \cup {Null}, BeginAuthorization(u) PROVE Turns
    <2> DEFINE w == IF u = Null THEN Null ELSE Single(u)
    <2>1. w \in Workspaces \cup {Null} /\ ~ txn.consumed
      BY <1>2, SingleIsWorkspace DEF BeginAuthorization, StartInv
    <2>2. txn' = [txn EXCEPT !.begun = TRUE, !.by = u, !.owner = u, !.workspace = w]
      BY <1>2 DEF BeginAuthorization
    <2> HIDE DEF w
    <2>3. txn' \in Transaction /\ txn'.by = txn'.owner /\ ~ txn'.consumed
      BY <1>1, <2>1, <2>2 DEF Transaction
    <2> QED BY <1>2, <2>3 DEF Turns
  <1>3. ASSUME TransactionExpires PROVE Turns
    <2>1. txn' = [txn EXCEPT !.expired = TRUE]
      BY <1>3 DEF TransactionExpires
    <2>2. txn' \in Transaction /\ txn'.begun = txn.begun /\ txn'.by = txn.by /\ txn'.owner = txn.owner
          /\ txn'.consumed = txn.consumed
      BY <1>1, <2>1 DEF Transaction
    <2> QED BY <1>3, <2>2 DEF Turns
  <1>4. ASSUME NEW m \in Members, ChangeMembership(m) PROVE Turns
    BY <1>1, <1>4 DEF ChangeMembership, Turns
  <1>5. ASSUME UNCHANGED consentVars PROVE Turns
    <2>1. txn' = txn /\ member' = member /\ codes' = codes /\ visit' = visit
      BY <1>5 DEF consentVars
    <2> QED BY <1>1, <2>1 DEF Turns
  <1> QED BY <1>2, <1>3, <1>4, <1>5, LoadLoads, RunsWent DEF ConsentNext, Does

\* What a step of a request does to the transaction and the codes.
LEMMA WentMoves ==
  ASSUME ConsentTypeOK, NEW r \in Visits, OneMoves(r), Went(r)
  PROVE  /\ txn' \in Transaction /\ txn'.begun = txn.begun /\ txn'.by = txn.by
         /\ txn.consumed => txn'.consumed
         /\ txn'.owner = txn.owner \/ (visit[r].pc = "store" /\ txn'.owner = visit[r].user)
         /\ member' \subseteq Members
         /\ codes' \in [Visits -> Code]
         /\ \A s \in Visits \ {r} : codes'[s] = codes[s]
         /\ codes'[r] # codes[r] =>
              /\ Decides(r) /\ visit[r].kind = "allow"
              /\ codes'[r].user = visit[r].user /\ codes'[r].workspace = visit[r].workspace
  <1>1. /\ txn \in Transaction /\ member \subseteq Members
        /\ codes \in [Visits -> Code] /\ visit[r] \in Visit
    BY DEF ConsentTypeOK
  <1>2. CASE Refuses(r) \/ Passes(r)
    BY <1>1, <1>2 DEF Refuses, Passes
  <1>3. CASE Shows(r)
    <2>1. codes' = codes /\ member' = member
      BY <1>3 DEF Shows
    <2>2. CASE txn' = txn
      BY <1>1, <2>1, <2>2
    <2>3. ASSUME NEW w \in Workspaces \cup {Null}, txn' = [txn EXCEPT !.workspace = w]
          PROVE  txn' \in Transaction /\ txn'.begun = txn.begun /\ txn'.by = txn.by
                 /\ txn'.consumed = txn.consumed /\ txn'.owner = txn.owner
      BY <1>1, <2>3 DEF Transaction
    <2>4. ASSUME NEW w \in Workspaces \cup {Null},
                 txn' = [txn EXCEPT !.owner = visit[r].user, !.workspace = w]
          PROVE  txn' \in Transaction /\ txn'.begun = txn.begun /\ txn'.by = txn.by
                 /\ txn'.consumed = txn.consumed /\ txn'.owner = visit[r].user
      BY <1>1, <2>4 DEF Transaction, Visit
    <2> QED BY <1>1, <1>3, <2>1, <2>2, <2>3, <2>4 DEF Shows
  <1>4. CASE Decides(r)
    <2> DEFINE c == [user |-> visit[r].user, workspace |-> visit[r].workspace]
    <2>1. txn' \in Transaction /\ txn'.begun = txn.begun /\ txn'.by = txn.by /\ txn'.consumed
          /\ txn'.owner = visit[r].user /\ visit[r].pc = "store" /\ member' = member
      BY <1>1, <1>4 DEF Decides, Transaction, Visit
    <2>2. c \in Code /\ c.user = visit[r].user /\ c.workspace = visit[r].workspace
      BY <1>1 DEF Code, Visit
    <2>3. codes' = codes \/ (visit[r].kind = "allow" /\ codes' = [codes EXCEPT ![r] = c])
      BY <1>4 DEF Decides
    <2> HIDE DEF c
    <2> QED BY <1>1, <1>4, <2>1, <2>2, <2>3
  <1> QED BY <1>2, <1>3, <1>4 DEF Went
-----------------------------------------------------------------------------
(* The invariant is kept *)

LEMMA ConsentTypeStep ==
  ASSUME ConsentTypeOK, Does
  PROVE  ConsentTypeOK'
  <1>1. ASSUME NEW r \in Visits, Loads(r) PROVE ConsentTypeOK'
    BY <1>1 DEF Loads, ConsentTypeOK
  <1>2. ASSUME NEW r \in Visits, OneMoves(r), Went(r) PROVE ConsentTypeOK'
    BY <1>2, WentMoves DEF OneMoves, ConsentTypeOK
  <1>3. CASE Turns
    BY <1>3 DEF Turns, BeginAuthorization, TransactionExpires, ConsentTypeOK
  <1> QED BY <1>1, <1>2, <1>3 DEF Does

LEMMA StartStep ==
  ASSUME ConsentTypeOK, StartInv, Does
  PROVE  StartInv'
  <1>1. ASSUME NEW r \in Visits, Loads(r) PROVE StartInv'
    BY <1>1 DEF Loads, StartInv
  <1>2. ASSUME NEW r \in Visits, OneMoves(r), Went(r), visit[r].pc \in {"select", "check", "store"}
        PROVE  StartInv'
    <2>1. txn.begun /\ txn'.begun
      BY <1>2, WentMoves DEF StartInv
    <2>2. visit'[r].pc # "idle"
      BY <1>2 DEF Went, Refuses, Passes, Shows, Decides
    <2> QED BY <1>2, <2>1, <2>2 DEF StartInv, OneMoves
  <1>3. CASE Turns
    <2>1. CASE \E u \in Users \cup {Null} : BeginAuthorization(u)
      <3>1. txn'.begun
        BY <2>1 DEF BeginAuthorization, ConsentTypeOK, Transaction
      <3> QED BY <2>1, <3>1 DEF BeginAuthorization, StartInv
    <2>2. CASE ~ \E u \in Users \cup {Null} : BeginAuthorization(u)
      BY <1>3, <2>2 DEF Turns, TransactionExpires, StartInv
    <2> QED BY <2>1, <2>2
  <1> QED BY <1>1, <1>2, <1>3 DEF Does

LEMMA DecisionStep ==
  ASSUME ConsentTypeOK, StartInv, DecisionInv, Does
  PROVE  DecisionInv'
  <1>1. ASSUME NEW r \in Visits, Loads(r) PROVE DecisionInv'
    BY <1>1 DEF Loads, DecisionInv, OneDecision, Decided
  <1>2. ASSUME NEW r \in Visits, OneMoves(r), Went(r), visit[r].pc \in {"select", "check", "store"}
        PROVE  DecisionInv'
    <2>1. Decided(r)' => Decides(r) \/ Decided(r)
      BY <1>2 DEF Went, Refuses, Passes, Shows, OneMoves, Decided
    <2>2. \A s \in Visits \ {r} : Decided(s)' <=> Decided(s)
      BY <1>2 DEF OneMoves, Decided
    <2>3. Decides(r) => ~ txn.consumed /\ txn'.consumed
      BY DEF Decides, ConsentTypeOK, Transaction
    <2>4. \A s \in Visits : codes'[s] # NoCode => codes[s] # NoCode \/ Decides(r)
      BY <1>2, WentMoves
    <2>5. txn.consumed => txn'.consumed
      BY <1>2, WentMoves
    <2>6. OneDecision'
      BY <2>1, <2>2, <2>3 DEF DecisionInv, OneDecision
    <2> QED BY <2>1, <2>2, <2>3, <2>4, <2>5, <2>6 DEF DecisionInv
  <1>3. CASE Turns
    <2>1. CASE \E u \in Users \cup {Null} : BeginAuthorization(u)
      BY <2>1 DEF BeginAuthorization, StartInv, DecisionInv, OneDecision, Decided
    <2>2. CASE ~ \E u \in Users \cup {Null} : BeginAuthorization(u)
      BY <1>3, <2>2 DEF Turns, TransactionExpires, DecisionInv, OneDecision, Decided
    <2> QED BY <2>1, <2>2
  <1> QED BY <1>1, <1>2, <1>3 DEF Does

LEMMA OwnerStep ==
  ASSUME ConsentTypeOK, StartInv, OwnerInv, Does
  PROVE  OwnerInv'
  <1>1. ASSUME NEW r \in Visits, Loads(r) PROVE OwnerInv'
    BY <1>1 DEF Loads, OwnerInv
  <1>2. ASSUME NEW r \in Visits, OneMoves(r), Went(r), visit[r].pc \in {"select", "check", "store"}
        PROVE  OwnerInv'
    <2>1. txn'.by = txn.by /\ (txn'.owner = txn.owner \/ txn'.owner = visit[r].user)
          /\ \A s \in Visits : codes'[s] = codes[s] \/ (s = r /\ codes'[s].user = visit[r].user)
      BY <1>2, WentMoves
    <2>2. txn.by # Null => visit[r].user = txn.by
      BY <1>2 DEF OwnerInv
    <2> QED BY <1>2, <2>1, <2>2 DEF OwnerInv, OneMoves
  <1>3. CASE Turns
    <2>1. CASE \E u \in Users \cup {Null} : BeginAuthorization(u)
      BY <1>3, <2>1 DEF Turns, BeginAuthorization, TransactionExpires, StartInv, OwnerInv
    <2>2. CASE ~ \E u \in Users \cup {Null} : BeginAuthorization(u)
      BY <1>3, <2>2 DEF Turns, TransactionExpires, OwnerInv
    <2> QED BY <2>1, <2>2
  <1> QED BY <1>1, <1>2, <1>3 DEF Does

LEMMA CheckedStep ==
  ASSUME ConsentTypeOK, CheckedInv, Does
  PROVE  CheckedInv'
  <1>1. ASSUME NEW r \in Visits, Loads(r) PROVE CheckedInv'
    BY <1>1 DEF Loads, CheckedInv, CodeIsForMember
  <1>2. ASSUME NEW r \in Visits, OneMoves(r), Went(r) PROVE CheckedInv'
    <2>1. visit'[r].pc = "store" /\ visit'[r].kind = "allow" =>
            <<visit'[r].user, visit'[r].workspace>> \in Members
      BY <1>2 DEF Went, Refuses, Passes, Shows, Decides, OneMoves
    <2>2. codes'[r] # codes[r] => <<codes'[r].user, codes'[r].workspace>> \in Members
      BY <1>2, WentMoves DEF CheckedInv, Decides
    <2>3. \A s \in Visits \ {r} : codes'[s] = codes[s]
      BY <1>2, WentMoves
    <2> QED BY <1>2, <2>1, <2>2, <2>3 DEF CheckedInv, CodeIsForMember, OneMoves
  <1>3. CASE Turns
    BY <1>3 DEF Turns, BeginAuthorization, TransactionExpires, CheckedInv, CodeIsForMember
  <1> QED BY <1>1, <1>2, <1>3 DEF Does
-----------------------------------------------------------------------------
(* The theorems *)

\* The strengthening of the invariants below: what a request past each of its
\* reads has seen of the transaction.
THEOREM ConsentInvariant == ConsentSpec => []ConsentInv
  <1> USE DEF ConsentInv
  <1>1. ConsentInit => ConsentInv
    BY OAuthConsentAssumption
       DEF ConsentInit, ConsentTypeOK, Transaction, Visit, Code, NoCode, StartInv, DecisionInv,
           OneDecision, Decided, OwnerInv, CheckedInv, CodeIsForMember
  <1>2. ConsentInv /\ [ConsentNext]_consentVars => ConsentInv'
    <2> SUFFICES ASSUME ConsentInv, [ConsentNext]_consentVars PROVE ConsentInv'
      OBVIOUS
    <2>1. Does
      BY NextDoes
    <2> QED BY <2>1, ConsentTypeStep, StartStep, DecisionStep, OwnerStep, CheckedStep
  <1> QED BY <1>1, <1>2, PTL DEF ConsentSpec

\* Every variable keeps its type (oauth-authorization.service.ts).
THEOREM ConsentTypeCorrect == ConsentSpec => []ConsentTypeOK
  <1>1. ConsentInv => ConsentTypeOK
    BY DEF ConsentInv
  <1> QED BY <1>1, ConsentInvariant, PTL

\* Any number of approvals and denials makes one decision (decideAuthorization:
\* its UPDATE asks for a transaction that is not consumed).
THEOREM DecidedOnce == ConsentSpec => []OneDecision
  <1>1. ConsentInv => OneDecision
    BY DEF ConsentInv, DecisionInv
  <1> QED BY <1>1, ConsentInvariant, PTL

\* A transaction begun by somebody is continued, seen and allowed by nobody
\* else (the check of the user in each operation).
THEOREM StaysMine == ConsentSpec => []BegunStaysMine
  <1>1. ConsentInv => BegunStaysMine
    BY DEF ConsentInv, OwnerInv, BegunStaysMine
  <1> QED BY <1>1, ConsentInvariant, PTL

\* A code names a workspace its user may be a member of
\* (requireWorkspaceMembership before every approval).
THEOREM CodesForMembers == ConsentSpec => []CodeIsForMember
  <1>1. ConsentInv => CodeIsForMember
    BY DEF ConsentInv, CheckedInv
  <1> QED BY <1>1, ConsentInvariant, PTL
-----------------------------------------------------------------------------
(* OAuthTokens: tokens and those who hold them *)

\* Requests that may already have inserted their tokens.
Answering == {"revoke", "lock", "access", "done"}

\* Where a token comes from.
RowInv ==
  \A t \in Requests : Exists(t) =>
    /\ req[t].pc \in Answering
    /\ req[t].presents \in Codes \cup Requests
    /\ req[t].presents \in Codes => Family(t) = t /\ req[t].presents \in redeemed
    /\ req[t].presents \in Requests =>
         /\ Exists(req[t].presents) /\ refresh[req[t].presents].used
         /\ Family(t) = Family(req[t].presents)
    /\ Family(t) \in Requests /\ Exists(Family(t)) /\ req[Family(t)].presents \in Codes

\* What a running request knows of what it presents.
StepInv ==
  \A r \in Requests :
    /\ req[r].pc \in {"redeem", "issue"} => req[r].presents \in Codes
    /\ req[r].pc \in Waiting \ {"redeem", "issue"} =>
         req[r].presents \in Requests /\ Exists(req[r].presents)
    /\ \A t \in req[r].snap : Exists(t)

\* What a transaction has updated is its own until it commits.
HoldInv ==
  \A r \in Requests :
    /\ At(r, "issue") => /\ req[r].presents \notin redeemed
                         /\ \A o \in Requests \ {r} :
                              At(o, "issue") => req[o].presents # req[r].presents
    /\ At(r, "rotate") => Live(req[r].presents) /\ ~ Locked(req[r].presents, r)

TokenInv == TypeOK /\ RowInv /\ StepInv /\ HoldInv /\ NothingBuysTwice /\ OneLiveToken

-----------------------------------------------------------------------------
(* Type correctness *)


ReqOK == req \in [Requests -> Request]

\* Only the record of request r changes, and what it holds is v.
Moved(r, pc, presents, answer) ==
  /\ ReqOK'
  /\ \A o \in Requests \ {r} : req'[o] = req[o]
  /\ req'[r].pc = pc /\ req'[r].presents = presents /\ req'[r].answer = answer
  /\ req'[r].snap = req[r].snap /\ req'[r].accessSnap = req[r].accessSnap

\* What the ways to move a request on do to its record.
LEMMA Moves ==
  ASSUME ReqOK, NEW r \in Requests
  PROVE  /\ \A step \in Waiting \cup {"done"} :
              Go(r, step) => Moved(r, step, req[r].presents, req[r].answer)
         /\ \A a \in Answers : Answer(r, a) => Moved(r, "done", req[r].presents, a)
         /\ \A x \in Codes \cup Requests, step \in Waiting :
              Begin(r, x, step) => Moved(r, step, x, req[r].answer)
         /\ \A x \in Codes \cup Requests, a \in Answers :
              Refuse(r, x, a) => Moved(r, "done", x, a)
  <1> USE DEF ReqOK, Request, Moved
  <1>1. req[r] \in Request
    OBVIOUS
  <1>2. ASSUME NEW step \in Waiting \cup {"done"}, Go(r, step)
        PROVE  Moved(r, step, req[r].presents, req[r].answer)
    BY <1>1, <1>2 DEF Go
  <1>3. ASSUME NEW a \in Answers, Answer(r, a)
        PROVE  Moved(r, "done", req[r].presents, a)
    BY <1>1, <1>3 DEF Answer
  <1>4. ASSUME NEW x \in Codes \cup Requests, NEW step \in Waiting, Begin(r, x, step)
        PROVE  Moved(r, step, x, req[r].answer)
    BY <1>1, <1>4 DEF Begin
  <1>5. ASSUME NEW x \in Codes \cup Requests, NEW a \in Answers, Refuse(r, x, a)
        PROVE  Moved(r, "done", x, a)
    BY <1>1, <1>5 DEF Refuse
  <1>6. QED
    BY <1>2, <1>3, <1>4, <1>5

\* A request that waits in a circle is one that revokes.
LEMMA CircleRevokes ==
  ASSUME NEW r \in Requests, Deadlocked(r)
  PROVE  req[r].pc \in {"lock", "access"}
  <1>1. PICK S \in SUBSET Requests :
          /\ r \in S /\ S # {r}
          /\ \A T \in (SUBSET S) \ {{}, S} : \E o \in T, p \in S \ T : WaitsFor(o, p)
    BY DEF Deadlocked
  <1>2. {r} \in (SUBSET S) \ {{}, S}
    BY <1>1
  <1>3. \E p \in S : WaitsFor(r, p)
    BY <1>1, <1>2
  <1>4. QED
    BY <1>3 DEF WaitsFor, At

\* The rows of refresh tokens a request has updated, before and after a step.
LEMMA HeldIs ==
  ASSUME NEW o \in Requests
  PROVE  /\ At(o, "rotate") => TokensHeld(o) = {req[o].presents}
         /\ At(o, "lock") => TokensHeld(o) = req[o].got
         /\ At(o, "access") => TokensHeld(o) = req[o].snap
         /\ req[o].pc \notin {"rotate", "lock", "access"} => TokensHeld(o) = {}
         /\ At(o, "rotate")' => TokensHeld(o)' = {req'[o].presents}
         /\ At(o, "lock")' => TokensHeld(o)' = req'[o].got
         /\ At(o, "access")' => TokensHeld(o)' = req'[o].snap
         /\ req'[o].pc \notin {"rotate", "lock", "access"} => TokensHeld(o)' = {}
  <1>1. At(o, "rotate") => TokensHeld(o) = {req[o].presents}
    BY DEF TokensHeld, At
  <1>2. At(o, "lock") => TokensHeld(o) = req[o].got
    BY DEF TokensHeld, At
  <1>3. At(o, "access") => TokensHeld(o) = req[o].snap
    BY DEF TokensHeld, At
  <1>4. req[o].pc \notin {"rotate", "lock", "access"} => TokensHeld(o) = {}
    BY DEF TokensHeld, At
  <1>5. At(o, "rotate")' => TokensHeld(o)' = {req'[o].presents}
    BY DEF TokensHeld, At
  <1>6. At(o, "lock")' => TokensHeld(o)' = req'[o].got
    BY DEF TokensHeld, At
  <1>7. At(o, "access")' => TokensHeld(o)' = req'[o].snap
    BY DEF TokensHeld, At
  <1>8. req'[o].pc \notin {"rotate", "lock", "access"} => TokensHeld(o)' = {}
    BY DEF TokensHeld, At
  <1>9. QED
    BY <1>1, <1>2, <1>3, <1>4, <1>5, <1>6, <1>7, <1>8

\* A request that holds no row afterwards takes none from the others.
LEMMA HeldShrinks ==
  ASSUME NEW r \in Requests, \A q \in Requests \ {r} : req'[q] = req[q],
         req'[r].pc \notin {"rotate", "lock", "access"}
  PROVE  \A o \in Requests : \A t : Locked(t, o)' => Locked(t, o)
  <1>1. \A q \in Requests \ {r} : TokensHeld(q)' = TokensHeld(q)
    BY DEF TokensHeld, At
  <1>2. TokensHeld(r)' = {}
    BY HeldIs
  <1>3. QED
    BY <1>1, <1>2 DEF Locked

\* Every step keeps every variable in its type.
LEMMA TypeStep == TypeOK /\ StepInv /\ [Next]_vars => TypeOK'
  <1> SUFFICES ASSUME TypeOK, StepInv, [Next]_vars
               PROVE  TypeOK'
    OBVIOUS
  <1>0. ReqOK
    BY DEF TypeOK, ReqOK
  <1> USE DEF TypeOK, ReqOK, Moved
  <1>d. ASSUME NEW r \in Requests, NEW x \in Presentable, Deny(r, x)
        PROVE  TypeOK'
    BY <1>0, <1>d, Moves DEF Deny, Presentable, Answers, rowVars, envVars
  <1>1. ASSUME NEW r \in Requests, NEW c \in Codes, ReadCode(r, c)
        PROVE  TypeOK'
    BY <1>0, <1>1, Moves DEF ReadCode, Waiting, Answers, rowVars, envVars
  <1>2. ASSUME NEW r \in Requests, NEW t \in Requests, ReadToken(r, t)
        PROVE  TypeOK'
    BY <1>0, <1>2, Moves DEF ReadToken, Waiting, Answers, rowVars, envVars
  <1>3. ASSUME NEW r \in Requests, NEW t \in Requests, RevokeAccess(r, t)
        PROVE  TypeOK'
    <2>1. req[r] \in Request
      BY <1>0
    <2>2. [req[r] EXCEPT !.pc = "done", !.answer = "revoked"] \in Request
      BY <2>1 DEF Request, Answers
    <2>3. QED
      BY <1>3, <2>2 DEF RevokeAccess, envVars
  <1>4. ASSUME NEW r \in Requests, NEW t \in Requests, RevokeRefresh(r, t)
        PROVE  TypeOK'
    BY <1>0, <1>4, Moves DEF RevokeRefresh, Waiting, rowVars, envVars
  <1>5. ASSUME NEW r \in Requests, Step(r)
        PROVE  TypeOK'
    <2>1. CASE ClaimCode(r)
      BY <1>0, <2>1, Moves DEF ClaimCode, Waiting, Answers, rowVars, envVars
    <2>2. CASE Issue(r)
      <3>1. req[r].presents \in Codes
        BY <2>2 DEF Issue, StepInv, At
      <3>2. NewRow(r) \in Row
        BY DEF NewRow, Row
      <3>3. QED
        BY <1>0, <2>2, <3>1, <3>2, Moves DEF Issue, Answers, envVars
    <2>3. CASE CheckMember(r)
      BY <1>0, <2>3, Moves DEF CheckMember, Waiting, rowVars, envVars
    <2>4. CASE Claim(r)
      BY <1>0, <2>4, Moves DEF Claim, Waiting, rowVars, envVars
    <2>5. CASE Rotate(r)
      <3> DEFINE t == req[r].presents
      <3>1. t \in Requests /\ refresh[t] \in Row
        BY <2>5 DEF Rotate, StepInv, At, Waiting, Exists, NoRow, Row
      <3>2. Successor(r, t) \in Row /\ [refresh[t] EXCEPT !.used = TRUE] \in Row
        BY <3>1 DEF Successor, NewRow, Row, Family
      <3>3. [refresh EXCEPT ![t].used = TRUE, ![r] = Successor(r, t)]
              \in [Requests -> Row \cup {NoRow}]
        BY <3>1, <3>2
      <3>4. QED
        BY <1>0, <2>5, <3>3, Moves DEF Rotate, Waiting, Answers, envVars
    <2>6. CASE SeeFamily(r)
      <3> DEFINE seen == SeenTokens(Family(req[r].presents))
      <3>1. seen \in SUBSET Requests
        BY DEF SeenTokens
      <3> HIDE DEF seen
      <3>a. req[r] \in Request
        BY <1>0
      <3>2. [req[r] EXCEPT !.pc = "lock", !.snap = seen, !.got = {}] \in Request
        BY <3>1, <3>a DEF Request, Waiting
      <3>3. QED
        BY <2>6, <3>2 DEF SeeFamily, rowVars, envVars, seen
    <2>7. ASSUME NEW t \in Requests, LockToken(r, t) \/ LockAccess(r, t)
          PROVE  TypeOK'
      <3>1. req[r] \in Request
        BY <1>0
      <3>2. [req[r] EXCEPT !.got = @ \cup {t}] \in Request
        BY <3>1 DEF Request
      <3>3. QED
        BY <2>7, <3>2 DEF LockToken, LockAccess, Get, rowVars, envVars
    <2>8. CASE SeeAccess(r)
      <3> DEFINE seen == SeenAccess(Family(req[r].presents))
      <3>1. seen \in SUBSET Requests
        BY DEF SeenAccess
      <3> HIDE DEF seen
      <3>a. req[r] \in Request
        BY <1>0
      <3>2. [req[r] EXCEPT !.pc = "access", !.got = {}, !.accessSnap = seen] \in Request
        BY <3>1, <3>a DEF Request, Waiting
      <3>3. QED
        BY <2>8, <3>2 DEF SeeAccess, rowVars, envVars, seen
    <2>9. CASE CommitRevocation(r)
      <3>1. ASSUME NEW t \in Requests, t \in req[r].snap
            PROVE  [refresh[t] EXCEPT !.revoked = TRUE] \in Row
        <4>1. refresh[t] \in Row
          BY <3>1 DEF StepInv, Exists, NoRow
        <4>2. QED
          BY <4>1 DEF Row
      <3>3. req[r].accessSnap \subseteq Requests
        BY DEF Request
      <3>4. QED
        BY <1>0, <2>9, <3>1, <3>3, Moves DEF CommitRevocation, Answers, envVars
    <2>10. CASE Abort(r)
      BY <1>0, <2>10, Moves DEF Abort, Answers, rowVars, envVars
    <2>11. QED
      BY <1>5, <2>1, <2>2, <2>3, <2>4, <2>5, <2>6, <2>7, <2>8, <2>9, <2>10 DEF Step
  <1>6. ASSUME NEW r \in Requests, Dies(r)
        PROVE  TypeOK'
    BY <1>0, <1>6, Moves DEF Dies, Answers, rowVars, envVars
  <1>7. ASSUME NEW x \in Presentable, Expire(x)
        PROVE  TypeOK'
    BY <1>7 DEF Expire, Presentable, rowVars
  <1>8. ASSUME NEW s \in {"good", "suspended", "removed"}, ChangeStanding(s)
        PROVE  TypeOK'
    BY <1>8 DEF ChangeStanding, rowVars
  <1>9. CASE UNCHANGED vars
    BY <1>9 DEF vars, rowVars, envVars
  <1>10. QED
    BY <1>d, <1>1, <1>2, <1>3, <1>4, <1>5, <1>6, <1>7, <1>8, <1>9 DEF Next

-----------------------------------------------------------------------------
(* The inductive invariant *)

\* A step that touches no row and keeps what running requests present.
Quiet ==
  /\ refresh' = refresh /\ redeemed' = redeemed
  /\ \A o \in Requests :
       /\ req[o].pc # "idle" => req'[o].presents = req[o].presents
       /\ req[o].pc \in Answering => req'[o].pc \in Answering

LEMMA QuietRows ==
  RowInv /\ NothingBuysTwice /\ OneLiveToken /\ Quiet
    => RowInv' /\ NothingBuysTwice' /\ OneLiveToken'
  <1> SUFFICES ASSUME RowInv, NothingBuysTwice, OneLiveToken, Quiet
               PROVE  RowInv' /\ NothingBuysTwice' /\ OneLiveToken'
    OBVIOUS
  <1>1. \A t \in Requests : Exists(t)' = Exists(t) /\ Live(t)' = Live(t)
                            /\ Family(t)' = Family(t)
    BY DEF Quiet, Exists, Live, Family
  <1>2. \A t \in Requests : Exists(t) =>
          req'[t].presents = req[t].presents /\ req'[t].pc \in Answering
    BY DEF Quiet, RowInv, Answering
  <1>3. RowInv'
    BY <1>1, <1>2 DEF RowInv, Quiet
  <1>4. NothingBuysTwice'
    BY <1>1, <1>2 DEF NothingBuysTwice
  <1>5. OneLiveToken'
    BY <1>1 DEF OneLiveToken
  <1>6. QED
    BY <1>3, <1>4, <1>5

\* The first step of a request.
LEMMA BeginStep ==
  ASSUME TokenInv, NEW r \in Requests, NEW x \in Codes \cup Requests,
         \/ x \in Presentable /\ Deny(r, x)
         \/ x \in Codes /\ ReadCode(r, x)
         \/ x \in Requests /\ (ReadToken(r, x) \/ RevokeRefresh(r, x) \/ RevokeAccess(r, x))
  PROVE  TokenInv'
  <1>0. TypeOK'
    BY TypeStep DEF TokenInv, Next
  <1>a. ReqOK /\ req[r].pc = "idle" /\ refresh' = refresh /\ redeemed' = redeemed
        /\ (x \in Requests => Exists(x))
    BY OAuthTokensAssumption DEF TokenInv, TypeOK, ReqOK, Deny, Presentable, ReadCode, ReadToken,
       RevokeRefresh, RevokeAccess, At, rowVars
  <1>b. \/ x \in Codes /\ Begin(r, x, "redeem")
        \/ x \in Requests /\ (Begin(r, x, "revoke") \/ Begin(r, x, "member"))
        \/ Refuse(r, x, "refused") \/ Refuse(r, x, "denied")
        \/ req' = [req EXCEPT ![r].pc = "done", ![r].answer = "revoked"]
    BY DEF Deny, ReadCode, ReadToken, RevokeRefresh, RevokeAccess
  <1>1. /\ \A o \in Requests \ {r} : req'[o] = req[o]
        /\ \/ x \in Codes /\ req'[r].presents = x /\ req'[r].pc \in {"redeem", "done"}
           \/ x \in Requests /\ Exists(x) /\ req'[r].presents = x
              /\ req'[r].pc \in {"revoke", "member", "done"}
           \/ req'[r].presents = req[r].presents /\ req'[r].pc = "done"
        /\ req'[r].snap = req[r].snap
    BY <1>a, <1>b, Moves DEF Waiting, Answers, ReqOK, Request, Moved
  <1>2. Quiet
    BY <1>a, <1>1 DEF Quiet, Answering
  <1>3. \A t \in Requests : Exists(t)' = Exists(t) /\ Live(t)' = Live(t)
    BY <1>a DEF Exists, Live
  <1>4. \A o \in Requests : \A t : Locked(t, o)' => Locked(t, o)
    BY <1>1, OAuthTokensAssumption, HeldShrinks
  <1>5. StepInv'
    BY <1>1, <1>3, <1>a, OAuthTokensAssumption DEF TokenInv, StepInv, Waiting, TypeOK, Request
  <1>6. HoldInv'
    <2>1. ASSUME NEW o \in Requests, At(o, "rotate")'
          PROVE  Live(req[o].presents)' /\ ~ Locked(req[o].presents, o)'
      <3>1. o # r /\ At(o, "rotate") /\ req'[o] = req[o]
        BY <1>1, <2>1 DEF At
      <3>2. req[o].presents \in Requests
        BY <3>1 DEF TokenInv, StepInv, At, Waiting
      <3>3. Live(req[o].presents) /\ ~ Locked(req[o].presents, o)
        BY <3>1 DEF TokenInv, HoldInv
      <3>4. QED
        BY <3>1, <3>2, <3>3, <1>3, <1>4 DEF Locked
    <2>2. QED
      BY <2>1, <1>1, <1>a DEF TokenInv, HoldInv, At
  <1>7. QED
    BY <1>0, <1>2, <1>5, <1>6, QuietRows DEF TokenInv

\* The steps that move a request on without a commit.
LEMMA MoveStep ==
  ASSUME TokenInv, NEW r \in Requests,
         \/ ClaimCode(r) \/ CheckMember(r) \/ Claim(r) \/ SeeFamily(r) \/ SeeAccess(r)
         \/ \E t \in Requests : LockToken(r, t) \/ LockAccess(r, t)
         \/ Abort(r) \/ Dies(r)
  PROVE  TokenInv'
  <1>0. TypeOK'
    BY TypeStep DEF TokenInv, Next, Step
  <1>a. ReqOK /\ req[r].pc \in Waiting /\ refresh' = refresh /\ redeemed' = redeemed
    BY CircleRevokes
       DEF TokenInv, TypeOK, ReqOK, ClaimCode, CheckMember, Claim, SeeFamily, SeeAccess,
           LockToken, LockAccess, Abort, Dies, At, Waiting, rowVars
  <1>b. req[r] \in Request
    BY <1>a DEF ReqOK
  <1>1. /\ \A o \in Requests \ {r} : req'[o] = req[o]
        /\ req'[r].presents = req[r].presents
        /\ \/ req[r].pc = "redeem" /\ req'[r].pc \in {"issue", "done"}
           \/ req[r].pc = "member" /\ req'[r].pc \in {"claim", "revoke"}
           \/ req[r].pc = "claim" /\ req'[r].pc \in {"rotate", "revoke"}
           \/ req[r].pc = "revoke" /\ req'[r].pc = "lock"
           \/ req[r].pc = "lock" /\ req'[r].pc \in {"lock", "access"}
           \/ req[r].pc = "access" /\ req'[r].pc = "access"
           \/ req'[r].pc = "done"
        /\ \/ req'[r].snap = req[r].snap
           \/ req[r].pc = "revoke" /\ req'[r].pc = "lock" /\ \A t \in req'[r].snap : Exists(t)
        /\ \A t \in TokensHeld(r)' \ TokensHeld(r) : ~ Locked(t, r)
    <2>1. CASE ClaimCode(r)
      BY <1>a, <1>b, <2>1, Moves, HeldIs DEF ClaimCode, At, Waiting, Answers, Moved
    <2>2. CASE CheckMember(r)
      BY <1>a, <1>b, <2>2, Moves, HeldIs DEF CheckMember, At, Waiting, Moved
    <2>3. CASE Claim(r)
      BY <1>a, <1>b, <2>3, Moves, HeldIs DEF Claim, At, Waiting, Moved
    <2>4. CASE SeeFamily(r)
      <3>1. /\ req[r].pc = "revoke" /\ req'[r].pc = "lock" /\ req'[r].got = {}
            /\ req'[r].presents = req[r].presents
            /\ req'[r].snap = SeenTokens(Family(req[r].presents))
            /\ \A o \in Requests \ {r} : req'[o] = req[o]
        BY <1>a, <1>b, <2>4 DEF SeeFamily, At, ReqOK, Request
      <3>2. TokensHeld(r)' = {}
        BY <3>1, HeldIs DEF At
      <3>3. QED
        BY <3>1, <3>2 DEF SeenTokens
    <2>5. CASE \E t \in Requests : LockToken(r, t)
      BY <1>a, <1>b, <2>5, HeldIs DEF LockToken, Get, At, ReqOK, Request
    <2>6. CASE SeeAccess(r)
      BY <1>a, <1>b, <2>6, HeldIs DEF SeeAccess, At, ReqOK, Request
    <2>7. CASE \E t \in Requests : LockAccess(r, t)
      BY <1>a, <1>b, <2>7, HeldIs DEF LockAccess, Get, At, ReqOK, Request
    <2>8. CASE Abort(r) \/ Dies(r)
      BY <1>a, <1>b, <2>8, Moves, HeldIs DEF Abort, Dies, At, Answers, Moved
    <2>9. QED
      BY <2>1, <2>2, <2>3, <2>4, <2>5, <2>6, <2>7, <2>8
  <1>d. Dies(r) \/ Abort(r) => req'[r].pc = "done"
    BY <1>a, Moves DEF Dies, Abort, Answers, Moved
  <1>2. Quiet
    BY <1>a, <1>1 DEF Quiet, Answering, Waiting
  <1>3. \A t \in Requests : Exists(t)' = Exists(t) /\ Live(t)' = Live(t)
    BY <1>a DEF Exists, Live
  <1>5. StepInv'
    <2>1. ASSUME NEW o \in Requests
          PROVE  /\ req'[o].presents = req[o].presents
                 /\ req'[o].pc \in Waiting => req[o].pc \in Waiting
                 /\ req'[o].pc \in Waiting \ {"redeem", "issue"} =>
                      req[o].pc \in Waiting \ {"redeem", "issue"}
                 /\ req'[o].pc \in {"redeem", "issue"} => req[o].pc \in {"redeem", "issue"}
                 /\ \A t \in req'[o].snap : Exists(t)
      BY <1>1, <1>a DEF TokenInv, StepInv, Waiting
    <2>2. QED
      BY <2>1, <1>a DEF TokenInv, StepInv, Exists
  <1>6. HoldInv'
    <2>1. ASSUME NEW o \in Requests, At(o, "issue")'
          PROVE  /\ req'[o].presents \notin redeemed
                 /\ \A q \in Requests \ {o} : At(q, "issue")' => req'[q].presents # req'[o].presents
      <3>1. ASSUME NEW q \in Requests, At(q, "issue"), At(q, "issue")'
            PROVE  req[q].presents \notin redeemed /\ req'[q].presents = req[q].presents
        BY <3>1, <1>1 DEF TokenInv, HoldInv
      <3>2. ASSUME NEW q \in Requests, ~ At(q, "issue"), At(q, "issue")'
            PROVE  q = r /\ ClaimCode(r)
        BY <3>2, <1>1, <1>a, <1>d DEF At, CheckMember, Claim, SeeFamily, SeeAccess, LockToken,
                LockAccess
      <3>3. ASSUME ClaimCode(r), At(r, "issue")'
            PROVE  /\ req[r].presents \notin redeemed
                   /\ \A q \in Requests : At(q, "issue") => req[q].presents # req[r].presents
        BY <3>3, <1>a, Moves DEF ClaimCode, At, Answers, Moved
      <3>4. QED
        BY <2>1, <3>1, <3>2, <3>3, <1>1, <1>a DEF TokenInv, HoldInv, At
    <2>2. ASSUME NEW o \in Requests, At(o, "rotate")'
          PROVE  Live(req[o].presents)' /\ ~ Locked(req[o].presents, o)'
      <3> DEFINE t == req[o].presents
      <3>1. req'[o].presents = t /\ t \in Requests
        BY <2>2, <1>1, <1>a DEF TokenInv, StepInv, At, Waiting
      <3>2. Live(t) /\ ~ Locked(t, o)
        <4>1. CASE At(o, "rotate")
          BY <4>1 DEF TokenInv, HoldInv
        <4>2. CASE ~ At(o, "rotate")
          <5>1. o = r /\ Claim(r)
            BY <2>2, <4>2, <1>1, <1>a, <1>d DEF At, ClaimCode, CheckMember, SeeFamily, SeeAccess,
                    LockToken, LockAccess
          <5>2. Usable(t)
            BY <2>2, <5>1, <1>a, Moves DEF Claim, At, Waiting, Moved
          <5>3. QED
            BY <5>1, <5>2 DEF Claim, Usable
        <4>3. QED
          BY <4>1, <4>2
      <3>3. ASSUME NEW q \in Requests \ {o}, t \in TokensHeld(q)'
            PROVE  FALSE
        <4>1. t \notin TokensHeld(q)
          BY <3>2, <3>3 DEF Locked
        <4>2. q = r
          BY <3>3, <4>1, <1>1 DEF TokensHeld, At
        <4>3. ~ Locked(t, r) /\ req'[o] = req[o]
          BY <3>3, <4>1, <4>2, <1>1
        <4>4. t \in TokensHeld(o)
          BY <2>2, <4>3, HeldIs DEF At
        <4>5. QED
          BY <3>3, <4>2, <4>3, <4>4 DEF Locked
      <3>4. QED
        BY <3>1, <3>2, <3>3, <1>3 DEF Locked
    <2>3. QED
      BY <1>a, <2>1, <2>2 DEF HoldInv
  <1>7. QED
    BY <1>0, <1>2, <1>5, <1>6, QuietRows DEF TokenInv

\* A code is redeemed: the first token of a family of its own.
LEMMA IssueStep == ASSUME TokenInv, NEW r \in Requests, Issue(r) PROVE TokenInv'
  <1> DEFINE c == req[r].presents
  <1>0. TypeOK'
    BY TypeStep DEF TokenInv, Next, Step
  <1>1. /\ ReqOK /\ req[r].pc = "issue" /\ c \in Codes /\ c \notin redeemed
        /\ ~ Exists(r)
    BY DEF TokenInv, TypeOK, ReqOK, Issue, At, StepInv, HoldInv, RowInv, Answering
  <1>2. Moved(r, "done", c, "tokens") \/ Moved(r, "done", c, "error")
    BY <1>1, Moves DEF Issue, Answers
  <1>l. \A o \in Requests : \A t : Locked(t, o)' => Locked(t, o)
    BY <1>2, HeldShrinks DEF Moved
  <1>3. /\ redeemed' = redeemed \cup {c}
        /\ refresh'[r] = NewRow(r)
        /\ \A t \in Requests \ {r} : refresh'[t] = refresh[t]
    BY DEF Issue, TokenInv, TypeOK
  <1>4. /\ \A t \in Requests \ {r} :
             Exists(t)' = Exists(t) /\ Live(t)' = Live(t) /\ Family(t)' = Family(t)
        /\ Exists(r)' /\ Family(r)' = r
    BY <1>3, OAuthTokensAssumption DEF Exists, Live, Family, NewRow
  <1>5. \A t \in Requests : Exists(t) => t # r /\ Family(t) # r /\ req[t].presents # c
    BY <1>1 DEF TokenInv, RowInv
  <1>6. RowInv'
    <2>1. ASSUME NEW t \in Requests, Exists(t)
          PROVE  /\ req'[t] = req[t] /\ req'[Family(t)] = req[Family(t)]
                 /\ req[t].presents # r /\ refresh'[t] = refresh[t]
                 /\ Family(t) \in Requests \ {r}
                 /\ req[t].presents \in Requests =>
                      refresh'[req[t].presents] = refresh[req[t].presents]
      BY <2>1, <1>1, <1>2, <1>3, <1>5 DEF TokenInv, RowInv, Moved
    <2>2. ASSUME NEW t \in Requests \ {r}, Exists(t)
          PROVE  /\ req'[t].pc \in Answering
                 /\ req'[t].presents \in Codes \cup Requests
                 /\ req'[t].presents \in Codes => Family(t)' = t /\ req'[t].presents \in redeemed'
                 /\ req'[t].presents \in Requests =>
                      /\ Exists(req[t].presents)' /\ refresh'[req'[t].presents].used
                      /\ Family(t)' = Family(req[t].presents)'
                 /\ Family(t)' \in Requests /\ Exists(Family(t))'
                 /\ req'[Family(t)].presents \in Codes
      BY <2>1, <2>2, <1>3, <1>4 DEF TokenInv, RowInv, Exists, Family
    <2>3. QED
      BY <2>1, <2>2, <1>1, <1>2, <1>3, <1>4, OAuthTokensAssumption
         DEF RowInv, Answering, Moved, Exists, Family
  <1>7. StepInv'
    BY <1>1, <1>2, <1>3, OAuthTokensAssumption
       DEF TokenInv, StepInv, Moved, Exists, NewRow, Waiting, ReqOK, Request
  <1>8. HoldInv'
    <2>1. ASSUME NEW o \in Requests, At(o, "issue")'
          PROVE  /\ req'[o].presents \notin redeemed'
                 /\ \A q \in Requests \ {o} : At(q, "issue")' => req'[q].presents # req'[o].presents
      BY <2>1, <1>1, <1>2, <1>3 DEF TokenInv, HoldInv, At, Moved
    <2>2. ASSUME NEW o \in Requests, At(o, "rotate")'
          PROVE  Live(req[o].presents)' /\ ~ Locked(req[o].presents, o)' /\ req'[o] = req[o]
      <3>1. o # r /\ At(o, "rotate") /\ req'[o] = req[o]
        BY <1>2, <2>2 DEF At, Moved
      <3>2. req[o].presents \in Requests \ {r}
        BY <3>1, <1>1 DEF TokenInv, StepInv, At, Waiting
      <3>3. Live(req[o].presents) /\ ~ Locked(req[o].presents, o)
        BY <3>1 DEF TokenInv, HoldInv
      <3>4. QED
        BY <3>1, <3>2, <3>3, <1>l, <1>4
    <2>3. QED
      BY <2>1, <2>2 DEF HoldInv
  <1>9. NothingBuysTwice'
    BY <1>2, <1>4, <1>5 DEF TokenInv, NothingBuysTwice, Moved
  <1>10. OneLiveToken'
    BY <1>4, <1>5 DEF TokenInv, OneLiveToken, Live
  <1>11. QED
    BY <1>0, <1>6, <1>7, <1>8, <1>9, <1>10 DEF TokenInv

\* A rotation commits: the presented token is used, its successor is inserted.
LEMMA RotateStep == ASSUME TokenInv, NEW r \in Requests, Rotate(r) PROVE TokenInv'
  <1>p. PICK p \in Requests : p = req[r].presents
    BY DEF TokenInv, StepInv, Rotate, At, Waiting
  <1>0. TypeOK'
    BY TypeStep DEF TokenInv, Next, Step
  <1>1. /\ ReqOK /\ req[r].pc = "rotate" /\ req[r].presents = p /\ Live(p) /\ ~ Locked(p, r)
        /\ ~ Exists(r) /\ p # r
    BY <1>p DEF TokenInv, TypeOK, ReqOK, Rotate, At, StepInv, HoldInv, RowInv, Answering, Waiting, Live
  <1>2. \/ Moved(r, "done", p, "tokens")
        \/ Moved(r, "revoke", p, req[r].answer)
    BY <1>1, Moves DEF Rotate, Answers, Waiting
  <1>l. \A o \in Requests : \A t : Locked(t, o)' => Locked(t, o)
    BY <1>2, HeldShrinks DEF Moved
  <1>3. redeemed' = redeemed
    BY DEF Rotate
  <1>4. CASE refresh' = refresh
    <2>1. Quiet
      BY <1>1, <1>2, <1>3, <1>4 DEF Quiet, Moved, Answering
    <2>2. StepInv'
      BY <1>1, <1>2, <1>4 DEF TokenInv, StepInv, Moved, Exists, Waiting, Live
    <2>3. ASSUME NEW o \in Requests, At(o, "rotate")'
          PROVE  Live(req[o].presents)' /\ ~ Locked(req[o].presents, o)' /\ req'[o] = req[o]
      <3>1. o # r /\ At(o, "rotate") /\ req'[o] = req[o]
        BY <1>2, <2>3 DEF At, Moved
      <3>2. QED
        BY <3>1, <1>4, <1>l DEF TokenInv, HoldInv, Live, Exists
    <2>4. HoldInv'
      BY <2>3, <1>2, <1>3 DEF TokenInv, HoldInv, At, Moved
    <2>5. QED
      BY <1>0, <2>1, <2>2, <2>4, QuietRows DEF TokenInv
  <1>5. CASE refresh' = [refresh EXCEPT ![p].used = TRUE, ![r] = Successor(r, p)]
    <2>a. refresh[p] \in Row
      BY <1>1 DEF TokenInv, TypeOK, Live, Exists, NoRow
    <2>b. /\ refresh'[r] = NewRow(Family(p))
          /\ refresh'[p] = [refresh[p] EXCEPT !.used = TRUE]
          /\ \A t \in Requests \ {r, p} : refresh'[t] = refresh[t]
      BY <1>1, <1>5 DEF TokenInv, TypeOK, Successor
    <2>1. /\ refresh'[p].used /\ refresh'[p].family = refresh[p].family
          /\ refresh'[r].family = refresh[p].family /\ refresh[p].family # None
          /\ \A t \in Requests \ {r, p} : refresh'[t] = refresh[t]
      BY <1>1, <2>a, <2>b DEF Row, NewRow, Family, Live, Exists
    <2>2. /\ \A t \in Requests \ {r} :
               Exists(t)' = Exists(t) /\ Family(t)' = Family(t)
          /\ \A t \in Requests \ {r} : refresh[t].used => refresh'[t].used
          /\ \A t \in Requests \ {r, p} : Live(t)' = Live(t)
          /\ ~ Live(p)' /\ Exists(r)' /\ Family(r)' = Family(p) /\ refresh'[p].used
      BY <2>1, <1>1 DEF Exists, Live, Family
    <2>3. \A t \in Requests : Exists(t) => t # r /\ Family(t) # r /\ req[t].presents # p
                                           /\ req[t].presents # r
      BY <1>1, OAuthTokensAssumption DEF TokenInv, RowInv, Live
    <2>4. ASSUME NEW t \in Requests, Exists(t)
          PROVE  /\ req'[t] = req[t] /\ req'[Family(t)] = req[Family(t)]
                 /\ Family(t) \in Requests \ {r} /\ Exists(Family(t))
      BY <2>3, <2>4, <1>1, <1>2 DEF TokenInv, RowInv, Moved
    <2>5. RowInv'
      <3>1. ASSUME NEW t \in Requests \ {r}, Exists(t)
            PROVE  /\ req'[t].pc \in Answering
                   /\ req'[t].presents \in Codes \cup Requests
                   /\ req'[t].presents \in Codes => Family(t)' = t /\ req'[t].presents \in redeemed'
                   /\ req'[t].presents \in Requests =>
                        /\ Exists(req[t].presents)' /\ refresh'[req'[t].presents].used
                        /\ Family(t)' = Family(req[t].presents)'
                   /\ Family(t)' \in Requests /\ Exists(Family(t))'
                   /\ req'[Family(t)].presents \in Codes
        <4>1. /\ req'[t] = req[t] /\ req'[Family(t)] = req[Family(t)]
              /\ Family(t)' = Family(t) /\ Family(t) \in Requests \ {r}
              /\ Exists(Family(t))' /\ req[t].pc \in Answering
              /\ req[t].presents \in Codes \cup Requests
              /\ req[t].presents \in Codes => Family(t) = t /\ req[t].presents \in redeemed
              /\ req[Family(t)].presents \in Codes
          BY <3>1, <2>2, <2>4 DEF TokenInv, RowInv
        <4>2. ASSUME NEW q \in Requests, q = req[t].presents
              PROVE  /\ Exists(q)' /\ refresh'[q].used /\ Family(t) = Family(q)
                     /\ Family(q)' = Family(q)
          <5>1. Exists(q) /\ refresh[q].used /\ Family(t) = Family(q)
            BY <3>1, <4>2 DEF TokenInv, RowInv
          <5>2. q # r
            BY <5>1, <1>1
          <5>3. QED
            BY <5>1, <5>2, <2>2
        <4>3. QED
          BY <4>1, <4>2, <1>3 DEF Family, Exists
      <3>2. /\ req'[r].pc \in Answering /\ req'[r].presents = p
            /\ Exists(p)' /\ Family(r)' = Family(p)' /\ Family(p)' = Family(p)
            /\ Family(p) \in Requests /\ Exists(Family(p))' /\ req'[Family(p)].presents \in Codes
        BY <2>2, <2>4, <1>1, <1>2 DEF TokenInv, RowInv, Moved, Answering, Live
      <3>3. QED
        BY <3>1, <3>2, <2>2, <2>4, <1>1, OAuthTokensAssumption DEF RowInv, Exists, Family
    <2>6. StepInv'
      <3>1. ASSUME NEW o \in Requests \ {r}
            PROVE  /\ req'[o] = req[o]
                   /\ \A t \in Requests : Exists(t) => Exists(t)'
                   /\ req[o].snap \subseteq Requests
        BY <2>2, <1>1, <1>2 DEF Moved, ReqOK, Request
      <3>2. /\ req'[r].presents = p /\ req'[r].pc \in {"done", "revoke"} /\ Exists(p)'
            /\ req'[r].snap = req[r].snap /\ req[r].snap \subseteq Requests
            /\ \A t \in Requests : Exists(t) => Exists(t)'
        BY <2>2, <1>1, <1>2 DEF Moved, ReqOK, Request, Live
      <3>3. QED
        BY <3>1, <3>2 DEF TokenInv, StepInv, Exists, Waiting
    <2>7. HoldInv'
      <3>1. ASSUME NEW o \in Requests, At(o, "rotate")'
            PROVE  Live(req[o].presents)' /\ ~ Locked(req[o].presents, o)' /\ req'[o] = req[o]
        <4>1. o # r /\ At(o, "rotate") /\ req'[o] = req[o]
          BY <1>2, <3>1 DEF At, Moved
        <4>2. req[o].presents \in Requests /\ Exists(req[o].presents)
          BY <4>1 DEF TokenInv, StepInv, At, Waiting
        <4>3. req[o].presents \notin {r, p}
          BY <4>1, <4>2, <1>1, HeldIs DEF Locked
        <4>4. Live(req[o].presents) /\ ~ Locked(req[o].presents, o)
          BY <4>1 DEF TokenInv, HoldInv
        <4>5. QED
          BY <4>1, <4>2, <4>3, <4>4, <2>2, <1>l
      <3>2. QED
        BY <3>1, <1>2, <1>3 DEF TokenInv, HoldInv, At, Moved
    <2>8. NothingBuysTwice'
      BY <2>2, <2>3, <2>4, <1>2 DEF TokenInv, NothingBuysTwice, Moved
    <2>9. OneLiveToken'
      <3>1. ASSUME NEW t \in Requests \ {r, p}, Live(t)
            PROVE  Family(t) # Family(p)
        BY <3>1, <1>1 DEF TokenInv, OneLiveToken
      <3>2. QED
        BY <3>1, <2>2 DEF TokenInv, OneLiveToken, Live
    <2>10. QED
      BY <1>0, <2>5, <2>6, <2>7, <2>8, <2>9 DEF TokenInv
  <1>6. QED
    BY <1>1, <1>4, <1>5 DEF Rotate

\* A revocation commits: it revokes rows no rotation holds.
LEMMA CommitStep == ASSUME TokenInv, NEW r \in Requests, CommitRevocation(r) PROVE TokenInv'
  <1>0. TypeOK'
    BY TypeStep DEF TokenInv, Next, Step
  <1>1. /\ ReqOK /\ req[r].pc = "access"
        /\ \E a \in {"closed", "error"} : Moved(r, "done", req[r].presents, a)
    BY Moves DEF TokenInv, TypeOK, ReqOK, CommitRevocation, At, Answers
  <1>l. \A o \in Requests : \A t : Locked(t, o)' => Locked(t, o)
    BY <1>1, HeldShrinks DEF Moved
  <1>a. redeemed' = redeemed
        /\ \A t \in Requests \ req[r].snap : refresh'[t] = refresh[t]
    BY DEF CommitRevocation
  <1>b. \A t \in req[r].snap : t \in Requests /\ refresh[t] \in Row
    BY <1>1 DEF TokenInv, TypeOK, StepInv, ReqOK, Request, Exists, NoRow
  <1>c. \A t \in req[r].snap : refresh'[t] = [refresh[t] EXCEPT !.revoked = TRUE]
    BY <1>b DEF CommitRevocation
  <1>2. /\ redeemed' = redeemed
        /\ \A t \in Requests \ req[r].snap : refresh'[t] = refresh[t]
        /\ \A t \in req[r].snap : refresh'[t].revoked /\ refresh'[t].used = refresh[t].used
                                  /\ refresh'[t].family = refresh[t].family
    BY <1>a, <1>b, <1>c DEF Row
  <1>3. \A t \in Requests : /\ Exists(t)' = Exists(t) /\ Family(t)' = Family(t)
                            /\ refresh'[t].used = refresh[t].used
                            /\ (Live(t)' => Live(t))
                            /\ (t \notin req[r].snap => Live(t)' = Live(t))
    BY <1>2 DEF Exists, Family, Live
  <1>4. \A t \in Requests : req'[t].presents = req[t].presents
                            /\ (req[t].pc \in Answering => req'[t].pc \in Answering)
    BY <1>1 DEF Moved, Answering
  <1>5. RowInv'
    BY <1>2, <1>3, <1>4 DEF TokenInv, RowInv
  <1>6. StepInv'
    BY <1>1, <1>3, <1>4 DEF TokenInv, StepInv, Moved, Waiting, ReqOK, Request
  <1>7. HoldInv'
    <2>1. ASSUME NEW o \in Requests, At(o, "rotate")'
          PROVE  Live(req[o].presents)' /\ ~ Locked(req[o].presents, o)' /\ req'[o] = req[o]
      <3>1. o # r /\ At(o, "rotate") /\ req'[o] = req[o]
        BY <1>1, <2>1 DEF At, Moved
      <3>2. req[o].presents \in Requests
        BY <3>1 DEF TokenInv, StepInv, At, Waiting
      <3>3. Live(req[o].presents) /\ ~ Locked(req[o].presents, o)
        BY <3>1 DEF TokenInv, HoldInv
      <3>4. req[o].presents \notin req[r].snap
        BY <3>1, <3>3, <1>1, HeldIs DEF Locked, At
      <3>5. QED
        BY <3>1, <3>2, <3>3, <3>4, <1>l, <1>3
    <2>2. QED
      BY <2>1, <1>1, <1>2 DEF TokenInv, HoldInv, At, Moved
  <1>8. NothingBuysTwice'
    BY <1>3, <1>4 DEF TokenInv, NothingBuysTwice
  <1>9. OneLiveToken'
    BY <1>3 DEF TokenInv, OneLiveToken
  <1>10. QED
    BY <1>0, <1>5, <1>6, <1>7, <1>8, <1>9 DEF TokenInv

LEMMA TokenStep == TokenInv /\ [Next]_vars => TokenInv'
  <1> SUFFICES ASSUME TokenInv, [Next]_vars
               PROVE  TokenInv'
    OBVIOUS
  <1>1. ASSUME NEW x \in Presentable, Expire(x)
        PROVE  TokenInv'
    <2>1. TypeOK'
      BY <1>1, TypeStep DEF TokenInv
    <2>2. refresh' = refresh /\ redeemed' = redeemed /\ req' = req
      BY <1>1 DEF Expire, rowVars
    <2>3. QED
      BY <2>1, <2>2 DEF TokenInv, RowInv, StepInv, HoldInv, NothingBuysTwice, OneLiveToken,
                        Exists, Live, Family, Locked, TokensHeld, At
  <1>2. ASSUME NEW s \in {"good", "suspended", "removed"}, ChangeStanding(s)
        PROVE  TokenInv'
    <2>1. TypeOK'
      BY <1>2, TypeStep DEF TokenInv
    <2>2. refresh' = refresh /\ redeemed' = redeemed /\ req' = req
      BY <1>2 DEF ChangeStanding, rowVars
    <2>3. QED
      BY <2>1, <2>2 DEF TokenInv, RowInv, StepInv, HoldInv, NothingBuysTwice, OneLiveToken,
                        Exists, Live, Family, Locked, TokensHeld, At
  <1>3. CASE UNCHANGED vars
    <2>1. TypeOK'
      BY <1>3, TypeStep DEF TokenInv
    <2>2. refresh' = refresh /\ redeemed' = redeemed /\ req' = req
      BY <1>3 DEF vars, rowVars
    <2>3. QED
      BY <2>1, <2>2 DEF TokenInv, RowInv, StepInv, HoldInv, NothingBuysTwice, OneLiveToken,
                        Exists, Live, Family, Locked, TokensHeld, At
  <1>4. QED
    BY <1>1, <1>2, <1>3, BeginStep, MoveStep, IssueStep, RotateStep, CommitStep
       DEF Next, Step, Presentable

LEMMA TokenInit == Init => TokenInv
  <1> SUFFICES ASSUME Init PROVE TokenInv
    OBVIOUS
  <1>1. \A r \in Requests : ~ Exists(r) /\ req[r].pc = "idle" /\ req[r].snap = {}
    BY DEF Init, Exists, NoRow, Idle
  <1>2. TypeOK
    BY DEF Init, TypeOK, NoRow, Idle, Request, Answers
  <1>3. QED
    BY <1>1, <1>2 DEF TokenInv, RowInv, StepInv, HoldInv, NothingBuysTwice, OneLiveToken,
                      Live, At, Waiting

LEMMA TokenInvariant == Spec => []TokenInv
  BY TokenInit, TokenStep, PTL DEF Spec

-----------------------------------------------------------------------------
(* What a revocation covers *)

\* What a running revocation has seen.
SnapOK(r) ==
  /\ req[r].pc \in {"lock", "access"} =>
       /\ \A t \in req[r].snap : Family(t) = Family(req[r].presents)
       /\ req[r].presents \in req[r].snap \/ refresh[req[r].presents].revoked
  /\ req[r].pc = "access" => req[r].snap \subseteq req[r].accessSnap \cup dead

\* What the answer of a request tells about the token it presented.
AnswerOK(r) ==
  /\ req[r].pc # "done" => req[r].answer = "none"
  /\ req[r].answer = "closed" =>
       /\ req[r].presents \in Requests /\ Exists(req[r].presents)
       /\ \A t \in req[r].snap \cup {req[r].presents} : refresh[t].revoked /\ t \in dead
  /\ req[r].answer = "refused" /\ req[r].presents \in Requests =>
       refresh[req[r].presents].revoked \/ req[r].presents \in expired

SnapInv == \A r \in Requests : SnapOK(r) /\ AnswerOK(r)

\* A revoked refresh token's access token is revoked.
PairInv == \A t \in Requests : refresh[t].revoked => t \in dead

CoverInv == TokenInv /\ SnapInv /\ PairInv

\* The steps that change the record of request r.
StepOf(r) ==
  \/ \E x \in Presentable : Deny(r, x)
  \/ \E c \in Codes : ReadCode(r, c)
  \/ \E t \in Requests : ReadToken(r, t) \/ RevokeAccess(r, t) \/ RevokeRefresh(r, t)
  \/ Step(r) \/ Dies(r)

\* Nothing that was revoked, seen or expired is taken back.
LEMMA Frame ==
  ASSUME TokenInv, NEW r \in Requests, StepOf(r)
  PROVE  /\ \A o \in Requests \ {r} : req'[o] = req[o]
         /\ \A t \in Requests : Exists(t) =>
              Exists(t)' /\ Family(t)' = Family(t) /\ req'[t].presents = req[t].presents
         /\ \A t \in Requests : refresh[t].revoked => refresh'[t].revoked
         /\ dead \subseteq dead' /\ expired' = expired
  <1>a. ReqOK
    BY DEF TokenInv, TypeOK, ReqOK
  <1>b. \A t \in Requests : Exists(t) => req[t].pc \in Answering
    BY DEF TokenInv, RowInv
  <1>1. CASE \/ \E x \in Presentable : Deny(r, x)
             \/ \E c \in Codes : ReadCode(r, c)
             \/ \E t \in Requests : ReadToken(r, t) \/ RevokeAccess(r, t) \/ RevokeRefresh(r, t)
    <2>1. /\ req[r].pc = "idle" /\ refresh' = refresh /\ dead \subseteq dead'
          /\ expired' = expired /\ \A o \in Requests \ {r} : req'[o] = req[o]
      BY <1>1, <1>a DEF Deny, ReadCode, ReadToken, RevokeAccess, RevokeRefresh, Begin, Refuse,
                        At, rowVars, envVars, ReqOK
    <2>2. QED
      BY <2>1, <1>b DEF Exists, Family, Answering
  <1>2. CASE \/ ClaimCode(r) \/ CheckMember(r) \/ Claim(r) \/ SeeFamily(r) \/ SeeAccess(r)
             \/ Abort(r) \/ Dies(r)
             \/ \E t \in Requests : LockToken(r, t) \/ LockAccess(r, t)
    <2>1. /\ refresh' = refresh /\ dead' = dead /\ expired' = expired
          /\ \A o \in Requests \ {r} : req'[o] = req[o]
          /\ req'[r].presents = req[r].presents
      BY <1>2, <1>a DEF ClaimCode, CheckMember, Claim, SeeFamily, SeeAccess, LockToken,
                        LockAccess, Abort, Dies, Go, Answer, Get, rowVars, envVars, ReqOK, Request
    <2>2. QED
      BY <2>1 DEF Exists, Family
  <1>3. CASE Issue(r) \/ Rotate(r)
    <2>1. ~ Exists(r) /\ req[r].pc \in {"issue", "rotate"}
      BY <1>3, <1>b DEF Issue, Rotate, At, Answering
    <2>2. /\ \A o \in Requests \ {r} : req'[o] = req[o]
          /\ dead' = dead /\ expired' = expired
      BY <1>3, <1>a DEF Issue, Rotate, Go, Answer, envVars, ReqOK
    <2>3. ~ refresh[r].revoked
      BY <2>1, OAuthTokensAssumption DEF TokenInv, TypeOK, Exists, Row, NoRow
    <2>4. ASSUME NEW t \in Requests \ {r}
          PROVE  refresh'[t].family = refresh[t].family /\ (refresh[t].revoked => refresh'[t].revoked)
      <3>1. CASE refresh'[t] = refresh[t]
        BY <3>1
      <3>2. CASE refresh'[t] = [refresh[t] EXCEPT !.used = TRUE]
        BY <3>2 DEF TokenInv, TypeOK, Row, NoRow
      <3>3. QED
        BY <1>3, <3>1, <3>2 DEF Issue, Rotate, TokenInv, TypeOK
    <2>5. QED
      BY <2>1, <2>2, <2>3, <2>4 DEF Exists, Family
  <1>4. CASE CommitRevocation(r)
    <2>1. /\ \A o \in Requests \ {r} : req'[o] = req[o]
          /\ req'[r].presents = req[r].presents
          /\ dead \subseteq dead' /\ expired' = expired
      BY <1>4, <1>a DEF CommitRevocation, Answer, envVars, ReqOK, Request
    <2>2. ASSUME NEW t \in Requests
          PROVE  refresh'[t].family = refresh[t].family /\ (refresh[t].revoked => refresh'[t].revoked)
      <3>1. refresh[t] \in Row \cup {NoRow}
        BY DEF TokenInv, TypeOK
      <3>2. QED
        BY <1>4, <3>1 DEF CommitRevocation, Row, NoRow
    <2>3. QED
      BY <2>1, <2>2 DEF Exists, Family
  <1>5. QED
    BY <1>1, <1>2, <1>3, <1>4 DEF StepOf, Step

\* A step of one request leaves what is known of the others.
LEMMA CoverOthers ==
  ASSUME CoverInv, NEW r \in Requests, StepOf(r), NEW o \in Requests \ {r}
  PROVE  SnapOK(o)' /\ AnswerOK(o)'
  <1> DEFINE p == req[o].presents
  <1>1. req'[o] = req[o] /\ SnapOK(o) /\ AnswerOK(o) /\ TokenInv
    BY Frame DEF CoverInv, SnapInv
  <1>2. /\ \A t \in Requests : Exists(t) => Exists(t)' /\ Family(t)' = Family(t)
        /\ \A t \in Requests : refresh[t].revoked => refresh'[t].revoked
        /\ dead \subseteq dead' /\ expired' = expired
    BY <1>1, Frame
  <1>3. /\ req[o].pc \in {"lock", "access"} => p \in Requests /\ Exists(p)
        /\ \A t \in req[o].snap : t \in Requests /\ Exists(t)
    BY <1>1 DEF TokenInv, StepInv, TypeOK, Request, Waiting
  <1>4. SnapOK(o)'
    BY <1>1, <1>2, <1>3 DEF SnapOK, Family
  <1>5. AnswerOK(o)'
    BY <1>1, <1>2, <1>3 DEF AnswerOK, Exists
  <1>6. QED
    BY <1>4, <1>5

\* The step of a request that does not commit a revocation.
LEMMA CoverStep ==
  ASSUME CoverInv, NEW r \in Requests, StepOf(r), ~ CommitRevocation(r)
  PROVE  SnapOK(r)' /\ AnswerOK(r)' /\ PairInv'
  <1>a. /\ ReqOK /\ req[r] \in Request /\ SnapOK(r) /\ AnswerOK(r) /\ TokenInv /\ PairInv
        /\ req[r].snap \subseteq Requests
    BY DEF CoverInv, TokenInv, TypeOK, ReqOK, SnapInv, Request
  <1>f. /\ \A t \in Requests : Exists(t) => Exists(t)' /\ Family(t)' = Family(t)
        /\ \A t \in Requests : refresh[t].revoked => refresh'[t].revoked
        /\ dead \subseteq dead' /\ expired' = expired
    BY <1>a, Frame
  <1>p. PairInv'
    <2>1. ASSUME NEW t \in Requests, refresh'[t].revoked
          PROVE  refresh[t].revoked
      <3>1. CASE Issue(r) \/ Rotate(r)
        <4>1. refresh[t] \in Row \cup {NoRow}
          BY <1>a DEF TokenInv, TypeOK
        <4>2. \/ refresh'[t] = refresh[t] \/ refresh'[t] = [refresh[t] EXCEPT !.used = TRUE]
              \/ refresh'[t] = NewRow(r) \/ refresh'[t] = NewRow(Family(req[r].presents))
          BY <3>1, <1>a DEF Issue, Rotate, Successor, TokenInv, TypeOK
        <4>3. QED
          BY <2>1, <4>1, <4>2 DEF NewRow, Row, NoRow
      <3>2. CASE ~ (Issue(r) \/ Rotate(r))
        <4>1. refresh' = refresh
          BY <3>2 DEF StepOf, Step, Deny, ReadCode, ReadToken, RevokeAccess, RevokeRefresh,
                      ClaimCode, CheckMember, Claim, SeeFamily, SeeAccess, LockToken, LockAccess,
                      Abort, Dies, rowVars
        <4>2. QED
          BY <2>1, <4>1
      <3>3. QED
        BY <3>1, <3>2
    <2>2. QED
      BY <2>1, <1>a, <1>f DEF PairInv
  <1>d. CASE \E x \in Presentable : Deny(r, x)
    BY <1>d, <1>a, <1>p, Moves DEF Deny, Presentable, SnapOK, AnswerOK, At, Answers, Moved
  <1>1. CASE \E c \in Codes : ReadCode(r, c)
    BY <1>1, <1>a, <1>f, <1>p, Moves, OAuthTokensAssumption
       DEF ReadCode, SnapOK, AnswerOK, At, Waiting, Answers, Moved
  <1>2. CASE \E t \in Requests : ReadToken(r, t)
    <2>1. PICK t \in Requests : ReadToken(r, t)
      BY <1>2
    <2>2. \/ Moved(r, "revoke", t, req[r].answer) \/ Moved(r, "member", t, req[r].answer)
          \/ Moved(r, "done", t, "refused") /\ (refresh[t].revoked \/ t \in expired)
      BY <2>1, <1>a, Moves DEF ReadToken, Waiting, Answers
    <2>3. req[r].pc = "idle"
      BY <2>1 DEF ReadToken, At
    <2>4. QED
      BY <2>2, <2>3, <1>a, <1>f, <1>p DEF SnapOK, AnswerOK, Moved
  <1>3. CASE \E t \in Requests : RevokeAccess(r, t)
    <2>1. req[r].pc = "idle" /\ req'[r].pc = "done" /\ req'[r].answer = "revoked"
      BY <1>3, <1>a DEF RevokeAccess, At, ReqOK, Request
    <2>2. QED
      BY <2>1, <1>p DEF SnapOK, AnswerOK
  <1>4. CASE \E t \in Requests : RevokeRefresh(r, t)
    <2>1. PICK t \in Requests : RevokeRefresh(r, t)
      BY <1>4
    <2>2. Moved(r, "revoke", t, req[r].answer) /\ req[r].pc = "idle"
      BY <2>1, <1>a, Moves DEF RevokeRefresh, Waiting, At
    <2>3. QED
      BY <2>2, <1>a, <1>p DEF SnapOK, AnswerOK, Moved
  <1>5. CASE ClaimCode(r) \/ Issue(r)
    <2>1. req[r].presents \in Codes /\ req[r].pc \in {"redeem", "issue"}
      BY <1>5, <1>a DEF ClaimCode, Issue, At, TokenInv, StepInv
    <2>2. \/ Moved(r, "issue", req[r].presents, req[r].answer)
          \/ Moved(r, "done", req[r].presents, "refused")
          \/ Moved(r, "done", req[r].presents, "tokens")
          \/ Moved(r, "done", req[r].presents, "error")
      BY <1>5, <1>a, Moves DEF ClaimCode, Issue, Waiting, Answers
    <2>3. QED
      BY <2>1, <2>2, <1>a, <1>p, OAuthTokensAssumption DEF SnapOK, AnswerOK, Moved
  <1>6. CASE CheckMember(r) \/ Claim(r) \/ Rotate(r) \/ Abort(r) \/ Dies(r)
    <2>1. req[r].pc \in Waiting
      BY <1>6, CircleRevokes DEF CheckMember, Claim, Rotate, Abort, Dies, At, Waiting
    <2>2. \/ \E step \in {"claim", "rotate", "revoke"} :
               Moved(r, step, req[r].presents, req[r].answer)
          \/ \E a \in {"tokens", "error"} : Moved(r, "done", req[r].presents, a)
      BY <1>6, <1>a, Moves DEF CheckMember, Claim, Rotate, Abort, Dies, Waiting, Answers
    <2>3. QED
      BY <2>1, <2>2, <1>a, <1>p DEF SnapOK, AnswerOK, Moved, Waiting
  <1>7. CASE SeeFamily(r)
    <2>1. /\ req[r].pc = "revoke" /\ refresh' = refresh
          /\ req'[r].pc = "lock" /\ req'[r].presents = req[r].presents
          /\ req'[r].answer = req[r].answer
          /\ req'[r].snap = SeenTokens(Family(req[r].presents))
      BY <1>7, <1>a DEF SeeFamily, At, ReqOK, Request, rowVars
    <2>2. req[r].presents \in Requests /\ Exists(req[r].presents)
      BY <2>1, <1>a DEF TokenInv, StepInv, Waiting
    <2>3. QED
      BY <2>1, <2>2, <1>a, <1>p DEF SnapOK, AnswerOK, SeenTokens, Family, Exists
  <1>8. CASE \E t \in Requests : LockToken(r, t) \/ LockAccess(r, t)
    <2>1. /\ req[r].pc \in {"lock", "access"} /\ refresh' = refresh /\ dead' = dead
          /\ req'[r].pc = req[r].pc /\ req'[r].presents = req[r].presents
          /\ req'[r].answer = req[r].answer /\ req'[r].snap = req[r].snap
          /\ req'[r].accessSnap = req[r].accessSnap
      BY <1>8, <1>a DEF LockToken, LockAccess, Get, At, ReqOK, Request, rowVars
    <2>2. QED
      BY <2>1, <1>a, <1>p DEF SnapOK, AnswerOK, Family
  <1>9. CASE SeeAccess(r)
    <2>1. /\ req[r].pc = "lock" /\ refresh' = refresh /\ dead' = dead
          /\ req'[r].pc = "access" /\ req'[r].presents = req[r].presents
          /\ req'[r].answer = req[r].answer /\ req'[r].snap = req[r].snap
          /\ req'[r].accessSnap = SeenAccess(Family(req[r].presents))
      BY <1>9, <1>a DEF SeeAccess, At, ReqOK, Request, rowVars
    <2>2. \A t \in req[r].snap : t \in Requests /\ Exists(t) /\ Family(t) = Family(req[r].presents)
      BY <2>1, <1>a DEF SnapOK, TokenInv, StepInv
    <2>3. QED
      BY <2>1, <2>2, <1>a, <1>p DEF SnapOK, AnswerOK, SeenAccess, Family
  <1>10. QED
    BY <1>d, <1>1, <1>2, <1>3, <1>4, <1>5, <1>6, <1>7, <1>8, <1>9 DEF StepOf, Step

\* The commit of a revocation covers what it has seen.
LEMMA CoverCommit ==
  ASSUME CoverInv, NEW r \in Requests, CommitRevocation(r)
  PROVE  SnapOK(r)' /\ AnswerOK(r)' /\ PairInv'
  <1>1. /\ ReqOK /\ req[r] \in Request /\ SnapOK(r) /\ TokenInv /\ PairInv
        /\ req[r].snap \subseteq Requests /\ req[r].pc = "access"
        /\ req[r].presents \in Requests /\ Exists(req[r].presents)
    BY DEF CoverInv, TokenInv, TypeOK, ReqOK, SnapInv, StepInv, Request, Waiting,
           CommitRevocation, At
  <1>2. \E a \in {"closed", "error"} : Moved(r, "done", req[r].presents, a)
    BY <1>1, Moves DEF CommitRevocation, Answers
  <1>3. \A t \in Requests : Exists(t) => Exists(t)'
    BY <1>1, Frame DEF StepOf, Step
  <1>4. dead' = dead \cup req[r].accessSnap /\ req[r].snap \subseteq dead'
    BY <1>1 DEF CommitRevocation, SnapOK
  <1>5. ASSUME NEW t \in Requests
        PROVE  /\ t \in req[r].snap \/ refresh[t].revoked => refresh'[t].revoked
               /\ refresh'[t].revoked => t \in req[r].snap \/ refresh[t].revoked
    <2>1. refresh[t] \in Row \cup {NoRow}
      BY <1>1 DEF TokenInv, TypeOK
    <2>2. CASE t \in req[r].snap
      <3>1. refresh'[t] = [refresh[t] EXCEPT !.revoked = TRUE]
        BY <2>2 DEF CommitRevocation
      <3>2. QED
        BY <2>1, <2>2, <3>1 DEF Row, NoRow
    <2>3. CASE t \notin req[r].snap
      <3>1. refresh'[t] = refresh[t]
        BY <2>3 DEF CommitRevocation
      <3>2. QED
        BY <2>3, <3>1
    <2>4. QED
      BY <2>2, <2>3
  <1>6. PairInv'
    BY <1>1, <1>4, <1>5 DEF PairInv
  <1>7. \A t \in req[r].snap \cup {req[r].presents} : refresh'[t].revoked /\ t \in dead'
    BY <1>1, <1>4, <1>5 DEF SnapOK, PairInv
  <1>8. QED
    BY <1>1, <1>2, <1>3, <1>6, <1>7 DEF SnapOK, AnswerOK, Moved

LEMMA CoverInvariant == Spec => []CoverInv
  <1>1. Init => CoverInv
    <2> SUFFICES ASSUME Init PROVE CoverInv
      OBVIOUS
    <2>1. \A r \in Requests : req[r].pc = "idle" /\ req[r].answer = "none" /\ ~ refresh[r].revoked
      BY DEF Init, NoRow, Idle
    <2>2. QED
      BY <2>1, TokenInit DEF CoverInv, SnapInv, PairInv, SnapOK, AnswerOK
  <1>2. CoverInv /\ [Next]_vars => CoverInv'
    <2> SUFFICES ASSUME CoverInv, [Next]_vars PROVE CoverInv'
      OBVIOUS
    <2>1. TokenInv'
      BY TokenStep DEF CoverInv
    <2>2. ASSUME NEW r \in Requests, StepOf(r)
          PROVE  CoverInv'
      BY <2>1, <2>2, CoverOthers, CoverStep, CoverCommit DEF CoverInv, SnapInv
    <2>3. CASE refresh' = refresh /\ req' = req /\ dead' = dead /\ expired \subseteq expired'
      BY <2>1, <2>3 DEF CoverInv, SnapInv, PairInv, SnapOK, AnswerOK, Exists, Family
    <2>4. QED
      BY <2>2, <2>3 DEF Next, StepOf, Expire, ChangeStanding, vars, rowVars, envVars
  <1>3. QED
    BY <1>1, <1>2, PTL DEF Spec

-----------------------------------------------------------------------------
(* The chain of tokens *)

\* A code has at most one working token, and only once it is redeemed.
LEMMA CurrentIs ==
  ASSUME TokenInv, NEW c \in Codes
  PROVE  /\ c \notin redeemed => Current(c) = "unredeemed" /\ Working(c) = {}
         /\ \A t \in Working(c) : c \in redeemed /\ Current(c) = t /\ t \in Requests
         /\ c \in redeemed /\ Working(c) = {} => Current(c) = "dead"
  <1>1. \A t \in Working(c) : /\ t \in Requests /\ Live(t) /\ Exists(t)
                              /\ Family(t) \in Requests /\ Exists(Family(t))
                              /\ req[Family(t)].presents = c
    BY DEF Working, CodeOf, Live, TokenInv, RowInv
  <1>2. \A t \in Working(c) : c \in redeemed
    BY <1>1 DEF TokenInv, RowInv
  <1>3. \A t, u \in Working(c) : t = u
    BY <1>1 DEF TokenInv, NothingBuysTwice, OneLiveToken
  <1>4. \A t \in Working(c) : Current(c) = t
    BY <1>2, <1>3 DEF Current, TheOne
  <1>5. QED
    BY <1>1, <1>2, <1>4 DEF Current

\* Of the one working token of a redeemed code, after a step.
LEMMA SoleCurrent ==
  ASSUME NEW c \in Codes, NEW t, Working(c)' = {t}, c \in redeemed'
  PROVE  Current(c)' = t
  <1>1. TheOne({t}) = t
    BY DEF TheOne
  <1>2. QED
    BY <1>1 DEF Current

\* The code of an inserted token never changes.
LEMMA CodeStays ==
  ASSUME TokenInv, NEW r \in Requests, StepOf(r), NEW t \in Requests, Exists(t)
  PROVE  CodeOf(t)' = CodeOf(t)
  <1>1. Family(t)' = Family(t) /\ Family(t) \in Requests /\ Exists(Family(t))
    BY Frame DEF TokenInv, RowInv
  <1>2. req'[Family(t)].presents = req[Family(t)].presents
    BY <1>1, Frame
  <1>3. QED
    BY <1>1, <1>2 DEF CodeOf

\* When only the working token of c changes, so does only its current token.
LEMMA OthersStay ==
  ASSUME NEW c \in Codes,
         \A d \in Codes \ {c} : Working(d)' = Working(d)
                                /\ (d \in redeemed' <=> d \in redeemed)
  PROVE  \A d \in Codes \ {c} : Current(d)' = Current(d)
  BY DEF Current

LEMMA ChainStep == CoverInv /\ CoverInv' /\ [Next]_vars => [Chain!Next]_(Chain!chainVars)
  <1> SUFFICES ASSUME CoverInv, CoverInv', [Next]_vars
               PROVE  [Chain!Next]_(Chain!chainVars)
    OBVIOUS
  <1>i. TokenInv /\ TokenInv'
    BY DEF CoverInv
  <1>s. ASSUME \A c \in Codes : Current(c)' = Current(c),
               \A t \in Requests : Exists(t)' = Exists(t)
        PROVE  UNCHANGED Chain!chainVars
    BY <1>s DEF Chain!chainVars
  <1>0. CASE refresh' = refresh /\ redeemed' = redeemed /\ req' = req
    BY <1>0, <1>s DEF Current, Working, CodeOf, Live, Exists, Family
  <1>1. ASSUME NEW r \in Requests, StepOf(r), refresh' = refresh, redeemed' = redeemed
        PROVE  UNCHANGED Chain!chainVars
    <2>1. \A t \in Requests : Exists(t)' = Exists(t) /\ Live(t)' = Live(t)
      BY <1>1 DEF Exists, Live
    <2>2. \A t \in Requests : Live(t) => CodeOf(t)' = CodeOf(t)
      BY <1>1, <1>i, CodeStays DEF Live
    <2>3. \A c \in Codes : Working(c)' = Working(c)
      BY <2>1, <2>2 DEF Working
    <2>4. QED
      BY <1>1, <1>s, <2>1, <2>3 DEF Current
  <1>2. ASSUME NEW r \in Requests, Issue(r)
        PROVE  Chain!Next
    <2>1. PICK c \in Codes : c = req[r].presents /\ c \notin redeemed
      BY <1>2, <1>i DEF Issue, At, TokenInv, StepInv, HoldInv
    <2>2. StepOf(r) /\ ~ Exists(r)
      BY <1>2, <1>i DEF StepOf, Step, TokenInv, RowInv, Issue, At, Answering
    <2>3. /\ redeemed' = redeemed \cup {c} /\ Exists(r)' /\ Live(r)' /\ Family(r)' = r
          /\ \A t \in Requests \ {r} : refresh'[t] = refresh[t]
          /\ req'[r].presents = c
      BY <1>2, <2>1, <1>i, OAuthTokensAssumption
         DEF Issue, Answer, TokenInv, TypeOK, NewRow, Exists, Live, Family, Request
    <2>4. \A t \in Requests \ {r} : /\ Live(t)' = Live(t) /\ Exists(t)' = Exists(t)
                                    /\ (Live(t) => CodeOf(t)' = CodeOf(t))
      BY <2>2, <2>3, <1>i, CodeStays DEF Live, Exists
    <2>5. CodeOf(r)' = c
      BY <2>3 DEF CodeOf
    <2>6. \A d \in Codes \ {c} : Working(d)' = Working(d) /\ (d \in redeemed' <=> d \in redeemed)
      BY <2>2, <2>3, <2>4, <2>5 DEF Working, Live
    <2>7. \A d \in Codes \ {c} : Current(d)' = Current(d)
      BY <2>6, OthersStay
    <2>8. Current(c) = "unredeemed" /\ Current(c)' = r
      <3>1. Current(c) = "unredeemed" /\ Working(c) = {}
        BY <2>1, <1>i, CurrentIs
      <3>2. Working(c)' = {r}
        BY <3>1, <2>3, <2>4, <2>5 DEF Working
      <3>3. QED
        BY <3>1, <3>2, <2>3, SoleCurrent
    <2>9. Chain!Redeem(c, r)
      BY <2>2, <2>3, <2>4, <2>7, <2>8 DEF Chain!Redeem
    <2>10. QED
      BY <2>9 DEF Chain!Next
  <1>3. ASSUME NEW r \in Requests, Rotate(r), refresh' # refresh
        PROVE  Chain!Next
    <2>1. PICK p \in Requests : p = req[r].presents /\ Live(p)
      BY <1>3, <1>i DEF Rotate, At, TokenInv, StepInv, HoldInv, Waiting
    <2>2. StepOf(r) /\ ~ Exists(r) /\ p # r
      BY <1>3, <1>i, <2>1 DEF StepOf, Step, TokenInv, RowInv, Rotate, At, Answering, Live
    <2>3. /\ redeemed' = redeemed
          /\ refresh' = [refresh EXCEPT ![p].used = TRUE, ![r] = Successor(r, p)]
      BY <1>3, <2>1 DEF Rotate
    <2>4. /\ refresh'[r] = NewRow(Family(p)) /\ refresh'[p].used
          /\ \A t \in Requests \ {r, p} : refresh'[t] = refresh[t]
      <3>1. refresh[p] \in Row
        BY <2>1, <1>i DEF TokenInv, TypeOK, Live, Exists, NoRow
      <3>2. refresh'[p] = [refresh[p] EXCEPT !.used = TRUE]
        BY <2>2, <2>3, <1>i DEF TokenInv, TypeOK
      <3>3. QED
        BY <2>2, <2>3, <3>1, <3>2, <1>i DEF TokenInv, TypeOK, Successor, Row
    <2>5. /\ ~ Live(p)' /\ Exists(r)' /\ Live(r)' /\ Family(r)' = Family(p)
          /\ \A t \in Requests \ {r, p} : Live(t)' = Live(t) /\ Exists(t)' = Exists(t)
          /\ Exists(p) /\ Exists(p)'
      <3>1. Exists(p) /\ Exists(p)'
        BY <2>1, <2>2, <1>i, Frame DEF Live
      <3>2. QED
        BY <2>1, <2>4, <3>1 DEF Live, Exists, Family, NewRow
    <2>6. PICK c \in Codes : c = CodeOf(p)
      BY <2>5, <1>i DEF CodeOf, TokenInv, RowInv
    <2>7. \A t \in Requests \ {r} : Live(t) => CodeOf(t)' = CodeOf(t)
      BY <2>2, <1>i, CodeStays DEF Live
    <2>8. CodeOf(r)' = c
      <3>1. Family(p)' = Family(p) /\ CodeOf(p)' = CodeOf(p)
        BY <2>2, <2>5, <1>i, Frame, CodeStays
      <3>2. QED
        BY <3>1, <2>5, <2>6 DEF CodeOf
    <2>9. \A d \in Codes \ {c} : Working(d)' = Working(d) /\ (d \in redeemed' <=> d \in redeemed)
      <3>1. ASSUME NEW d \in Codes \ {c}, NEW t \in Requests
            PROVE  t \in Working(d)' <=> t \in Working(d)
        <4>1. CASE t = r
          BY <4>1, <2>2, <2>8 DEF Working, Live
        <4>2. CASE t = p
          BY <4>2, <2>5, <2>6 DEF Working
        <4>3. CASE t \notin {r, p}
          BY <4>3, <2>5, <2>7 DEF Working
        <4>4. QED
          BY <4>1, <4>2, <4>3
      <3>2. QED
        BY <3>1, <2>3 DEF Working
    <2>10. \A d \in Codes \ {c} : Current(d)' = Current(d)
      BY <2>9, OthersStay
    <2>11. Current(c) = p /\ Current(c)' = r
      <3>1. p \in Working(c) /\ r \in Working(c)'
        BY <2>1, <2>5, <2>6, <2>8 DEF Working
      <3>2. Current(c) = p /\ c \in redeemed /\ \A u \in Working(c) : u = p
        BY <3>1, <1>i, CurrentIs
      <3>3. Working(c)' = {r}
        BY <3>1, <3>2, <2>5, <2>7 DEF Working
      <3>4. QED
        BY <3>2, <3>3, <2>3, SoleCurrent
    <2>12. Chain!Rotate(c, r)
      <3>1. {t \in Requests : Exists(t)}' = {t \in Requests : Exists(t)} \cup {r}
        BY <2>5
      <3>2. [d \in Codes |-> Current(d)]' = [[d \in Codes |-> Current(d)] EXCEPT ![c] = r]
        BY <2>10, <2>11
      <3>3. QED
        BY <3>1, <3>2, <2>1, <2>2, <2>11 DEF Chain!Rotate
    <2>13. QED
      BY <2>12 DEF Chain!Next
  <1>4. ASSUME NEW r \in Requests, CommitRevocation(r)
        PROVE  Chain!Next \/ UNCHANGED Chain!chainVars
    <2>1. /\ req[r].presents \in Requests /\ Exists(req[r].presents) /\ req[r].snap \subseteq Requests
          /\ \A t \in req[r].snap : Family(t) = Family(req[r].presents) /\ Exists(t)
          /\ StepOf(r)
      BY <1>4, <1>i DEF CommitRevocation, At, CoverInv, SnapInv, SnapOK, TokenInv, TypeOK, StepInv,
                        Request, Waiting, StepOf, Step
    <2>2. PICK c \in Codes : c = CodeOf(req[r].presents)
      BY <2>1, <1>i DEF CodeOf, TokenInv, RowInv
    <2>3. redeemed' = redeemed /\ \A t \in Requests \ req[r].snap : refresh'[t] = refresh[t]
      BY <1>4 DEF CommitRevocation
    <2>4. \A t \in req[r].snap : refresh'[t].revoked /\ CodeOf(t) = c
      <3>1. ASSUME NEW t \in req[r].snap
            PROVE  refresh'[t].revoked
        <4>1. refresh[t] \in Row
          BY <2>1, <1>i DEF TokenInv, TypeOK, Exists, NoRow
        <4>2. refresh'[t] = [refresh[t] EXCEPT !.revoked = TRUE]
          BY <1>4, <2>1 DEF CommitRevocation
        <4>3. QED
          BY <4>1, <4>2 DEF Row
      <3>2. QED
        BY <3>1, <2>1, <2>2 DEF CodeOf
    <2>5. \A t \in Requests : /\ Exists(t)' = Exists(t)
                              /\ (Live(t) => CodeOf(t)' = CodeOf(t))
      <3>1. ASSUME NEW t \in Requests PROVE refresh'[t].family = refresh[t].family
        <4>1. refresh[t] \in Row \cup {NoRow}
          BY <1>i DEF TokenInv, TypeOK
        <4>2. QED
          BY <4>1, <1>4 DEF CommitRevocation, Row, NoRow
      <3>2. QED
        BY <3>1, <2>1, <1>i, CodeStays DEF Exists, Live
    <2>6. /\ \A t \in Requests \ req[r].snap : Live(t)' = Live(t)
          /\ \A t \in req[r].snap : ~ Live(t)'
      BY <2>3, <2>4 DEF Live, Exists
    <2>7. \A d \in Codes \ {c} : Working(d)' = Working(d) /\ (d \in redeemed' <=> d \in redeemed)
      BY <2>3, <2>4, <2>5, <2>6 DEF Working
    <2>8. \A d \in Codes \ {c} : Current(d)' = Current(d)
      BY <2>7, OthersStay
    <2>9. CASE Working(c) \cap req[r].snap = {}
      <3>1. Working(c)' = Working(c)
        BY <2>5, <2>6, <2>9, <2>1 DEF Working
      <3>2. Current(c)' = Current(c)
        BY <3>1, <2>3 DEF Current
      <3>3. QED
        BY <3>2, <2>5, <2>8, <1>s
    <2>10. CASE Working(c) \cap req[r].snap # {}
      <3>1. PICK t \in Working(c) : t \in req[r].snap
        BY <2>10
      <3>2. c \in redeemed /\ Current(c) = t /\ t \in Requests /\ \A u \in Working(c) : u = t
        BY <3>1, <1>i, CurrentIs
      <3>3. Working(c)' = {}
        BY <3>1, <3>2, <2>5, <2>6, <2>1 DEF Working
      <3>4. Current(c)' = "dead"
        BY <3>2, <3>3, <2>3 DEF Current
      <3>5. Chain!Close(c)
        BY <3>2, <3>4, <2>5, <2>8 DEF Chain!Close
      <3>6. QED
        BY <3>5 DEF Chain!Next
    <2>11. QED
      BY <2>9, <2>10
  <1>5. ASSUME NEW r \in Requests, StepOf(r)
        PROVE  [Chain!Next]_(Chain!chainVars)
    <2>1. CASE refresh' = refresh /\ redeemed' = redeemed
      BY <2>1, <1>1, <1>5
    <2>2. CASE ~ (refresh' = refresh /\ redeemed' = redeemed)
      <3>1. Issue(r) \/ Rotate(r) \/ CommitRevocation(r)
        BY <1>5, <2>2 DEF StepOf, Step, Deny, ReadCode, ReadToken, RevokeAccess, RevokeRefresh,
               ClaimCode, CheckMember, Claim, SeeFamily, SeeAccess, LockToken, LockAccess, Abort,
               Dies, rowVars
      <3>2. Rotate(r) => refresh' # refresh
        BY <2>2 DEF Rotate
      <3>3. QED
        BY <3>1, <3>2, <1>2, <1>3, <1>4
    <2>3. QED
      BY <2>1, <2>2
  <1>6. QED
    BY <1>0, <1>5, <1>s DEF Next, StepOf, Expire, ChangeStanding, vars, rowVars, envVars

-----------------------------------------------------------------------------
(* The results *)

\* Every variable keeps its type.
THEOREM TypeCorrect == Spec => []TypeOK
  BY TokenInvariant, PTL DEF TokenInv

\* No code and no refresh token ever buys two pairs of tokens.
THEOREM BuysOnce == Spec => []NothingBuysTwice
  BY TokenInvariant, PTL DEF TokenInv

\* A family never has two refresh tokens that work.
THEOREM OneLive == Spec => []OneLiveToken
  BY TokenInvariant, PTL DEF TokenInv

\* A revocation ends every refresh token it saw, and their access tokens.
THEOREM RevocationCovers == Spec => []RevocationCoversSeen
  <1>1. CoverInv => RevocationCoversSeen
    BY DEF CoverInv, SnapInv, AnswerOK, RevocationCoversSeen
  <1>2. QED
    BY <1>1, CoverInvariant, PTL

\* A rotated token that another request presented is revoked once both are
\* answered, unless that request failed or was denied before the token was
\* looked at: revokeRefreshFamily for a token with usedAt, and the catch of a
\* rotation that came too late.
THEOREM ReplayDetected == Spec => []ReplayIsDetected
  <1>1. CoverInv => ReplayIsDetected
    BY DEF CoverInv, SnapInv, AnswerOK, ReplayIsDetected
  <1>2. QED
    BY <1>1, CoverInvariant, PTL

\* The token endpoint implements the chain of tokens: whatever requests,
\* revocations and failures interleave, a consent has one chain with at most
\* one working token, and a chain that ended stays ended.
THEOREM ImplementsChain == Spec => ChainSpec
  <1>1. Init => Chain!Init
    <2> SUFFICES ASSUME Init PROVE Chain!Init
      OBVIOUS
    <2>1. redeemed = {} /\ \A r \in Requests : ~ Exists(r)
      BY DEF Init, NoRow, Exists
    <2>2. \A c \in Codes : Current(c) = "unredeemed"
      BY <2>1 DEF Current
    <2>3. QED
      BY <2>1, <2>2 DEF Chain!Init
  <1>2. QED
    BY <1>1, ChainStep, CoverInvariant, PTL DEF Spec, ChainSpec, Chain!Spec

\* A consent whose refresh tokens have all ended never gets another that works.
THEOREM EndedStays == Spec => EndedStaysEnded
  <1>1. CoverInv /\ CoverInv' /\ [Next]_vars =>
          [\A c \in redeemed : Working(c) = {} => c \in redeemed' /\ Working(c)' = {}]_vars
    <2> SUFFICES ASSUME CoverInv, CoverInv', [Next]_vars, NEW c \in redeemed, Working(c) = {}
                 PROVE  c \in redeemed' /\ Working(c)' = {}
      OBVIOUS
    <2>1. c \in Codes /\ Current(c) = "dead"
      BY CurrentIs DEF CoverInv, TokenInv, TypeOK, Current
    <2>2. [Chain!Next]_(Chain!chainVars)
      BY ChainStep
    <2>3. Current(c)' = "dead"
      BY <2>1, <2>2, OAuthTokensAssumption
         DEF Chain!Next, Chain!chainVars, Chain!Redeem, Chain!Rotate, Chain!Close
    <2>4. c \in redeemed'
      BY <2>3 DEF Current
    <2>5. Working(c)' = {}
      <3>1. TokenInv'
        BY DEF CoverInv
      <3>2. SUFFICES ASSUME Working(c)' # {}
                     PROVE  FALSE
        OBVIOUS
      <3>3. PICK t : t \in Working(c)'
        BY <3>2
      <3>4. t \in Requests
        BY <3>3 DEF Working
      <3>5. \A u \in Working(c)' : u = t
        <4>1. \A u \in Working(c)' : /\ u \in Requests /\ Live(u)' /\ Exists(u)'
                                     /\ Family(u)' \in Requests /\ Exists(Family(u))'
                                     /\ req'[Family(u)'].presents = c
          BY <3>1 DEF Working, CodeOf, Live, TokenInv, RowInv
        <4>2. QED
          BY <3>1, <3>3, <4>1 DEF TokenInv, NothingBuysTwice, OneLiveToken
      <3>6. Current(c)' = t
        BY <2>1, <2>4, <3>3, <3>5, SoleCurrent
      <3>7. QED
        BY <2>3, <3>4, <3>6, OAuthTokensAssumption
    <2>6. QED
      BY <2>4, <2>5
  <1>2. QED
    BY <1>1, CoverInvariant, PTL DEF Spec, EndedStaysEnded

-----------------------------------------------------------------------------
(* OAuthServer: the tokens of a consent *)

\* A code is the answer to an approval, for the user who asked.
AllowInv ==
  \A v \in Visits : codes[v] # NoCode =>
    /\ visit[v].pc = "done" /\ visit[v].answer = "ok" /\ visit[v].kind = "allow"
    /\ codes[v].user = visit[v].user

ServerInv == ConsentInv /\ AllowInv /\ OnlyIssued

LEMMA AllowStep ==
  ASSUME ConsentInv, AllowInv, [ConsentNext]_consentVars
  PROVE  /\ AllowInv'
         /\ \A v \in Visits : codes[v] # NoCode => codes'[v] # NoCode
  <1>1. ConsentTypeOK /\ StartInv /\ Does
    BY NextDoes DEF ConsentInv
  <1>2. ASSUME NEW r \in Visits, Loads(r)
        PROVE  AllowInv' /\ codes' = codes
    BY <1>2 DEF Loads, AllowInv
  <1>3. ASSUME NEW r \in Visits, OneMoves(r), Went(r), visit[r].pc \in {"select", "check", "store"}
        PROVE  AllowInv' /\ \A v \in Visits : codes[v] # NoCode => codes'[v] # NoCode
    <2>1. codes[r] = NoCode
      BY <1>3 DEF AllowInv
    <2>2. \A v \in Visits \ {r} : codes'[v] = codes[v] /\ visit'[v] = visit[v]
      BY <1>1, <1>3, WentMoves DEF OneMoves
    <2>3. codes'[r] # NoCode => /\ visit'[r].pc = "done" /\ visit'[r].answer = "ok"
                                /\ visit'[r].kind = "allow"
                                /\ codes'[r].user = visit'[r].user
      BY <1>1, <1>3, <2>1, WentMoves DEF OneMoves, Decides
    <2>4. QED
      BY <2>1, <2>2, <2>3 DEF AllowInv
  <1>4. CASE Turns
    BY <1>4 DEF Turns, BeginAuthorization, TransactionExpires, AllowInv
  <1>5. QED
    BY <1>1, <1>2, <1>3, <1>4 DEF Does

\* The server is its two parts, and what it adds is kept by both.
LEMMA ServerStep ==
  ServerInv /\ [ServerNext]_<<consentVars, vars>> =>
    /\ ServerInv' \/ ~ ConsentInv'
    /\ [ConsentNext]_consentVars /\ [Next]_vars
  <1> SUFFICES ASSUME ServerInv, ConsentInv', [ServerNext]_<<consentVars, vars>>
               PROVE  AllowInv' /\ OnlyIssued' /\ [ConsentNext]_consentVars /\ [Next]_vars
    BY DEF ServerInv, ServerNext
  <1>1. [ConsentNext]_consentVars /\ [Next]_vars
    BY DEF ServerNext
  <1>2. AllowInv' /\ \A v \in Visits : codes[v] # NoCode => codes'[v] # NoCode
    BY <1>1, AllowStep DEF ServerInv
  <1>3. OnlyIssued'
    <2>1. CASE UNCHANGED vars
      BY <1>2, <2>1 DEF ServerInv, OnlyIssued, Issued, vars
    <2>2. QED
      BY <2>1 DEF ServerNext
  <1>4. QED
    BY <1>1, <1>2, <1>3

\* The server behaves as its two parts do: what was shown of the consent and
\* of the token endpoint alone holds when they run together.
LEMMA ServerIsParts == ServerSpec => ConsentSpec /\ Spec
  <1>1. ServerInit => ConsentInit /\ Init
    BY DEF ServerInit
  <1>2. [ServerNext]_<<consentVars, vars>> => [ConsentNext]_consentVars /\ [Next]_vars
    BY DEF ServerNext
  <1>3. QED
    BY <1>1, <1>2, PTL DEF ServerSpec, ConsentSpec, Spec

\* A code that is presented was issued, and an issued one was allowed.
THEOREM ServerInvariant == ServerSpec => []ServerInv
  <1>1. ServerInit => AllowInv /\ OnlyIssued
    BY OAuthTokensAssumption
       DEF ServerInit, ConsentInit, Init, AllowInv, OnlyIssued, Idle
  <1>2. ServerSpec => []ConsentInv
    BY ServerIsParts, ConsentInvariant, PTL
  <1>3. ConsentInv /\ AllowInv /\ OnlyIssued => ServerInv
    BY DEF ServerInv
  <1>4. QED
    BY <1>1, <1>2, <1>3, ServerStep, PTL DEF ServerSpec

\* Where a token comes from, in the states of the server.
LEMMA TokenOrigin ==
  ASSUME ServerInv, TokenInv, NEW t \in Requests, Exists(t)
  PROVE  /\ CodeOf(t) \in Visits /\ CodeOf(t) \in Codes /\ codes[CodeOf(t)] # NoCode
         /\ visit[CodeOf(t)].kind = "allow" /\ visit[CodeOf(t)].answer = "ok"
         /\ codes[CodeOf(t)].user = visit[CodeOf(t)].user
  <1>1. Family(t) \in Requests /\ req[Family(t)].presents \in Codes
    BY DEF TokenInv, RowInv
  <1>2. CodeOf(t) \in Issued
    BY <1>1 DEF ServerInv, OnlyIssued, CodeOf
  <1>3. QED
    BY <1>1, <1>2 DEF ServerInv, AllowInv, Issued, CodeOf

\* A consent has one working refresh token at most.
THEOREM OneTokenForConsent == ServerSpec => []OneTokenPerConsent
  <1>1. ServerInv /\ TokenInv => OneTokenPerConsent
    <2> SUFFICES ASSUME ServerInv, TokenInv, NEW t1 \in Requests, NEW t2 \in Requests,
                        Live(t1), Live(t2)
                 PROVE  t1 = t2
      BY DEF OneTokenPerConsent
    <2>1. Decided(CodeOf(t1)) /\ Decided(CodeOf(t2)) /\ CodeOf(t1) \in Visits
          /\ CodeOf(t2) \in Visits /\ CodeOf(t1) \in Codes
      BY TokenOrigin DEF Decided, Live
    <2>2. CodeOf(t1) = CodeOf(t2)
      BY <2>1 DEF ServerInv, ConsentInv, DecisionInv, OneDecision
    <2>3. t1 \in Working(CodeOf(t1)) /\ t2 \in Working(CodeOf(t1))
      BY <2>2 DEF Working
    <2>4. QED
      BY <2>1, <2>3, CurrentIs
  <1>2. QED
    BY <1>1, ServerInvariant, ServerIsParts, TokenInvariant, PTL

\* Every refresh token goes back to an approval by a member.
THEOREM TokensAllowed == ServerSpec => []TokensAreAllowed
  <1>1. ServerInv /\ TokenInv => TokensAreAllowed
    BY TokenOrigin
       DEF TokensAreAllowed, ServerInv, ConsentInv, OwnerInv, CheckedInv, CodeIsForMember
  <1>2. QED
    BY <1>1, ServerInvariant, ServerIsParts, TokenInvariant, PTL
=============================================================================
