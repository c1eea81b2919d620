----------------------------- MODULE OAuthTokens -----------------------------
(***************************************************************************)
(* The token endpoint and the revocation endpoint of the OAuth server      *)
(* (apps/api/src/mcp/oauth-authorization.service.ts): an authorization     *)
(* code is exchanged for an access token and the first refresh token of a  *)
(* family, a refresh token is rotated, and a replayed one, a failing       *)
(* rotation or a revocation revokes the family.                            *)
(*                                                                         *)
(* The database is PostgreSQL at READ COMMITTED: a statement sees what was *)
(* committed when it began, waits for rows other transactions have updated *)
(* and then looks at those rows again, and a transaction's own rows are    *)
(* seen by others when it commits.  An UPDATE meets its rows in any order  *)
(* and keeps those it has got while it waits for the others; when          *)
(* transactions wait for each other in a circle one of them is aborted.    *)
(*                                                                         *)
(* A request inserts at most one refresh token and, in the same            *)
(* transaction, one access token: both are named by the request, and a     *)
(* family by the request that redeemed its code.  What is presented is the *)
(* row of that code or token; strings that name no row have no effect.     *)
(***************************************************************************)
EXTENDS FiniteSets

CONSTANTS
  Codes,     \* authorization codes that were issued
  Requests,  \* HTTP requests, the retries of a client included
  Faulty,    \* whether statements fail and processes die
  None       \* null

ASSUME OAuthTokensAssumption ==
  /\ Faulty \in BOOLEAN
  /\ Codes \cap Requests = {}
  /\ None \notin Codes \cup Requests
  /\ {"unredeemed", "dead"} \cap Requests = {}

VARIABLES
  redeemed,  \* codes with usedAt
  expired,   \* codes and refresh tokens whose expiresAt has passed
  standing,  \* the user's account, client and workspace, and the membership
  refresh,   \* refresh[r]: the refresh token request r inserted
  dead,      \* access tokens with revokedAt
  req        \* req[r]: the next step of request r and what it has read

rowVars == <<redeemed, refresh, dead>>
envVars == <<expired, standing>>
vars == <<rowVars, envVars, req>>

Answers == {"none", "tokens", "denied", "refused", "closed", "revoked", "error"}
Waiting == {"redeem", "issue", "member", "claim", "rotate", "revoke", "lock", "access"}
Request == [pc : Waiting \cup {"idle", "done"}, presents : Codes \cup Requests \cup {None},
            snap : SUBSET Requests, accessSnap : SUBSET Requests,
            got : SUBSET Requests,  \* the rows the running UPDATE has got
            answer : Answers]
Idle    == [pc |-> "idle", presents |-> None, snap |-> {}, accessSnap |-> {}, got |-> {},
            answer |-> "none"]

Row      == [family : Requests, used : BOOLEAN, revoked : BOOLEAN]
NoRow    == [family |-> None, used |-> FALSE, revoked |-> FALSE]
NewRow(f) == [family |-> f, used |-> FALSE, revoked |-> FALSE]

TypeOK ==
  /\ redeemed \subseteq Codes
  /\ expired \subseteq Codes \cup Requests
  /\ standing \in {"good", "suspended", "removed"}
  /\ refresh \in [Requests -> Row \cup {NoRow}]
  /\ dead \subseteq Requests
  /\ req \in [Requests -> Request]

Exists(t) == refresh[t].family # None
Live(t)   == Exists(t) /\ ~ refresh[t].used /\ ~ refresh[t].revoked
Family(t) == refresh[t].family

\* The rows that a request can name.
Presentable == Codes \cup {t \in Requests : Exists(t)}

Init ==
  /\ redeemed = {}
  /\ expired = {}
  /\ standing = "good"
  /\ refresh = [r \in Requests |-> NoRow]
  /\ dead = {}
  /\ req = [r \in Requests |-> Idle]

At(r, step)       == req[r].pc = step
Go(r, step)       == req' = [req EXCEPT ![r].pc = step]
Answer(r, answer) == req' = [req EXCEPT ![r].pc = "done", ![r].answer = answer]
Begin(r, x, step) == req' = [req EXCEPT ![r].pc = step, ![r].presents = x]
Refuse(r, x, why) == req' = [req EXCEPT ![r].pc = "done", ![r].presents = x,
                                        ![r].answer = why]

-----------------------------------------------------------------------------
(* Both grants *)

\* A request is denied before anything is asked of the code or token: its
\* client is another one than the row's, is suspended or revoked, or its
\* metadata cannot be fetched; the resource, redirect URI or verifier does
\* not fit; the write scope is switched off.
Deny(r, x) ==
  /\ At(r, "idle")
  /\ Refuse(r, x, "denied")
  /\ UNCHANGED <<rowVars, envVars>>

-----------------------------------------------------------------------------
(* exchangeAuthorizationCode *)

ReadCode(r, c) ==
  /\ At(r, "idle")
  /\ IF c \in redeemed \cup expired THEN Refuse(r, c, "refused") ELSE Begin(r, c, "redeem")
  /\ UNCHANGED <<rowVars, envVars>>

\* The UPDATE of the code waits for a transaction that has updated it.
ClaimCode(r) ==
  LET c == req[r].presents IN
  /\ At(r, "redeem")
  /\ \A o \in Requests : At(o, "issue") => req[o].presents # c
  /\ IF c \in redeemed \cup expired THEN Answer(r, "refused") ELSE Go(r, "issue")
  /\ UNCHANGED <<rowVars, envVars>>

\* Both tokens are inserted under a new family, and the transaction commits; a
\* commit that was carried out may be reported as failed.
Issue(r) ==
  /\ At(r, "issue")
  /\ redeemed' = redeemed \cup {req[r].presents}
  /\ refresh' = [refresh EXCEPT ![r] = NewRow(r)]
  /\ (Answer(r, "tokens") \/ (Faulty /\ Answer(r, "error")))
  /\ UNCHANGED <<dead, envVars>>

-----------------------------------------------------------------------------
(* exchangeRefreshToken *)

\* Mutant: the UPDATE looks at usedAt only.
Usable_EvenRevoked(t) == ~ refresh[t].used /\ t \notin expired

\* Mutant: the UPDATE is by the token's id alone.
Usable_Always(t) == Exists(t)

\* The WHERE clause of the rotation's UPDATE.
Usable(t) == Live(t) /\ t \notin expired

\* Mutant: a token that was used before is refused like a revoked one.
ReadToken_ReplayRefused(r, t) ==
  /\ At(r, "idle") /\ Exists(t)
  /\ \/ ~ Usable(t) /\ Refuse(r, t, "refused")
     \/ Live(t) /\ t \notin expired /\ standing = "suspended" /\ Begin(r, t, "revoke")
     \/ Live(t) /\ t \notin expired /\ standing # "suspended" /\ Begin(r, t, "member")
  /\ UNCHANGED <<rowVars, envVars>>

\* A used token is a replay; a revoked or expired one is only refused; a
\* user or workspace that is suspended, or a client that was suspended after it
\* had been found, ends the family.
ReadToken(r, t) ==
  /\ At(r, "idle") /\ Exists(t)
  /\ \/ refresh[t].used /\ Begin(r, t, "revoke")
     \/ ~ refresh[t].used /\ (refresh[t].revoked \/ t \in expired) /\ Refuse(r, t, "refused")
     \/ Live(t) /\ t \notin expired /\ standing = "suspended" /\ Begin(r, t, "revoke")
     \/ Live(t) /\ t \notin expired /\ standing # "suspended" /\ Begin(r, t, "member")
  /\ UNCHANGED <<rowVars, envVars>>

\* requireWorkspaceMembership; an error of the query counts as a refusal.
CheckMember(r) ==
  /\ At(r, "member")
  /\ \/ standing # "removed" /\ Go(r, "claim")
     \/ (Faulty \/ standing = "removed") /\ Go(r, "revoke")
  /\ UNCHANGED <<rowVars, envVars>>

\* The refresh token and access token rows a transaction has updated.
TokensHeld(o) ==
  CASE At(o, "rotate") -> {req[o].presents}
    [] At(o, "lock")   -> req[o].got
    [] At(o, "access") -> req[o].snap
    [] OTHER           -> {}

AccessHeld(o) == IF At(o, "access") THEN req[o].got ELSE {}

\* A transaction other than r's has updated refresh token t.
Locked(t, r) == \E o \in Requests \ {r} : t \in TokensHeld(o)

Claim(r) ==
  LET t == req[r].presents IN
  /\ At(r, "claim") /\ ~ Locked(t, r)
  /\ \/ Usable(t) /\ Go(r, "rotate")
     \/ (Faulty \/ ~ Usable(t)) /\ Go(r, "revoke")
  /\ UNCHANGED <<rowVars, envVars>>

Successor(r, t) == NewRow(Family(t))

\* The commit of a rotation may fail, also after it was carried out; either
\* way the catch block revokes the family.
Rotate(r) ==
  LET t == req[r].presents IN
  /\ At(r, "rotate")
  /\ \/ /\ refresh' = [refresh EXCEPT ![t].used = TRUE, ![r] = Successor(r, t)]
        /\ (Answer(r, "tokens") \/ (Faulty /\ Go(r, "revoke")))
     \/ Faulty /\ Go(r, "revoke") /\ UNCHANGED refresh
  /\ UNCHANGED <<redeemed, dead, envVars>>

-----------------------------------------------------------------------------
(* revokeRefreshFamily: two UPDATEs in one transaction *)

\* The rows of the first UPDATE: the tokens of the family committed so far.
SeenTokens(f) ==
  {t \in Requests : Exists(t) /\ Family(t) = f /\ ~ refresh[t].revoked}

\* Mutant: access tokens are left to expire.
SeenAccess_None(f) == {}

SeenAccess(f) == {t \in Requests : Exists(t) /\ Family(t) = f /\ t \notin dead}

SeeFamily(r) ==
  /\ At(r, "revoke")
  /\ req' = [req EXCEPT ![r].pc = "lock", ![r].snap = SeenTokens(Family(req[r].presents)),
                        ![r].got = {}]
  /\ UNCHANGED <<rowVars, envVars>>

Get(r, t) == req' = [req EXCEPT ![r].got = @ \cup {t}]

LockToken(r, t) ==
  /\ At(r, "lock") /\ t \in req[r].snap \ req[r].got /\ ~ Locked(t, r)
  /\ Get(r, t)
  /\ UNCHANGED <<rowVars, envVars>>

\* The first UPDATE is done, the second begins.
SeeAccess(r) ==
  /\ At(r, "lock") /\ req[r].got = req[r].snap
  /\ req' = [req EXCEPT ![r].pc = "access", ![r].got = {},
                        ![r].accessSnap = SeenAccess(Family(req[r].presents))]
  /\ UNCHANGED <<rowVars, envVars>>

AccessLocked(t, r) == \E o \in Requests \ {r} : t \in AccessHeld(o)

LockAccess(r, t) ==
  /\ At(r, "access") /\ t \in req[r].accessSnap \ req[r].got /\ ~ AccessLocked(t, r)
  /\ Get(r, t)
  /\ UNCHANGED <<rowVars, envVars>>

CommitRevocation(r) ==
  /\ At(r, "access") /\ req[r].got = req[r].accessSnap
  /\ refresh' = [t \in Requests |->
       IF t \in req[r].snap THEN [refresh[t] EXCEPT !.revoked = TRUE] ELSE refresh[t]]
  /\ dead' = dead \cup req[r].accessSnap
  /\ (Answer(r, "closed") \/ (Faulty /\ Answer(r, "error")))
  /\ UNCHANGED <<redeemed, envVars>>

\* The UPDATE of r has met, or may meet next, a row that o has updated.
WaitsFor(r, o) ==
  \/ At(r, "lock") /\ (req[r].snap \ req[r].got) \cap TokensHeld(o) # {}
  \/ At(r, "access") /\ (req[r].accessSnap \ req[r].got) \cap AccessHeld(o) # {}

\* r waits in a circle.
Deadlocked(r) ==
  \E S \in SUBSET Requests :
    /\ r \in S /\ S # {r}
    /\ \A T \in (SUBSET S) \ {{}, S} : \E o \in T, p \in S \ T : WaitsFor(o, p)

\* PostgreSQL aborts one of those in a circle, and its request fails.
Abort(r) ==
  /\ Deadlocked(r)
  /\ Answer(r, "error")
  /\ UNCHANGED <<rowVars, envVars>>

-----------------------------------------------------------------------------
(* revoke: an access token alone, or the family of a refresh token *)

RevokeAccess(r, t) ==
  /\ At(r, "idle") /\ Exists(t) /\ ~ AccessLocked(t, r)
  /\ dead' = dead \cup {t}
  /\ req' = [req EXCEPT ![r].pc = "done", ![r].answer = "revoked"]
  /\ UNCHANGED <<redeemed, refresh, envVars>>

RevokeRefresh(r, t) ==
  /\ At(r, "idle") /\ Exists(t)
  /\ Begin(r, t, "revoke")
  /\ UNCHANGED <<rowVars, envVars>>

-----------------------------------------------------------------------------
(* The surroundings *)

\* The process dies or a statement without a catch fails: PostgreSQL rolls
\* the transaction back.
Dies(r) ==
  /\ Faulty /\ req[r].pc \in Waiting
  /\ Answer(r, "error")
  /\ UNCHANGED <<rowVars, envVars>>

Expire(x) ==
  /\ x \notin expired
  /\ expired' = expired \cup {x}
  /\ UNCHANGED <<rowVars, standing, req>>

\* The user, the client or the workspace is suspended or restored, the
\* membership is removed or given again.
ChangeStanding(s) ==
  /\ s # standing
  /\ standing' = s
  /\ UNCHANGED <<rowVars, expired, req>>

-----------------------------------------------------------------------------
Step(r) ==
  \/ ClaimCode(r) \/ Issue(r) \/ CheckMember(r) \/ Claim(r) \/ Rotate(r)
  \/ SeeFamily(r) \/ SeeAccess(r) \/ CommitRevocation(r) \/ Abort(r)
  \/ \E t \in Requests : LockToken(r, t) \/ LockAccess(r, t)

Next ==
  \/ \E r \in Requests, x \in Presentable : Deny(r, x)
  \/ \E r \in Requests, c \in Codes : ReadCode(r, c)
  \/ \E r \in Requests, t \in Requests :
       ReadToken(r, t) \/ RevokeAccess(r, t) \/ RevokeRefresh(r, t)
  \/ \E r \in Requests : Step(r) \/ Dies(r)
  \/ \E x \in Presentable : Expire(x)
  \/ \E s \in {"good", "suspended", "removed"} : ChangeStanding(s)

Spec == Init /\ [][Next]_vars
-----------------------------------------------------------------------------
(* Properties *)

\* One-time codes and rotation: no code and no refresh token ever buys two
\* pairs of tokens, however many requests present it at the same time.
NothingBuysTwice ==
  \A r1, r2 \in Requests :
    Exists(r1) /\ Exists(r2) /\ r1 # r2 => req[r1].presents # req[r2].presents

\* A family never has two refresh tokens that work.
OneLiveToken ==
  \A t1, t2 \in Requests :
    Live(t1) /\ Live(t2) /\ t1 # t2 => Family(t1) # Family(t2)

\* Replay detection: when a token was rotated and another request presented
\* it too, that token is revoked once both are answered, in whatever order
\* they ran (a client that lost the first answer and asks again included).
\* Requests that failed, or that were denied before the token was asked
\* whether it is used, detect nothing.
ReplayIsDetected ==
  \A r1, r2 \in Requests :
    /\ r1 # r2 /\ req[r1].presents = req[r2].presents
    /\ req[r1].answer = "tokens" /\ req[r2].answer \in {"refused", "closed"}
    /\ req[r1].presents \in Requests \ expired
    => refresh[req[r1].presents].revoked

\* The security review says that a replay revokes the family: whatever a
\* replay is answered, short of an error, the token is revoked.
ReplayNeverEscapes ==
  \A r1, r2 \in Requests :
    /\ r1 # r2 /\ req[r1].presents = req[r2].presents
    /\ req[r1].answer = "tokens" /\ req[r2].answer \in {"denied", "refused", "closed"}
    /\ req[r1].presents \in Requests \ expired
    => refresh[req[r1].presents].revoked

\* A revocation that was carried out ends every refresh token it saw, and the
\* access tokens issued with them.
RevocationCoversSeen ==
  \A r \in Requests :
    req[r].answer = "closed" =>
      \A t \in req[r].snap \cup {req[r].presents} : refresh[t].revoked /\ t \in dead

\* The tests and the security review say that a replay revokes the family:
\* once a revocation was carried out no refresh token of the family works.
FamilyDies ==
  \A r, t \in Requests :
    req[r].answer = "closed" /\ Live(t) => Family(t) # Family(req[r].presents)

-----------------------------------------------------------------------------
(* The abstract chain of tokens this implements *)

CodeOf(t) == req[Family(t)].presents

Working(c) == {t \in Requests : Live(t) /\ CodeOf(t) = c}

TheOne(S) == CHOOSE t \in S : TRUE

Current(c) ==
  IF c \notin redeemed THEN "unredeemed"
  ELSE IF Working(c) = {} THEN "dead" ELSE TheOne(Working(c))

Chain == INSTANCE TokenChain WITH
  Tokens <- Requests, Unredeemed <- "unredeemed", Dead <- "dead",
  current <- [c \in Codes |-> Current(c)],
  issued <- {r \in Requests : Exists(r)}

ChainSpec == Chain!Spec

\* What a client may rely on: a consent whose tokens have all ended (used up,
\* replayed or revoked) never has a refresh token that works again.
EndedStaysEnded ==
  [][\A c \in redeemed : Working(c) = {} => c \in redeemed' /\ Working(c)' = {}]_vars
=============================================================================
