------------------------------- MODULE Sessions -------------------------------
(***************************************************************************)
(* The account of one email address and its browser sessions               *)
(* (apps/api/src/auth): signup, login with a password or through Google,   *)
(* reset links, password changes, logouts, and an administrator who        *)
(* disables the account and enables it again.                              *)
(*                                                                         *)
(* Requests are handlers; each statement is a step, except that the        *)
(* transaction of resetPassword is one: what it does is seen when it       *)
(* commits, and of its statements only the last one reads.  Whoever gets a *)
(* session or a reset link is named by the request that made it.  A stored *)
(* hash is the password it verifies.                                       *)
(***************************************************************************)
EXTENDS FiniteSets

CONSTANTS
  Requests,
  Passwords,
  States,     \* Google login states that were started
  Faulty,     \* whether statements fail and processes die
  None        \* null

ASSUME SessionsAssumption ==
  /\ Faulty \in BOOLEAN
  /\ Passwords # {} /\ None \notin Passwords \cup Requests \cup States

VARIABLES
  account,   \* the user row: absent, active or disabled
  makers,    \* requests whose transaction created it with a workspace
  hash,      \* the password its hash verifies
  old,       \* whether the hash needs to be computed again
  session,   \* session[r]: the session that request r created
  link,      \* link[r]: the reset link that request r created
  spent,     \* Google login states with consumedAt
  expired,   \* links and states whose time is over
  req        \* req[r]: the state of request r

rowVars == <<account, makers, hash, old, session, link, spent>>
vars    == <<rowVars, expired, req>>

Kinds   == {"signup", "login", "google", "forgot", "reset", "change", "logout", "logoutAll",
            "disable", "enable"}
Steps   == {"idle", "create", "rehash", "session", "consume", "profile", "find", "link",
            "apply", "store", "revoke", "end", "status", "done"}
Request == [pc : Steps, kind : Kinds \cup {"none"},
            password : Passwords \cup {None},          \* the one it was sent, or the new one
            about : Requests \cup States \cup {None},  \* its session, link or state
            seen : SUBSET Requests,                    \* sessions that lived when it began
            answer : {"none", "ok", "refused", "error", "lost"}]  \* lost: ok, not delivered
Idle    == [pc |-> "idle", kind |-> "none", password |-> None, about |-> None, seen |-> {},
            answer |-> "none"]

TypeOK ==
  /\ account \in {"absent", "active", "disabled"}
  /\ makers \in SUBSET Requests
  /\ hash \in Passwords \cup {None} /\ old \in BOOLEAN
  /\ session \in [Requests -> {"none", "live", "ended"}]
  /\ link \in [Requests -> {"none", "open", "used"}]
  /\ spent \in SUBSET States
  /\ expired \in SUBSET (Requests \cup States)
  /\ req \in [Requests -> Request]

\* There is no account, or one with a hash of the previous system.
Init ==
  /\ \/ account = "absent" /\ hash = None /\ old = FALSE
     \/ account = "active" /\ hash \in Passwords /\ old = TRUE
  /\ makers = {}
  /\ session = [r \in Requests |-> "none"]
  /\ link = [r \in Requests |-> "none"]
  /\ spent = {} /\ expired = {}
  /\ req = [r \in Requests |-> Idle]
-----------------------------------------------------------------------------
At(r, step)       == req[r].pc = step
Go(r, step)       == req' = [req EXCEPT ![r].pc = step]
Answer(r, answer) == req' = [req EXCEPT ![r].pc = "done", ![r].answer = answer]

Live == {s \in Requests : session[s] = "live"}

Begin(r, kind, step, password, about) ==
  /\ At(r, "idle")
  /\ req' = [req EXCEPT ![r] = [pc |-> step, kind |-> kind, password |-> password,
                                about |-> about, seen |-> Live, answer |-> "none"]]
  /\ UNCHANGED <<rowVars, expired>>

\* The guard of authenticated routes.
SignedIn(s) == session[s] = "live" /\ account = "active"

\* sessions.create
CreateSession(r) ==
  /\ At(r, "session")
  /\ session' = [session EXCEPT ![r] = "live"]
  /\ Answer(r, "ok")
  /\ UNCHANGED <<account, makers, hash, old, link, spent, expired>>

\* Mutant: the session of the request is kept, as exceptSessionId allows.
Revocable_Others(r) == Live \ {req[r].about}

\* The sessions that revokeAll ends.
Revocable(r) == Live

Ended(S) == [s \in Requests |-> IF s \in S THEN "ended" ELSE session[s]]

\* Mutant: a changed password gets its session before the others are ended.
RevokeAll_Last(r) ==
  /\ At(r, "revoke")
  /\ IF req[r].kind = "change" /\ session[r] = "none"
       THEN session' = [session EXCEPT ![r] = "live"] /\ UNCHANGED req
       ELSE session' = Ended(Live \ {r}) /\ Answer(r, "ok")
  /\ UNCHANGED <<account, makers, hash, old, link, spent, expired>>

\* sessions.revokeAll; a changed password then gets a session of its own.
RevokeAll(r) ==
  /\ At(r, "revoke")
  /\ session' = Ended(Revocable(r))
  /\ IF req[r].kind = "change" THEN Go(r, "session") ELSE Answer(r, "ok")
  /\ UNCHANGED <<account, makers, hash, old, link, spent, expired>>
-----------------------------------------------------------------------------
(* signup and login *)

\* The address is looked up before the account is created.
SignUp(r) ==
  /\ account = "absent"
  /\ \E p \in Passwords : Begin(r, "signup", "create", p, None)

\* Mutant: the row's absence is trusted, the email address is not unique.
Absent_Assumed == TRUE

\* No row has the email address.
Absent == account = "absent"

\* The transaction of the user, the workspace and its owner, of a signup or
\* of a login through Google; the second one violates the unique address.
\* A random password stands for none.
Create(r) ==
  /\ At(r, "create")
  /\ IF Absent
       THEN /\ account' = "active"
            /\ makers' = makers \cup {r}
            /\ hash' = req[r].password /\ old' = FALSE
            /\ Go(r, "session")
       ELSE Answer(r, "error") /\ UNCHANGED <<account, makers, hash, old>>
  /\ UNCHANGED <<session, link, spent, expired>>

\* The user is found active and the password verified.
LogIn(r) ==
  /\ account = "active" /\ hash # None
  /\ Begin(r, "login", IF old THEN "rehash" ELSE "session", hash, None)

\* The verified password is hashed again and stored.
Rehash(r) ==
  /\ At(r, "rehash")
  /\ hash' = req[r].password /\ old' = FALSE
  /\ Go(r, "session")
  /\ UNCHANGED <<account, makers, session, link, spent, expired>>
-----------------------------------------------------------------------------
(* Login through Google *)

\* The callback finds its state neither consumed nor expired.
Callback(r, g) ==
  /\ g \notin spent \cup expired
  /\ Begin(r, "google", "consume", None, g)

\* Mutant: the update trusts the row that was found.
Consumable_Assumed(g) == TRUE

\* The WHERE clause of the update.
Consumable(g) == g \notin spent \cup expired

ConsumeState(r) ==
  LET g == req[r].about IN
  /\ At(r, "consume")
  /\ IF Consumable(g)
       THEN spent' = spent \cup {g} /\ Go(r, "profile")
       ELSE Answer(r, "refused") /\ UNCHANGED spent
  /\ UNCHANGED <<account, makers, hash, old, session, link, expired>>

\* exchangeCode: Google names the address, or fails.
Profile(r) ==
  /\ At(r, "profile")
  /\ Go(r, "find") \/ Answer(r, "error")
  /\ UNCHANGED <<rowVars, expired>>

\* loginWithGoogle looks the user up.
FindUser(r) ==
  /\ At(r, "find")
  /\ CASE account = "absent"   -> Go(r, "create")
       [] account = "disabled" -> Answer(r, "refused")
       [] account = "active"   -> Go(r, "session")
  /\ UNCHANGED <<rowVars, expired>>
-----------------------------------------------------------------------------
(* Reset links and password changes *)

Forgot(r) ==
  /\ account # "absent"
  /\ Begin(r, "forgot", "link", None, None)

CreateLink(r) ==
  /\ At(r, "link")
  /\ link' = [link EXCEPT ![r] = "open"]
  /\ Answer(r, "ok")
  /\ UNCHANGED <<account, makers, hash, old, session, spent, expired>>

\* The link is found open; a new password is hashed.
Reset(r, l) ==
  /\ link[l] = "open" /\ l \notin expired
  /\ \E p \in Passwords : Begin(r, "reset", "apply", p, l)

\* The transaction stores the hash, uses the link and revokes every session.
ApplyReset(r) ==
  /\ At(r, "apply")
  /\ hash' = req[r].password /\ old' = FALSE
  /\ link' = [link EXCEPT ![req[r].about] = "used"]
  /\ session' = Ended(Live)
  /\ Answer(r, "ok") \/ (Faulty /\ Answer(r, "lost"))
  /\ UNCHANGED <<account, makers, spent, expired>>

\* The current password is verified.
Change(r, s) ==
  /\ SignedIn(s) /\ hash # None
  /\ \E p \in Passwords : Begin(r, "change", "store", p, s)

StorePassword(r) ==
  /\ At(r, "store")
  /\ hash' = req[r].password /\ old' = FALSE
  /\ Go(r, "revoke")
  /\ UNCHANGED <<account, makers, session, link, spent, expired>>
-----------------------------------------------------------------------------
(* Logouts and the administrator *)

Logout(r, s)    == SignedIn(s) /\ Begin(r, "logout", "end", None, s)
LogoutAll(r, s) == SignedIn(s) /\ Begin(r, "logoutAll", "revoke", None, s)

EndSession(r) ==
  /\ At(r, "end")
  /\ session' = Ended(Live \cap {req[r].about})
  /\ Answer(r, "ok")
  /\ UNCHANGED <<account, makers, hash, old, link, spent, expired>>

Administer(r) ==
  /\ account # "absent"
  /\ \E kind \in {"disable", "enable"} : Begin(r, kind, "status", None, None)

SetStatus(r) ==
  /\ At(r, "status")
  /\ IF req[r].kind = "disable"
       THEN account' = "disabled" /\ Go(r, "revoke")
       ELSE account' = "active" /\ Answer(r, "ok")
  /\ UNCHANGED <<makers, hash, old, session, link, spent, expired>>
-----------------------------------------------------------------------------
Expire(x) ==
  /\ x \in (States \cup {l \in Requests : link[l] = "open"}) \ expired
  /\ expired' = expired \cup {x}
  /\ UNCHANGED <<rowVars, req>>

\* The process dies or a statement fails.
Dies(r) ==
  /\ Faulty /\ ~ At(r, "idle") /\ ~ At(r, "done")
  /\ Answer(r, "error")
  /\ UNCHANGED <<rowVars, expired>>

Next ==
  \/ \E r \in Requests :
       \/ SignUp(r) \/ LogIn(r) \/ Forgot(r) \/ Administer(r)
       \/ \E g \in States : Callback(r, g)
       \/ \E s \in Requests : Reset(r, s) \/ Change(r, s) \/ Logout(r, s) \/ LogoutAll(r, s)
       \/ Create(r) \/ Rehash(r) \/ ConsumeState(r) \/ Profile(r) \/ FindUser(r)
       \/ CreateLink(r) \/ ApplyReset(r) \/ StorePassword(r) \/ RevokeAll(r) \/ CreateSession(r)
       \/ EndSession(r) \/ SetStatus(r) \/ Dies(r)
  \/ \E x \in Requests \cup States : Expire(x)

Spec == Init /\ [][Next]_vars
-----------------------------------------------------------------------------
(* Properties *)

Ok(r, kinds) == req[r].kind \in kinds /\ req[r].answer = "ok"

\* What ends all sessions ends at least those it found, for good: when a
\* password change, a logout everywhere or a disabled account is reported,
\* and when a reset link was used though its answer may be lost, no session
\* that lived when the request began works again, whatever ran meanwhile.
RevocationCoversSeen ==
  \A r \in Requests :
    \/ Ok(r, {"reset", "change", "logoutAll", "disable"})
    \/ req[r].kind = "reset" /\ req[r].answer = "lost"
    => req[r].seen \cap Live = {}

\* Concurrent password changes end each other's sessions, but not all of
\* them: when only finished changes have ended sessions, one that was
\* reported still has the session it was given (until its time is over).
ChangeKeepsASession ==
  LET Enders == {r \in Requests : req[r].kind \in {"reset", "change", "logout", "logoutAll", "disable"}} IN
  Enders # {} /\ (\A r \in Enders : Ok(r, {"change"})) => Enders \cap Live # {}

\* However many signups and Google logins of one address run together, they
\* make one account with one workspace, none if it was imported; a signup
\* that is reported made it.
OneAccount ==
  /\ \A r1, r2 \in makers : r1 = r2
  /\ \A r \in Requests : Ok(r, {"signup"}) => makers = {r}

PastState(r) == req[r].kind = "google" /\ (req[r].pc \in {"profile", "find", "create", "session"}
                                          \/ req[r].answer = "ok")

\* A Google login state lets one callback through, also when its redirect is
\* opened twice.
StateUsedOnce ==
  \A r1, r2 \in Requests :
    PastState(r1) /\ PastState(r2) /\ req[r1].about = req[r2].about => r1 = r2

\* What docs/architecture/v2/THREAT_MODEL_PHASE_2_RU.md:11 says of a reset
\* link, "one-time": it sets one password.
LinkUsedOnce ==
  \A r1, r2 \in Requests :
    Ok(r1, {"reset"}) /\ Ok(r2, {"reset"}) /\ req[r1].about = req[r2].about => r1 = r2
=============================================================================
