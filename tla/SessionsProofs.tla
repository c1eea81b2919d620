---------------------------- MODULE SessionsProofs ----------------------------
(***************************************************************************)
(* Proofs about Sessions, for any number of requests, passwords and Google *)
(* login states.  SafetyInv ties the step of a request to what it has done *)
(* so far: which sessions it may have created and ended, whether it made   *)
(* the account, whether it used up a Google state.                         *)
(***************************************************************************)
EXTENDS Sessions, TLAPS

Enders == {r \in Requests : req[r].kind \in {"reset", "change", "logout", "logoutAll", "disable"}}

\* Which kinds of request reach which step.
KindOK(q) ==
  /\ q.pc = "idle" => q.kind = "none"
  /\ q.pc = "create" => q.kind \in {"signup", "google"}
  /\ q.pc = "rehash" => q.kind = "login"
  /\ q.pc = "session" => q.kind \in {"signup", "login", "google", "change"}
  /\ q.pc \in {"consume", "profile", "find"} => q.kind = "google" /\ q.about \in States
  /\ q.pc = "link" => q.kind = "forgot"
  /\ q.pc = "apply" => q.kind = "reset" /\ q.about \in Requests
  /\ q.pc = "store" => q.kind = "change"
  /\ q.pc = "revoke" => q.kind \in {"change", "logoutAll", "disable"}
  /\ q.pc = "end" => q.kind = "logout"
  /\ q.pc = "status" => q.kind \in {"disable", "enable"}
  /\ q.pc # "done" => q.answer = "none"

KindInv == \A r \in Requests : KindOK(req[r])

\* A request that is under way has no session; those it saw existed.
SessionInv ==
  /\ \A r \in Requests : req[r].pc # "done" => session[r] = "none"
  /\ \A r \in Requests : \A s \in req[r].seen : session[s] # "none"

\* Requests that have ended the sessions they saw.
Past(q) ==
  \/ q.pc = "session" /\ q.kind = "change"
  \/ q.answer = "ok" /\ q.kind \in {"reset", "change", "logoutAll", "disable"}
  \/ q.answer = "lost" /\ q.kind = "reset"

CoveredInv == \A r \in Requests : Past(req[r]) => \A s \in req[r].seen : session[s] # "live"

\* A signup past its transaction made the account.
AccountInv ==
  /\ account = "absent" => makers = {}
  /\ \A r1, r2 \in makers : r1 = r2
  /\ \A r \in Requests :
       req[r].kind = "signup" /\ (req[r].pc = "session" \/ req[r].answer = "ok") => makers = {r}

\* A callback past its state used it up.
StateInv ==
  /\ \A r \in Requests : PastState(r) => req[r].about \in spent
  /\ StateUsedOnce

\* While only changes end sessions, one of them is under way or has its
\* session.
KeepInv ==
  Enders # {} /\ (\A r \in Enders : req[r].kind = "change" /\ req[r].answer \in {"none", "ok"})
  => \E r \in Enders : req[r].pc \in {"store", "revoke", "session"} \/ session[r] = "live"

SafetyInv == TypeOK /\ KindInv /\ SessionInv /\ CoveredInv /\ AccountInv /\ StateInv /\ KeepInv
-----------------------------------------------------------------------------
(* How a request moves *)

\* Every step leaves the other requests alone and keeps the kind, the subject
\* and the sessions seen of its own, unless it begins it.
Moved(r, q) == req' = [req EXCEPT ![r] = q]

LEMMA Moves ==
  ASSUME TypeOK, NEW r \in Requests
  PROVE  /\ \A step \in Steps : Go(r, step) =>
              Moved(r, [req[r] EXCEPT !.pc = step]) /\ [req[r] EXCEPT !.pc = step] \in Request
         /\ \A a \in {"ok", "refused", "error", "lost"} : Answer(r, a) =>
              /\ Moved(r, [req[r] EXCEPT !.pc = "done", !.answer = a])
              /\ [req[r] EXCEPT !.pc = "done", !.answer = a] \in Request
  <1>1. req \in [Requests -> Request] /\ req[r] \in Request
    BY DEF TypeOK
  <1>2. \A step \in Steps : [req[r] EXCEPT !.pc = step] \in Request
    BY <1>1 DEF Request
  <1>3. \A a \in {"ok", "refused", "error", "lost"} :
          [req[r] EXCEPT !.pc = "done", !.answer = a] \in Request
    BY <1>1 DEF Request, Steps
  <1>4. \A step \in Steps : Go(r, step) => Moved(r, [req[r] EXCEPT !.pc = step])
    BY <1>1 DEF Go, Moved
  <1>5. \A a \in {"ok", "refused", "error", "lost"} :
          Answer(r, a) => Moved(r, [req[r] EXCEPT !.pc = "done", !.answer = a])
    BY <1>1 DEF Answer, Moved
  <1> QED BY <1>2, <1>3, <1>4, <1>5

\* What is left of a request by each move, field by field.
LEMMA Fields ==
  ASSUME TypeOK, NEW r \in Requests, NEW q \in Request, Moved(r, q)
  PROVE  /\ req' \in [Requests -> Request]
         /\ req'[r] = q
         /\ \A s \in Requests \ {r} : req'[s] = req[s]
  BY DEF TypeOK, Moved

\* Starting a request.
LEMMA Begins ==
  ASSUME TypeOK, NEW r \in Requests, NEW kind \in Kinds, NEW step \in Steps,
         NEW p \in Passwords \cup {None}, NEW x \in Requests \cup States \cup {None},
         Begin(r, kind, step, p, x)
  PROVE  \E q \in Request :
           /\ Moved(r, q)
           /\ q.pc = step /\ q.kind = kind /\ q.about = x /\ q.seen = Live /\ q.answer = "none"
           /\ req[r].pc = "idle" /\ UNCHANGED <<rowVars, expired>>
  <1> DEFINE q == [pc |-> step, kind |-> kind, password |-> p, about |-> x, seen |-> Live,
                   answer |-> "none"]
  <1>1. q \in Request
    BY DEF Request, Live
  <1>2. Moved(r, q)
    BY DEF Begin, Moved
  <1> QED BY <1>1, <1>2 DEF Begin, At

Starts(r) ==
  \/ SignUp(r) \/ LogIn(r) \/ Forgot(r) \/ Administer(r)
  \/ \E g \in States : Callback(r, g)
  \/ \E s \in Requests : Reset(r, s) \/ Change(r, s) \/ Logout(r, s) \/ LogoutAll(r, s)

\* The kind of a request and its first step.
FirstSteps ==
  {<<"signup", "create">>, <<"login", "rehash">>, <<"login", "session">>,
   <<"google", "consume">>, <<"forgot", "link">>, <<"reset", "apply">>, <<"change", "store">>,
   <<"logout", "end">>, <<"logoutAll", "revoke">>, <<"disable", "status">>,
   <<"enable", "status">>}

Begun(q) ==
  /\ <<q.kind, q.pc>> \in FirstSteps
  /\ q.kind = "google" => q.about \in States
  /\ q.kind = "reset" => q.about \in Requests
  /\ q.seen = Live /\ q.answer = "none"

LEMMA StartsBegin ==
  ASSUME TypeOK, NEW r \in Requests, Starts(r)
  PROVE  /\ \E q \in Request : Moved(r, q) /\ Begun(q)
         /\ req[r].pc = "idle" /\ UNCHANGED <<rowVars, expired>>
  <1> DEFINE Goal == /\ \E q \in Request : Moved(r, q) /\ Begun(q)
                     /\ req[r].pc = "idle" /\ UNCHANGED <<rowVars, expired>>
  <1>1. ASSUME NEW kind \in Kinds, NEW step \in Steps, NEW p \in Passwords \cup {None},
               NEW x \in Requests \cup States \cup {None}, Begin(r, kind, step, p, x),
               <<kind, step>> \in FirstSteps,
               kind = "google" => x \in States, kind = "reset" => x \in Requests
        PROVE  Goal
    BY <1>1, Begins DEF Begun
  <1> HIDE DEF Goal
  <1>2. ASSUME SignUp(r) PROVE Goal
    BY <1>1, <1>2 DEF SignUp, FirstSteps, Kinds, Steps
  <1>3. ASSUME LogIn(r) PROVE Goal
    <2>1. hash \in Passwords \cup {None}
      BY DEF TypeOK
    <2>2. CASE old
      BY <1>1, <1>3, <2>1, <2>2 DEF LogIn, FirstSteps, Kinds, Steps
    <2>3. CASE ~ old
      BY <1>1, <1>3, <2>1, <2>3 DEF LogIn, FirstSteps, Kinds, Steps
    <2> QED BY <2>2, <2>3
  <1>4. ASSUME Forgot(r) PROVE Goal
    BY <1>1, <1>4 DEF Forgot, FirstSteps, Kinds, Steps
  <1>5. ASSUME Administer(r) PROVE Goal
    BY <1>1, <1>5 DEF Administer, FirstSteps, Kinds, Steps
  <1>6. ASSUME NEW g \in States, Callback(r, g) PROVE Goal
    BY <1>1, <1>6 DEF Callback, FirstSteps, Kinds, Steps
  <1>7. ASSUME NEW s \in Requests, Reset(r, s) PROVE Goal
    BY <1>1, <1>7 DEF Reset, FirstSteps, Kinds, Steps
  <1>8. ASSUME NEW s \in Requests, Change(r, s) PROVE Goal
    BY <1>1, <1>8 DEF Change, FirstSteps, Kinds, Steps
  <1>9. ASSUME NEW s \in Requests, Logout(r, s) \/ LogoutAll(r, s) PROVE Goal
    BY <1>1, <1>9 DEF Logout, LogoutAll, FirstSteps, Kinds, Steps
  <1>10. Goal
    BY <1>2, <1>3, <1>4, <1>5, <1>6, <1>7, <1>8, <1>9 DEF Starts
  <1> QED BY <1>10 DEF Goal
-----------------------------------------------------------------------------
(* The steps of a request that was begun *)

Runs(r) ==
  \/ Create(r) \/ Rehash(r) \/ ConsumeState(r) \/ Profile(r) \/ FindUser(r)
  \/ CreateLink(r) \/ ApplyReset(r) \/ StorePassword(r) \/ RevokeAll(r) \/ CreateSession(r)
  \/ EndSession(r) \/ SetStatus(r) \/ Dies(r)

\* The record q is what r becomes.
Becomes(r, q) ==
  /\ q \in Request /\ Moved(r, q)
  /\ q.kind = req[r].kind /\ q.about = req[r].about /\ q.seen = req[r].seen
  /\ req[r].pc \notin {"idle", "done"}

LEMMA RunsBecome ==
  ASSUME TypeOK, NEW r \in Requests, req[r].pc \notin {"idle", "done"}
  PROVE  /\ \A step \in Steps : Go(r, step) =>
              \E q : Becomes(r, q) /\ q.pc = step /\ q.answer = req[r].answer
         /\ \A a \in {"ok", "refused", "error", "lost"} : Answer(r, a) =>
              \E q : Becomes(r, q) /\ q.pc = "done" /\ q.answer = a
  <1>1. req[r] \in Request
    BY DEF TypeOK
  <1>2. ASSUME NEW step \in Steps, Go(r, step)
        PROVE  \E q : Becomes(r, q) /\ q.pc = step /\ q.answer = req[r].answer
    <2>1. Becomes(r, [req[r] EXCEPT !.pc = step])
      BY <1>1, <1>2, Moves DEF Becomes, Request
    <2>2. /\ [req[r] EXCEPT !.pc = step].pc = step
          /\ [req[r] EXCEPT !.pc = step].answer = req[r].answer
      BY <1>1 DEF Request
    <2> QED BY <2>1, <2>2
  <1>3. ASSUME NEW a \in {"ok", "refused", "error", "lost"}, Answer(r, a)
        PROVE  \E q : Becomes(r, q) /\ q.pc = "done" /\ q.answer = a
    <2> DEFINE q == [req[r] EXCEPT !.pc = "done", !.answer = a]
    <2>1. q \in Request /\ Moved(r, q)
      BY <1>3, Moves
    <2>2. q.kind = req[r].kind /\ q.about = req[r].about /\ q.seen = req[r].seen
      BY <1>1 DEF Request
    <2>3. Becomes(r, q)
      BY <2>1, <2>2 DEF Becomes
    <2>4. q.pc = "done" /\ q.answer = a
      BY <1>1 DEF Request
    <2> HIDE DEF q
    <2> QED BY <2>3, <2>4
  <1> QED BY <1>2, <1>3

\* How a request may go on.
NextSteps(r, q) ==
  \/ q.pc = "done" /\ q.answer \in {"refused", "error"}
  \/ /\ q.pc = "done" /\ q.answer = "ok"
     /\ req[r].pc \in {"session", "link", "apply", "revoke", "end", "status"}
     /\ req[r].pc = "revoke" => req[r].kind # "change"
     /\ req[r].pc = "status" => req[r].kind # "disable"
  \/ q.pc = "done" /\ q.answer = "lost" /\ req[r].pc = "apply"
  \/ /\ q.answer = req[r].answer
     /\ <<req[r].pc, q.pc>> \in
          {<<"create", "session">>, <<"rehash", "session">>, <<"consume", "profile">>,
           <<"profile", "find">>, <<"find", "create">>, <<"find", "session">>,
           <<"store", "revoke">>, <<"revoke", "session">>, <<"status", "revoke">>}
     /\ req[r].pc = "revoke" => req[r].kind = "change"
     /\ req[r].pc = "status" => req[r].kind = "disable"

\* One request moves, along these steps.
LEMMA RunsShape ==
  ASSUME TypeOK, NEW r \in Requests, Runs(r)
  PROVE  \E q : Becomes(r, q) /\ NextSteps(r, q)
  <1> DEFINE Goal == \E q : Becomes(r, q) /\ NextSteps(r, q)
  <1>1. req[r].pc \notin {"idle", "done"}
    BY DEF Runs, At, Create, Rehash, ConsumeState, Profile, FindUser, CreateLink, ApplyReset,
           StorePassword, RevokeAll, CreateSession, EndSession, SetStatus, Dies
  <1>2. ASSUME NEW a \in {"refused", "error"}, Answer(r, a) PROVE Goal
    BY <1>1, <1>2, RunsBecome DEF NextSteps
  <1>3. ASSUME Answer(r, "ok"),
               req[r].pc \in {"session", "link", "apply", "revoke", "end", "status"},
               req[r].pc = "revoke" => req[r].kind # "change",
               req[r].pc = "status" => req[r].kind # "disable"
        PROVE  Goal
    BY <1>1, <1>3, RunsBecome DEF NextSteps
  <1>4. ASSUME Answer(r, "lost"), req[r].pc = "apply" PROVE Goal
    BY <1>1, <1>4, RunsBecome DEF NextSteps
  <1>5. ASSUME NEW step \in Steps, Go(r, step),
               <<req[r].pc, step>> \in
                 {<<"create", "session">>, <<"rehash", "session">>, <<"consume", "profile">>,
                  <<"profile", "find">>, <<"find", "create">>, <<"find", "session">>,
                  <<"store", "revoke">>, <<"revoke", "session">>, <<"status", "revoke">>},
               req[r].pc = "revoke" => req[r].kind = "change",
               req[r].pc = "status" => req[r].kind = "disable"
        PROVE  Goal
    BY <1>1, <1>5, RunsBecome DEF NextSteps
  <1> HIDE DEF Goal
  <1> USE <1>2, <1>3, <1>4, <1>5 DEF At, Steps
  <1>6. ASSUME Create(r) \/ Rehash(r) \/ ConsumeState(r) \/ Profile(r) PROVE Goal
    BY <1>6 DEF Create, Rehash, ConsumeState, Profile
  <1>7. ASSUME FindUser(r) PROVE Goal
    <2>1. account \in {"absent", "active", "disabled"}
      BY DEF TypeOK
    <2> QED BY <1>7, <2>1 DEF FindUser
  <1>8. ASSUME CreateLink(r) \/ ApplyReset(r) \/ StorePassword(r) PROVE Goal
    BY <1>8 DEF CreateLink, ApplyReset, StorePassword
  <1>9. ASSUME RevokeAll(r) \/ CreateSession(r) \/ EndSession(r) PROVE Goal
    BY <1>9 DEF RevokeAll, CreateSession, EndSession
  <1>10. ASSUME SetStatus(r) \/ Dies(r) PROVE Goal
    BY <1>10 DEF SetStatus, Dies
  <1>11. Goal
    BY <1>6, <1>7, <1>8, <1>9, <1>10 DEF Runs
  <1> QED BY <1>11 DEF Goal
-----------------------------------------------------------------------------
(* Every step keeps each part of SafetyInv *)

\* Which sessions a step creates and ends.
LEMMA SessionMoves ==
  ASSUME TypeOK, NEW r \in Requests, Starts(r) \/ Runs(r)
  PROVE  /\ session' \in [Requests -> {"none", "live", "ended"}]
         /\ \A s \in Requests : session'[s] = session[s]
              \/ (session[s] = "live" /\ session'[s] = "ended"
                   /\ req[r].pc \in {"apply", "revoke", "end"})
              \/ (s = r /\ session'[s] = "live" /\ req[r].pc = "session")
  <1>1. session \in [Requests -> {"none", "live", "ended"}]
    BY DEF TypeOK
  <1>2. ASSUME NEW S \in SUBSET Live
        PROVE  /\ Ended(S) \in [Requests -> {"none", "live", "ended"}]
               /\ \A s \in Requests : Ended(S)[s] = session[s] \/ (session[s] = "live" /\ Ended(S)[s] = "ended")
    BY <1>1 DEF Ended, Live
  <1>3. CASE Starts(r)
    BY <1>1, <1>3, StartsBegin DEF rowVars
  <1>4. CASE CreateSession(r)
    BY <1>1, <1>4 DEF CreateSession, At
  <1>5. CASE RevokeAll(r)
    <2>1. session' = Ended(Live) /\ req[r].pc = "revoke"
      BY <1>5 DEF RevokeAll, Revocable, At
    <2> QED BY <1>2, <2>1
  <1>6. CASE ApplyReset(r)
    <2>1. session' = Ended(Live) /\ req[r].pc = "apply"
      BY <1>6 DEF ApplyReset, At
    <2> QED BY <1>2, <2>1
  <1>7. CASE EndSession(r)
    <2>1. session' = Ended(Live \cap {req[r].about}) /\ req[r].pc = "end"
      BY <1>7 DEF EndSession, At
    <2> QED BY <1>2, <2>1
  <1>8. CASE Create(r) \/ Rehash(r) \/ ConsumeState(r) \/ Profile(r) \/ FindUser(r)
             \/ CreateLink(r) \/ StorePassword(r) \/ SetStatus(r) \/ Dies(r)
    BY <1>1, <1>8 DEF Create, Rehash, ConsumeState, Profile, FindUser, CreateLink, StorePassword,
                      SetStatus, Dies, rowVars
  <1> QED BY <1>3, <1>4, <1>5, <1>6, <1>7, <1>8 DEF Runs

\* One request moves, whichever step it takes.
LEMMA OneMoves ==
  ASSUME TypeOK, NEW r \in Requests, Starts(r) \/ Runs(r)
  PROVE  \E q \in Request :
           /\ req' \in [Requests -> Request] /\ req'[r] = q
           /\ \A s \in Requests \ {r} : req'[s] = req[s]
           /\ \/ Begun(q) /\ req[r].pc = "idle"
              \/ Becomes(r, q) /\ NextSteps(r, q)
  <1>1. CASE Starts(r)
    BY <1>1, StartsBegin, Fields
  <1>2. CASE Runs(r)
    BY <1>2, RunsShape, Fields DEF Becomes
  <1> QED BY <1>1, <1>2

LEMMA KindStep ==
  ASSUME TypeOK, KindInv, NEW r \in Requests, Starts(r) \/ Runs(r)
  PROVE  KindInv'
  <1>1. PICK q \in Request :
           /\ req'[r] = q
           /\ \A s \in Requests \ {r} : req'[s] = req[s]
           /\ Begun(q) \/ (Becomes(r, q) /\ NextSteps(r, q))
    BY OneMoves
  <1>2. KindOK(req[r])
    BY DEF KindInv
  <1>3. KindOK(q)
    <2>1. CASE Begun(q)
      BY <2>1 DEF Begun, FirstSteps, KindOK
    <2>2. CASE Becomes(r, q) /\ NextSteps(r, q)
      BY <1>2, <2>2 DEF Becomes, NextSteps, KindOK
    <2> QED BY <1>1, <2>1, <2>2
  <1>4. ASSUME NEW s \in Requests PROVE KindOK(req'[s])
    BY <1>1, <1>3 DEF KindInv
  <1> QED BY <1>4 DEF KindInv, KindOK

LEMMA SessionStep ==
  ASSUME TypeOK, KindInv, SessionInv, NEW r \in Requests, Starts(r) \/ Runs(r)
  PROVE  SessionInv'
  <1>1. PICK q \in Request :
           /\ req'[r] = q
           /\ \A s \in Requests \ {r} : req'[s] = req[s]
           /\ \/ Begun(q) /\ req[r].pc = "idle"
              \/ Becomes(r, q) /\ NextSteps(r, q)
    BY OneMoves
  <1>2. ASSUME NEW s \in Requests, req'[s].pc # "done" PROVE session'[s] = "none"
    <2>1. req[s].pc # "done"
      BY <1>1, <1>2 DEF Becomes
    <2>2. session[s] = "none"
      BY <2>1 DEF SessionInv
    <2>3. ~ (s = r /\ req[r].pc = "session")
      BY <1>1, <1>2 DEF NextSteps
    <2> QED BY <2>2, <2>3, SessionMoves
  <1>3. ASSUME NEW s \in Requests, NEW t \in req'[s].seen PROVE session'[t] # "none"
    <2>1. t \in Requests /\ session[t] # "none"
      BY <1>1, <1>3 DEF SessionInv, Becomes, Begun, Live, TypeOK, Request
    <2> QED BY <2>1, SessionMoves
  <1> QED BY <1>2, <1>3 DEF SessionInv

LEMMA CoveredStep ==
  ASSUME TypeOK, KindInv, SessionInv, CoveredInv, NEW r \in Requests, Starts(r) \/ Runs(r)
  PROVE  CoveredInv'
  <1>1. PICK q \in Request :
           /\ req'[r] = q
           /\ \A s \in Requests \ {r} : req'[s] = req[s]
           /\ \/ Begun(q) /\ req[r].pc = "idle"
              \/ Becomes(r, q) /\ NextSteps(r, q)
    BY OneMoves
  <1>2. ASSUME NEW s \in Requests, Past(req[s]), NEW t \in req[s].seen
        PROVE  session'[t] # "live"
    <2>1. t \in Requests /\ session[t] # "none" /\ session[t] # "live"
      BY <1>2 DEF SessionInv, CoveredInv, TypeOK, Request
    <2>2. req[t].pc # "session"
      BY <2>1 DEF SessionInv
    <2> QED BY <2>1, <2>2, SessionMoves
  <1>3. ASSUME Past(q), ~ Past(req[r]), NEW t \in q.seen PROVE session'[t] # "live"
    <2>1. Becomes(r, q) /\ NextSteps(r, q)
      BY <1>1, <1>3 DEF Begun, FirstSteps, Past
    <2>2. KindOK(req[r]) /\ req[r] \in Request
      BY DEF KindInv, TypeOK
    <2>3. req[r].pc \in {"apply", "revoke"} /\ q.answer # "error"
      BY <1>3, <2>1, <2>2 DEF Becomes, NextSteps, Past, KindOK, Request
    <2>4. Runs(r) /\ ~ Dies(r)
      <3>1. ~ Dies(r)
        BY <1>1, <2>3 DEF Dies, Answer, TypeOK, Request
      <3>2. ~ Starts(r)
        BY <2>1, StartsBegin DEF Becomes
      <3> QED BY <3>1, <3>2
    <2>5. session' = Ended(Live)
      BY <2>3, <2>4 DEF Runs, At, Create, Rehash, ConsumeState, Profile, FindUser, CreateLink,
                        ApplyReset, StorePassword, RevokeAll, Revocable, CreateSession, EndSession,
                        SetStatus
    <2>6. t \in Requests
      BY <1>3, <2>1, <2>2 DEF Becomes, Request
    <2> QED BY <2>5, <2>6 DEF Ended, Live
  <1>4. ASSUME NEW s \in Requests, Past(req'[s]), NEW t \in req'[s].seen
        PROVE  session'[t] # "live"
    <2>1. CASE s # r
      BY <1>1, <1>2, <1>4, <2>1
    <2>2. CASE s = r /\ Past(req[r])
      <3>1. req'[s].seen = req[s].seen
        BY <1>1, <2>2 DEF Becomes, Past, KindInv, KindOK
      <3> QED BY <1>2, <1>4, <2>2, <3>1
    <2>3. CASE s = r /\ ~ Past(req[r])
      BY <1>1, <1>3, <1>4, <2>3
    <2> QED BY <2>1, <2>2, <2>3
  <1> QED BY <1>4 DEF CoveredInv

LEMMA AccountStep ==
  ASSUME TypeOK, KindInv, AccountInv, NEW r \in Requests, Starts(r) \/ Runs(r)
  PROVE  AccountInv'
  <1>1. PICK q \in Request :
           /\ req'[r] = q
           /\ \A s \in Requests \ {r} : req'[s] = req[s]
           /\ \/ Begun(q) /\ req[r].pc = "idle"
              \/ Becomes(r, q) /\ NextSteps(r, q)
    BY OneMoves
  <1>2. \/ UNCHANGED makers /\ (account' = "absent" => account = "absent")
           /\ ~ (req[r].pc = "create" /\ q.pc = "session")
        \/ account = "absent" /\ account' = "active" /\ makers' = {r}
    <2>1. CASE Starts(r)
      BY <1>1, <2>1, StartsBegin DEF rowVars
    <2>2. CASE Create(r)
      <3>1. CASE Absent
        BY <2>2, <3>1 DEF Create, Absent, AccountInv
      <3>2. CASE ~ Absent
        BY <1>1, <2>2, <3>2 DEF Create, Answer, TypeOK, Request
      <3> QED BY <3>1, <3>2
    <2>3. CASE SetStatus(r)
      BY <2>3 DEF SetStatus, At
    <2>4. CASE Dies(r)
      BY <1>1, <2>4 DEF Dies, Answer, rowVars, TypeOK, Request
    <2>5. CASE Rehash(r) \/ ConsumeState(r) \/ Profile(r) \/ FindUser(r) \/ CreateLink(r)
               \/ ApplyReset(r) \/ StorePassword(r) \/ RevokeAll(r) \/ CreateSession(r) \/ EndSession(r)
      BY <2>5 DEF Rehash, ConsumeState, Profile, FindUser, CreateLink, ApplyReset, StorePassword,
                  RevokeAll, CreateSession, EndSession, At, rowVars
    <2> QED BY <2>1, <2>2, <2>3, <2>4, <2>5 DEF Runs
  <1>3. ASSUME NEW s \in Requests, req'[s].kind = "signup",
               req'[s].pc = "session" \/ req'[s].answer = "ok"
        PROVE  makers' = {s}
    <2>1. CASE s # r
      <3>1. makers = {s}
        BY <1>1, <1>3, <2>1 DEF AccountInv
      <3> QED BY <1>2, <3>1 DEF AccountInv
    <2>2. CASE s = r
      <3>1. KindOK(req[r])
        BY DEF KindInv
      <3>2. \/ req[r].pc = "create" /\ q.pc = "session"
            \/ req[r].kind = "signup" /\ req[r].pc = "session"
        BY <1>1, <1>3, <2>2, <3>1 DEF Begun, FirstSteps, Becomes, NextSteps, KindOK
      <3>3. CASE req[r].pc = "create" /\ q.pc = "session"
        BY <1>2, <2>2, <3>3
      <3>4. CASE req[r].kind = "signup" /\ req[r].pc = "session"
        BY <1>2, <2>2, <3>4 DEF AccountInv
      <3> QED BY <3>2, <3>3, <3>4
    <2> QED BY <2>1, <2>2
  <1>4. /\ account' = "absent" => makers' = {}
        /\ \A r1, r2 \in makers' : r1 = r2
    BY <1>2 DEF AccountInv
  <1> QED BY <1>3, <1>4 DEF AccountInv

LEMMA StateStep ==
  ASSUME TypeOK, KindInv, StateInv, NEW r \in Requests, Starts(r) \/ Runs(r)
  PROVE  StateInv'
  <1>1. PICK q \in Request :
           /\ req'[r] = q
           /\ \A s \in Requests \ {r} : req'[s] = req[s]
           /\ \/ Begun(q) /\ req[r].pc = "idle"
              \/ Becomes(r, q) /\ NextSteps(r, q)
    BY OneMoves
  <1>2. \/ UNCHANGED spent /\ ~ (req[r].pc = "consume" /\ q.pc = "profile")
        \/ req[r].about \notin spent /\ spent' = spent \cup {req[r].about}
    <2>1. CASE Starts(r)
      BY <1>1, <2>1, StartsBegin DEF rowVars
    <2>2. CASE ConsumeState(r)
      <3>1. CASE Consumable(req[r].about)
        BY <2>2, <3>1 DEF ConsumeState, Consumable
      <3>2. CASE ~ Consumable(req[r].about)
        BY <1>1, <2>2, <3>2 DEF ConsumeState, Answer, TypeOK, Request
      <3> QED BY <3>1, <3>2
    <2>3. CASE Dies(r)
      BY <1>1, <2>3 DEF Dies, Answer, rowVars, TypeOK, Request
    <2>4. CASE Create(r) \/ Rehash(r) \/ Profile(r) \/ FindUser(r) \/ CreateLink(r) \/ SetStatus(r)
               \/ ApplyReset(r) \/ StorePassword(r) \/ RevokeAll(r) \/ CreateSession(r) \/ EndSession(r)
      BY <2>4 DEF Create, Rehash, Profile, FindUser, CreateLink, ApplyReset, StorePassword, SetStatus,
                  RevokeAll, CreateSession, EndSession, At, rowVars
    <2> QED BY <2>1, <2>2, <2>3, <2>4 DEF Runs
  <1>3. PastState(r)' => PastState(r) \/ (req[r].pc = "consume" /\ q.pc = "profile")
    <2>1. KindOK(req[r])
      BY DEF KindInv
    <2>2. ASSUME Begun(q) PROVE ~ PastState(r)'
      BY <1>1, <2>2 DEF Begun, FirstSteps, PastState
    <2>3. ASSUME Becomes(r, q), NextSteps(r, q), PastState(r)'
          PROVE  PastState(r) \/ (req[r].pc = "consume" /\ q.pc = "profile")
      BY <1>1, <2>1, <2>3 DEF Becomes, NextSteps, PastState, KindOK
    <2> QED BY <1>1, <2>2, <2>3
  <1>4. PastState(r)' => req'[r].about = req[r].about
    BY <1>1 DEF Begun, FirstSteps, PastState, Becomes
  <1>5. \A s \in Requests \ {r} : (PastState(s)' <=> PastState(s)) /\ req'[s].about = req[s].about
    BY <1>1 DEF PastState
  <1>6. ASSUME NEW s \in Requests, PastState(s)' PROVE req'[s].about \in spent'
    BY <1>2, <1>3, <1>4, <1>5, <1>6 DEF StateInv
  <1>7. ASSUME NEW r1 \in Requests, NEW r2 \in Requests, PastState(r1)', PastState(r2)',
               req'[r1].about = req'[r2].about, r1 # r2
        PROVE  FALSE
    <2>1. CASE PastState(r1) /\ PastState(r2)
      BY <1>4, <1>5, <1>7, <2>1 DEF StateInv, StateUsedOnce
    <2>2. CASE ~ PastState(r1)
      <3>1. r1 = r /\ PastState(r2) /\ req[r1].about \notin spent
        BY <1>2, <1>3, <1>5, <1>7, <2>2
      <3> QED BY <1>4, <1>5, <1>7, <3>1 DEF StateInv
    <2>3. CASE ~ PastState(r2)
      <3>1. r2 = r /\ PastState(r1) /\ req[r2].about \notin spent
        BY <1>2, <1>3, <1>5, <1>7, <2>3
      <3> QED BY <1>4, <1>5, <1>7, <3>1 DEF StateInv
    <2> QED BY <2>1, <2>2, <2>3
  <1> QED BY <1>6, <1>7 DEF StateInv, StateUsedOnce

LEMMA KeepStep ==
  ASSUME TypeOK, KindInv, SessionInv, KeepInv, NEW r \in Requests, Starts(r) \/ Runs(r)
  PROVE  KeepInv'
  <1>1. PICK q \in Request :
           /\ req'[r] = q
           /\ \A s \in Requests \ {r} : req'[s] = req[s]
           /\ \/ Begun(q) /\ req[r].pc = "idle"
              \/ Becomes(r, q) /\ NextSteps(r, q)
    BY OneMoves
  <1>2. KindOK(req[r])
    BY DEF KindInv
  <1>3. \A s \in Requests \ {r} : s \in Enders <=> s \in Enders'
    BY <1>1 DEF Enders
  <1> DEFINE Only == \A s \in Enders : req[s].kind = "change" /\ req[s].answer \in {"none", "ok"}
             Kept(s) == req[s].pc \in {"store", "revoke", "session"} \/ session[s] = "live"
  <1>4. SUFFICES ASSUME Enders' # {},
                        \A s \in Enders' : req'[s].kind = "change" /\ req'[s].answer \in {"none", "ok"}
                 PROVE  \E s \in Enders' : req'[s].pc \in {"store", "revoke", "session"}
                                             \/ session'[s] = "live"
    BY DEF KeepInv
  <1>5. CASE r \in Enders' /\ q.pc \in {"store", "revoke", "session"}
    BY <1>1, <1>5
  <1>6. CASE r \in Enders' /\ q.pc \notin {"store", "revoke", "session"}
    <2>1. q.kind = "change" /\ q.answer \in {"none", "ok"}
      BY <1>1, <1>4, <1>6
    <2>2. Becomes(r, q) /\ NextSteps(r, q) /\ req[r].pc = "session" /\ q.answer = "ok"
      BY <1>1, <1>2, <1>6, <2>1 DEF Begun, FirstSteps, Becomes, NextSteps, KindOK
    <2>3. Runs(r) /\ ~ Dies(r)
      <3>1. ~ Dies(r)
        BY <1>1, <2>2 DEF Dies, Answer, TypeOK, Request
      <3>2. ~ Starts(r)
        BY <2>2, StartsBegin
      <3> QED BY <3>1, <3>2
    <2>4. CreateSession(r)
      BY <2>2, <2>3 DEF Runs, At, Create, Rehash, ConsumeState, Profile, FindUser, CreateLink,
                        ApplyReset, StorePassword, RevokeAll, EndSession, SetStatus
    <2>5. session'[r] = "live"
      BY <2>4 DEF CreateSession, TypeOK
    <2> QED BY <1>6, <2>5
  <1>7. CASE r \notin Enders'
    <2>1. r \notin Enders
      BY <1>1, <1>2, <1>7 DEF Enders, Becomes, KindOK
    <2>2. Enders' = Enders
      BY <1>3, <1>7, <2>1 DEF Enders
    <2>3. PICK s \in Enders : Kept(s)
      BY <1>1, <1>4, <1>7, <2>2 DEF KeepInv, Enders
    <2>4. s \in Requests /\ s # r
      BY <2>1, <2>3 DEF Enders
    <2>5. req[r].pc \notin {"apply", "revoke", "end"}
      BY <1>2, <2>1 DEF Enders, KindOK
    <2>6. session[s] = "live" => session'[s] = "live"
      BY <2>4, <2>5, SessionMoves
    <2> QED BY <1>1, <2>2, <2>3, <2>4, <2>6
  <1> QED BY <1>5, <1>6, <1>7

LEMMA TypeStep ==
  ASSUME TypeOK, KindInv, NEW r \in Requests, Starts(r) \/ Runs(r)
  PROVE  TypeOK'
  <1>1. req' \in [Requests -> Request] /\ session' \in [Requests -> {"none", "live", "ended"}]
    BY OneMoves, SessionMoves
  <1>2. req[r] \in Request /\ KindOK(req[r])
    BY DEF TypeOK, KindInv
  <1>3. /\ account' \in {"absent", "active", "disabled"} /\ makers' \in SUBSET Requests
        /\ hash' \in Passwords \cup {None} /\ old' \in BOOLEAN
        /\ link' \in [Requests -> {"none", "open", "used"}]
        /\ spent' \in SUBSET States /\ expired' \in SUBSET (Requests \cup States)
    <2>1. CASE Starts(r)
      BY <2>1, StartsBegin DEF TypeOK, rowVars
    <2>2. CASE Create(r)
      <3>1. CASE Absent
        <4>1. account' = "active" /\ makers' = makers \cup {r} /\ hash' = req[r].password /\ old' = FALSE
          BY <2>2, <3>1 DEF Create
        <4> QED BY <1>2, <2>2, <4>1 DEF Create, TypeOK, Request
      <3>2. CASE ~ Absent
        BY <2>2, <3>2 DEF Create, TypeOK
      <3> QED BY <3>1, <3>2
    <2>3. CASE Rehash(r) \/ StorePassword(r)
      BY <1>2, <2>3 DEF Rehash, StorePassword, TypeOK, Request
    <2>4. CASE ConsumeState(r)
      BY <1>2, <2>4 DEF ConsumeState, At, KindOK, TypeOK
    <2>5. CASE CreateLink(r)
      BY <2>5 DEF CreateLink, TypeOK
    <2>6. CASE ApplyReset(r)
      BY <1>2, <2>6 DEF ApplyReset, At, KindOK, TypeOK, Request
    <2>7. CASE SetStatus(r)
      BY <2>7 DEF SetStatus, TypeOK
    <2>8. CASE Profile(r) \/ FindUser(r) \/ RevokeAll(r) \/ CreateSession(r) \/ EndSession(r) \/ Dies(r)
      BY <2>8 DEF Profile, FindUser, RevokeAll, CreateSession, EndSession, Dies, rowVars, TypeOK
    <2> QED BY <2>1, <2>2, <2>3, <2>4, <2>5, <2>6, <2>7, <2>8 DEF Runs
  <1> QED BY <1>1, <1>3 DEF TypeOK

\* Time that passes, and steps that change nothing, change nothing here.
LEMMA OtherSteps ==
  ASSUME SafetyInv, UNCHANGED vars \/ \E x \in Requests \cup States : Expire(x)
  PROVE  SafetyInv'
  <1>1. UNCHANGED <<rowVars, req>> /\ (UNCHANGED expired \/ \E x \in Requests \cup States : expired' = expired \cup {x})
    BY DEF vars, Expire
  <1>2. TypeOK'
    BY <1>1 DEF SafetyInv, TypeOK, rowVars
  <1>3. KindInv' /\ SessionInv' /\ CoveredInv' /\ AccountInv'
    BY <1>1 DEF SafetyInv, KindInv, KindOK, SessionInv, CoveredInv, Past, AccountInv, rowVars
  <1>4. StateInv' /\ KeepInv'
    BY <1>1 DEF SafetyInv, StateInv, StateUsedOnce, PastState, KeepInv, Enders, rowVars
  <1> QED BY <1>2, <1>3, <1>4 DEF SafetyInv

LEMMA InitSafe == Init => SafetyInv
  <1> SUFFICES ASSUME Init PROVE SafetyInv
    OBVIOUS
  <1>1. Idle \in Request
    BY DEF Idle, Request, Steps
  <1>2. TypeOK
    BY <1>1 DEF Init, TypeOK
  <1>3. KindInv /\ SessionInv /\ CoveredInv /\ AccountInv
    BY DEF Init, Idle, KindInv, KindOK, SessionInv, CoveredInv, Past, AccountInv
  <1>4. StateInv /\ KeepInv
    BY DEF Init, Idle, StateInv, StateUsedOnce, PastState, KeepInv, Enders
  <1> QED BY <1>2, <1>3, <1>4 DEF SafetyInv

LEMMA StepSafe == SafetyInv /\ [Next]_vars => SafetyInv'
  <1> SUFFICES ASSUME SafetyInv, [Next]_vars PROVE SafetyInv'
    OBVIOUS
  <1>1. ASSUME NEW r \in Requests, Starts(r) \/ Runs(r) PROVE SafetyInv'
    BY <1>1, TypeStep, KindStep, SessionStep, CoveredStep, AccountStep, StateStep, KeepStep DEF SafetyInv
  <1>2. ASSUME UNCHANGED vars \/ \E x \in Requests \cup States : Expire(x) PROVE SafetyInv'
    BY <1>2, OtherSteps
  <1>3. \/ \E r \in Requests : Starts(r) \/ Runs(r)
        \/ UNCHANGED vars \/ \E x \in Requests \cup States : Expire(x)
    BY DEF Next, Starts, Runs
  <1> QED BY <1>1, <1>2, <1>3
-----------------------------------------------------------------------------
(* The theorems *)

\* SafetyInv, of which the others are parts or consequences, always holds.
THEOREM SafetyInvariant == Spec => []SafetyInv
  BY InitSafe, StepSafe, PTL DEF Spec

\* Every variable keeps its type.
THEOREM TypeCorrect == Spec => []TypeOK
  <1>1. SafetyInv => TypeOK
    BY DEF SafetyInv
  <1> QED BY <1>1, SafetyInvariant, PTL

\* A reported reset, password change, logout everywhere or disabled account
\* ended every session its request had found (auth.service.ts,
\* admin.service.ts), for any number of concurrent requests.
THEOREM RevocationCovers == Spec => []RevocationCoversSeen
  <1>1. SafetyInv => RevocationCoversSeen
    BY DEF SafetyInv, CoveredInv, Past, RevocationCoversSeen, Ok, Live
  <1> QED BY <1>1, SafetyInvariant, PTL

\* Any number of concurrent changePassword calls leaves one session.
THEOREM ChangesKeepOne == Spec => []ChangeKeepsASession
  <1>1. ASSUME SafetyInv PROVE ChangeKeepsASession
    <2>1. SUFFICES ASSUME Enders # {}, \A r \in Enders : Ok(r, {"change"})
                   PROVE  Enders \cap Live # {}
      BY DEF ChangeKeepsASession, Enders
    <2>2. PICK r \in Enders : req[r].pc \in {"store", "revoke", "session"} \/ session[r] = "live"
      BY <1>1, <2>1 DEF SafetyInv, KeepInv, Ok
    <2>3. r \in Requests /\ req[r].answer = "ok"
      BY <2>1 DEF Enders, Ok
    <2>4. req[r].pc = "done"
      BY <1>1, <2>3 DEF SafetyInv, KindInv, KindOK
    <2> QED BY <2>2, <2>3, <2>4 DEF Live
  <1> QED BY <1>1, SafetyInvariant, PTL

\* However many signups and Google logins run, one account is made.
THEOREM AccountOnce == Spec => []OneAccount
  <1>1. SafetyInv => OneAccount
    BY DEF SafetyInv, AccountInv, OneAccount, Ok
  <1> QED BY <1>1, SafetyInvariant, PTL

\* A Google login state lets one callback through.
THEOREM StateOnce == Spec => []StateUsedOnce
  <1>1. SafetyInv => StateUsedOnce
    BY DEF SafetyInv, StateInv
  <1> QED BY <1>1, SafetyInvariant, PTL
=============================================================================
