----------------------- MODULE ProviderConnectionProofs -----------------------
(***************************************************************************)
(* Proofs about ProviderConnection, for any number of handlers.            *)
(***************************************************************************)
EXTENDS ProviderConnection, TLAPS

-----------------------------------------------------------------------------
(* The records of the handlers *)

Record == TaskOf \cup {NotStarted}

\* The record of t becomes one of the same request, at the given step.
Becomes(t, step, held, new, ok) ==
  /\ task' \in [Tasks -> Record]
  /\ task'[t].kind = task[t].kind
  /\ task'[t].pc = step
  /\ task'[t].held = held
  /\ task'[t].new = new
  /\ task'[t].ok = ok
  /\ \A u \in Tasks \ {t} : task'[u] = task[u]

\* The steps after the last use of the credentials.
AfterUse == {"done", "persist", "degrade", "provider", "report"}

\* Moving on with the given outcome: the credentials are kept or forgotten.
Continues(t, step, ok) ==
  \/ Becomes(t, step, task[t].held, task[t].new, ok)
  \/ step \in AfterUse /\ ~ (Is(t, "refresh") /\ ok) /\ Becomes(t, step, 0, 0, TRUE)

\* The four ways a step updates the record of its handler.
LEMMA RecordUpdates ==
  ASSUME TypeOK, NEW t \in Tasks, ~ At(t, "idle")
  PROVE  /\ task[t] \in TaskOf
         /\ \A step \in Steps \cup {"done"} :
              /\ Go(t, step) => Continues(t, step, task[t].ok)
              /\ Fail(t, step) => Continues(t, step, FALSE)
              /\ Hold(t, step) => Becomes(t, step, cred, task[t].new, task[t].ok)
              /\ Get(t, step) => Becomes(t, step, task[t].held, issued + 1, task[t].ok)
  <1>0. cred \in Nat /\ issued \in Nat /\ task \in [Tasks -> Record]
    BY DEF TypeOK, Record
  <1>1. task[t] \in TaskOf
    BY DEF TypeOK, At, NotStarted
  <1>2. ASSUME NEW r \in TaskOf
        PROVE  /\ Known(r) \in TaskOf
               /\ Known(r).kind = r.kind /\ Known(r).pc = r.pc
               /\ \/ Known(r).held = r.held /\ Known(r).new = r.new /\ Known(r).ok = r.ok
                  \/ /\ r.pc \in AfterUse /\ ~ (r.kind = "refresh" /\ r.ok)
                     /\ Known(r).held = 0 /\ Known(r).new = 0 /\ Known(r).ok = TRUE
    BY <1>2 DEF Known, TaskOf, AfterUse
  <1>3. ASSUME NEW step \in Steps \cup {"done"}, NEW ok \in BOOLEAN,
               task' = [task EXCEPT ![t] = Known([task[t] EXCEPT !.pc = step, !.ok = ok])]
        PROVE  Continues(t, step, ok)
    <2> DEFINE r == [task[t] EXCEPT !.pc = step, !.ok = ok]
    <2>1. /\ r \in TaskOf /\ r.kind = task[t].kind /\ r.pc = step
          /\ r.held = task[t].held /\ r.new = task[t].new /\ r.ok = ok
      BY <1>1 DEF TaskOf
    <2>2. task' = [task EXCEPT ![t] = Known(r)]
      BY <1>3
    <2> HIDE DEF r
    <2>3. /\ task' \in [Tasks -> Record] /\ task'[t] = Known(r)
          /\ \A u \in Tasks \ {t} : task'[u] = task[u]
      BY <1>0, <1>2, <2>1, <2>2 DEF Record
    <2>4. /\ Known(r).kind = task[t].kind /\ Known(r).pc = step
          /\ \/ /\ Known(r).held = task[t].held /\ Known(r).new = task[t].new
                /\ Known(r).ok = ok
             \/ /\ step \in AfterUse /\ ~ (task[t].kind = "refresh" /\ ok)
                /\ Known(r).held = 0 /\ Known(r).new = 0 /\ Known(r).ok = TRUE
      BY <1>2, <2>1
    <2>5. QED
      BY <2>3, <2>4 DEF Continues, Becomes, Is
  <1>4. ASSUME NEW step \in Steps \cup {"done"}, Go(t, step)
        PROVE  Continues(t, step, task[t].ok)
    <2>1. [task[t] EXCEPT !.pc = step] = [task[t] EXCEPT !.pc = step, !.ok = task[t].ok]
          /\ task[t].ok \in BOOLEAN
      BY <1>1 DEF TaskOf
    <2>2. task' = [task EXCEPT ![t] = Known([task[t] EXCEPT !.pc = step])]
      BY <1>0, <1>4 DEF Go
    <2>3. QED
      BY <1>3, <2>1, <2>2
  <1>5. ASSUME NEW step \in Steps \cup {"done"}, Fail(t, step)
        PROVE  Continues(t, step, FALSE)
    <2>1. task' = [task EXCEPT ![t] = Known([task[t] EXCEPT !.pc = step, !.ok = FALSE])]
      BY <1>0, <1>5 DEF Fail
    <2>2. QED
      BY <1>3, <2>1
  <1>6. ASSUME NEW step \in Steps \cup {"done"}, Hold(t, step)
        PROVE  Becomes(t, step, cred, task[t].new, task[t].ok)
    <2>1. [task[t] EXCEPT !.pc = step, !.held = cred] \in TaskOf
      BY <1>0, <1>1 DEF TaskOf
    <2>2. task' = [task EXCEPT ![t] = [task[t] EXCEPT !.pc = step, !.held = cred]]
      BY <1>0, <1>6 DEF Hold
    <2>3. QED
      BY <1>0, <1>1, <2>1, <2>2 DEF Becomes, Record, TaskOf
  <1>7. ASSUME NEW step \in Steps \cup {"done"}, Get(t, step)
        PROVE  Becomes(t, step, task[t].held, issued + 1, task[t].ok)
    <2>0. issued + 1 \in Nat
      BY <1>0
    <2>1. [task[t] EXCEPT !.pc = step, !.new = issued + 1] \in TaskOf
      BY <2>0, <1>1 DEF TaskOf
    <2>2. task' = [task EXCEPT ![t] = [task[t] EXCEPT !.pc = step, !.new = issued + 1]]
      BY <1>0, <1>7 DEF Get
    <2>3. QED
      BY <1>0, <1>1, <2>0, <2>1, <2>2 DEF Becomes, Record, TaskOf
  <1>8. QED
    BY <1>1, <1>4, <1>5, <1>6, <1>7

\* The handler of t goes on with one of the given steps; the others stay.
Leads(t, steps) ==
  /\ task' \in [Tasks -> Record]
  /\ task'[t].kind = task[t].kind /\ task'[t].pc \in steps
  /\ \A u \in Tasks \ {t} : task'[u] = task[u]

\* Where the handlers that fail go on.
FailureSteps(t) ==
  CASE Is(t, "refresh")  -> {"reauth", "unlock"}
    [] Is(t, "discover") -> {"unlock", "degrade", "done"}
    [] OTHER             -> {"degrade", "done"}

\* The control flow of the handlers: the step that follows each action.
LEMMA ControlFlow ==
  ASSUME TypeOK, NEW t \in Tasks
  PROVE  /\ Exchange(t) => Leads(t, {"saveconn", "done"})
         /\ LoadToDisconnect(t) => Leads(t, {"dropcred", "done"})
         /\ LoadToRefresh(t) => Leads(t, {"call", "unlock"})
         /\ LoadToDiscover(t) => Leads(t, {"lock", "done"})
         /\ LoadToRead(t) => Leads(t, {"call", "provider", "degrade", "done"})
         /\ Lock(t) /\ lease = None /\ lease' = t =>
              Leads(t, {"load", "call", "unlock", "degrade", "done"})
         /\ Lock(t) /\ ~ (lease = None /\ lease' = t) => Leads(t, {"degrade", "done"})
         /\ Unlock(t) => Leads(t, {"provider", "degrade", "done"})
         /\ CallReturns(t) => Leads(t, {"store"} \cup FailureSteps(t))
         /\ StoreForRead(t) => Leads(t, FailureSteps(t) \cup {"unlock", "provider"})
         /\ StoreCredential(t) => Leads(t, IF cred = 0 THEN {"reauth"} ELSE {"storeconn"})
         /\ StoreConnection(t) => Leads(t, {"report"})
         /\ Reauth(t) => Leads(t, {"unlock"})
         /\ SaveConnection(t) => Leads(t, {"savecred"})
         /\ SaveCredential(t) => Leads(t, {"provider"})
         /\ DropCredential(t) => Leads(t, {"dropconn"})
         /\ DropConnection(t) => Leads(t, {"done"})
         /\ ProviderAnswers(t) => Leads(t, {"persist", "degrade", "done"})
         /\ Persist(t) => Leads(t, {"report"})
         /\ Report(t) => Leads(t, IF Is(t, "refresh") THEN {"unlock"} ELSE {"done"})
         /\ Degrade(t) => Leads(t, {"done"})
         /\ Die(t) => Leads(t, {"done"})
         /\ DatabaseFails(t) =>
              \/ task[t].pc \in {"load", "report"} /\ Is(t, "refresh") /\ Leads(t, {"unlock", "reauth"})
              \/ At(t, "reauth") /\ Leads(t, {"unlock"})
              \/ task[t].pc \in {"store", "storeconn"} /\ Leads(t, FailureSteps(t))
              \/ Leads(t, {"degrade", "done"})
  <1> DEFINE All == Steps \cup {"done"}
  <1>1. ASSUME NEW step \in All, NEW steps, step \in steps, ~ At(t, "idle"),
               Go(t, step) \/ Fail(t, step) \/ Hold(t, step) \/ Get(t, step)
        PROVE  Leads(t, steps)
    <2>1. \E h, n, ok : Becomes(t, step, h, n, ok)
      BY <1>1, RecordUpdates DEF Continues
    <2>2. QED
      BY <1>1, <2>1 DEF Leads, Becomes
  <1>2. Exchange(t) => Leads(t, {"saveconn", "done"})
    BY <1>1 DEF Exchange, At, Is, Steps
  <1>3. LoadToDisconnect(t) => Leads(t, {"dropcred", "done"})
    BY <1>1 DEF LoadToDisconnect, At, Is, Steps
  <1>4. LoadToRefresh(t) => Leads(t, {"call", "unlock"})
    BY <1>1 DEF LoadToRefresh, At, Is, Steps
  <1>5. LoadToDiscover(t) => Leads(t, {"lock", "done"})
    BY <1>1 DEF LoadToDiscover, At, Is, Steps
  <1>6. LoadToRead(t) => Leads(t, {"call", "provider", "degrade", "done"})
    BY <1>1 DEF LoadToRead, ReadFails, At, Is, Steps
  <1>7. Lock(t) /\ lease = None /\ lease' = t =>
          Leads(t, {"load", "call", "unlock", "degrade", "done"})
    BY <1>1, ProviderConnectionAssumption DEF Lock, At, Is, Steps
  <1>8. Lock(t) /\ ~ (lease = None /\ lease' = t) => Leads(t, {"degrade", "done"})
    BY <1>1 DEF Lock, At, Is, Steps
  <1>9. Unlock(t) => Leads(t, {"provider", "degrade", "done"})
    BY <1>1 DEF Unlock, At, Is, Steps
  <1>10. CallReturns(t) => Leads(t, {"store"} \cup FailureSteps(t))
    BY <1>1 DEF CallReturns, RefreshFails, ReadFails, FailureSteps, At, Is, Steps
  <1>11. StoreForRead(t) => Leads(t, FailureSteps(t) \cup {"unlock", "provider"})
    BY <1>1 DEF StoreForRead, RefreshFails, ReadFails, FailureSteps, At, Is, Steps
  <1>12. StoreCredential(t) => Leads(t, IF cred = 0 THEN {"reauth"} ELSE {"storeconn"})
    BY <1>1 DEF StoreCredential, RefreshFails, At, Is, Steps
  <1>13. StoreConnection(t) => Leads(t, {"report"})
    BY <1>1 DEF StoreConnection, At, Is, Steps
  <1>14. Reauth(t) => Leads(t, {"unlock"})
    BY <1>1 DEF Reauth, At, Is, Steps
  <1>15. SaveConnection(t) => Leads(t, {"savecred"})
    BY <1>1 DEF SaveConnection, At, Is, Steps
  <1>16. SaveCredential(t) => Leads(t, {"provider"})
    BY <1>1 DEF SaveCredential, At, Is, Steps
  <1>17. DropCredential(t) => Leads(t, {"dropconn"})
    BY <1>1 DEF DropCredential, At, Is, Steps
  <1>18. DropConnection(t) => Leads(t, {"done"})
    BY <1>1 DEF DropConnection, At, Is, Steps
  <1>19. ProviderAnswers(t) => Leads(t, {"persist", "degrade", "done"})
    BY <1>1 DEF ProviderAnswers, ReadFails, At, Is, Steps
  <1>20. Persist(t) => Leads(t, {"report"})
    BY <1>1 DEF Persist, At, Is, Steps
  <1>21. Report(t) => Leads(t, IF Is(t, "refresh") THEN {"unlock"} ELSE {"done"})
    BY <1>1 DEF Report, At, Is, Steps
  <1>22. Degrade(t) => Leads(t, {"done"})
    BY <1>1 DEF Degrade, At, Is, Steps
  <1>23. Die(t) => Leads(t, {"done"})
    BY <1>1 DEF Die, At, Is, Steps
  <1>24. ASSUME DatabaseFails(t)
         PROVE  \/ task[t].pc \in {"load", "report"} /\ Is(t, "refresh") /\ Leads(t, {"unlock", "reauth"})
                \/ At(t, "reauth") /\ Leads(t, {"unlock"})
                \/ task[t].pc \in {"store", "storeconn"} /\ Leads(t, FailureSteps(t))
                \/ Leads(t, {"degrade", "done"})
    <2>1. AfterFailure(t)
      BY <1>24 DEF DatabaseFails
    <2>2. QED
      BY <1>1, <2>1 DEF AfterFailure, ReadFails, RefreshFails, FailureSteps, At, Is, Steps
  <1>25. QED
    BY <1>2, <1>3, <1>4, <1>5, <1>6, <1>7, <1>8, <1>9, <1>10, <1>11, <1>12, <1>13,
       <1>14, <1>15, <1>16, <1>17, <1>18, <1>19, <1>20, <1>21, <1>22, <1>23, <1>24

LEMMA StartFlow ==
  ASSUME TypeOK, NEW t \in Tasks, NEW kind \in Kinds, Start(t, kind)
  PROVE  /\ task' \in [Tasks -> Record]
         /\ task'[t].kind = kind /\ task'[t].pc \in {"exchange", "lock", "load"}
         /\ task'[t].held = 0 /\ task'[t].new = 0
         /\ kind = "refresh" => task'[t].pc = "lock"
         /\ \A u \in Tasks \ {t} : task'[u] = task[u]
  <1>1. task \in [Tasks -> Record] /\ task[t] \in Record
    BY DEF TypeOK, Record
  <1>2. FirstStep(kind) \in {"exchange", "lock", "load"} /\ FirstStep("refresh") = "lock"
    BY DEF FirstStep, Kinds
  <1>3. task[t] = NotStarted
    BY <1>1 DEF Start, At, Record, TaskOf, Steps
  <1>4. ASSUME NEW step \in Steps
        PROVE  LET r == [NotStarted EXCEPT !.kind = kind, !.pc = step]
               IN  r \in TaskOf /\ r.kind = kind /\ r.pc = step /\ r.held = 0 /\ r.new = 0
    BY DEF NotStarted, TaskOf
  <1> DEFINE r == [NotStarted EXCEPT !.kind = kind, !.pc = FirstStep(kind)]
  <1>5. r \in TaskOf /\ r.kind = kind /\ r.pc = FirstStep(kind) /\ r.held = 0 /\ r.new = 0
    BY <1>2, <1>4 DEF Steps
  <1>6. task' = [task EXCEPT ![t] = r]
    BY <1>1, <1>3 DEF Start
  <1> HIDE DEF r
  <1>7. QED
    BY <1>1, <1>2, <1>5, <1>6 DEF Record

-----------------------------------------------------------------------------
(* Types *)

LEMMA TypeStep == TypeOK /\ [Next]_vars => TypeOK'
  <1> SUFFICES ASSUME TypeOK, [Next]_vars PROVE TypeOK'
    OBVIOUS
  <1> USE DEF rowVars, lockVars, tokenVars
  <1>1. ASSUME NEW t \in Tasks, NEW kind \in Kinds, Start(t, kind) PROVE TypeOK'
    BY <1>1, StartFlow DEF TypeOK, Start, Record
  <1>2. ASSUME NEW t \in Tasks, TaskStep(t) \/ Die(t) PROVE TypeOK'
    <2>0. task[t].new \in Nat
      BY DEF TypeOK, TaskOf, NotStarted
    <2>1. CASE Exchange(t)
      BY <2>0, <2>1, ControlFlow DEF TypeOK, Leads, Record, Exchange
    <2>2. CASE LoadToDisconnect(t)
      BY <2>0, <2>2, ControlFlow DEF TypeOK, Leads, Record, LoadToDisconnect
    <2>3. CASE LoadToRefresh(t)
      BY <2>0, <2>3, ControlFlow DEF TypeOK, Leads, Record, LoadToRefresh
    <2>4. CASE LoadToDiscover(t)
      BY <2>0, <2>4, ControlFlow DEF TypeOK, Leads, Record, LoadToDiscover
    <2>5. CASE LoadToRead(t)
      BY <2>0, <2>5, ControlFlow DEF TypeOK, Leads, Record, LoadToRead
    <2>6. CASE Lock(t)
      BY <2>0, <2>6, ControlFlow DEF TypeOK, Leads, Record, Lock
    <2>7. CASE Unlock(t)
      BY <2>0, <2>7, ControlFlow DEF TypeOK, Leads, Record, Unlock, Released
    <2>8. CASE CallReturns(t)
      BY <2>0, <2>8, ControlFlow DEF TypeOK, Leads, Record, CallReturns
    <2>9. CASE StoreForRead(t)
      BY <2>0, <2>9, ControlFlow DEF TypeOK, Leads, Record, StoreForRead
    <2>10. CASE StoreCredential(t)
      BY <2>0, <2>10, ControlFlow DEF TypeOK, Leads, Record, StoreCredential
    <2>11. CASE StoreConnection(t)
      BY <2>0, <2>11, ControlFlow DEF TypeOK, Leads, Record, StoreConnection, Statuses
    <2>12. CASE Reauth(t)
      BY <2>0, <2>12, ControlFlow DEF TypeOK, Leads, Record, Reauth, Statuses
    <2>13. CASE SaveConnection(t)
      BY <2>0, <2>13, ControlFlow DEF TypeOK, Leads, Record, SaveConnection
    <2>14. CASE SaveCredential(t)
      BY <2>0, <2>14, ControlFlow
        DEF TypeOK, Leads, Record, SaveCredential, Authorized, Statuses
    <2>15. CASE DropCredential(t)
      BY <2>0, <2>15, ControlFlow DEF TypeOK, Leads, Record, DropCredential
    <2>16. CASE DropConnection(t)
      BY <2>0, <2>16, ControlFlow DEF TypeOK, Leads, Record, DropConnection, Statuses
    <2>17. CASE ProviderAnswers(t)
      BY <2>0, <2>17, ControlFlow DEF TypeOK, Leads, Record, ProviderAnswers
    <2>18. CASE Persist(t)
      BY <2>0, <2>18, ControlFlow DEF TypeOK, Leads, Record, Persist, Statuses
    <2>19. CASE Report(t)
      BY <2>0, <2>19, ControlFlow DEF TypeOK, Leads, Record, Report
    <2>20. CASE Degrade(t)
      BY <2>0, <2>20, ControlFlow DEF TypeOK, Leads, Record, Degrade, Statuses
    <2>21. CASE DatabaseFails(t)
      BY <2>0, <2>21, ControlFlow DEF TypeOK, Leads, Record, DatabaseFails, Free
    <2>22. CASE Die(t)
      BY <2>0, <2>22, ControlFlow DEF TypeOK, Leads, Record, Die, Free
    <2>23. QED
      BY <1>2, <2>1, <2>2, <2>3, <2>4, <2>5, <2>6, <2>7, <2>8, <2>9, <2>10, <2>11, <2>12,
         <2>13, <2>14, <2>15, <2>16, <2>17, <2>18, <2>19, <2>20, <2>21, <2>22 DEF TaskStep
  <1>3. CASE LeaseExpires
    BY <1>3 DEF TypeOK, LeaseExpires
  <1>4. ASSUME NEW c \in 1..issued, Expire(c) PROVE TypeOK'
    BY <1>4 DEF TypeOK, Expire
  <1>5. CASE UNCHANGED vars
    BY <1>5 DEF TypeOK, vars
  <1>6. QED
    BY <1>1, <1>2, <1>3, <1>4, <1>5 DEF Next

LEMMA TypeInit == Init => TypeOK
  BY DEF Init, TypeOK, Statuses

\* TypeOK: every handler is at one of its steps, and the rows, the lock and the
\* credentials have the values provider.service.ts can give them.
THEOREM TypeCorrect == Spec => []TypeOK
  BY TypeInit, TypeStep, PTL DEF Spec

-----------------------------------------------------------------------------
(* The lock and the rows *)

\* Only the explicit refresh stores in a transaction and asks for a new login.
OfRefresh == \A t \in Tasks : task[t].pc \in {"storeconn", "reauth"} => Is(t, "refresh")

\* Between its two statements a refresh has the credential row to itself, and
\* there is one: nobody deletes the row it updated.
CredentialLocked == \A t \in Tasks : At(t, "storeconn") => credLock = t /\ cred # 0

LockInv == TypeOK /\ OfRefresh /\ LeaseIsMine /\ CredentialLocked

LEMMA LockInit == Init => LockInv
  BY TypeInit DEF Init, LockInv, OfRefresh, LeaseIsMine, CredentialLocked, InLock, Is, At,
    NotStarted

LEMMA LockStep == LockInv /\ [Next]_vars => LockInv'
  <1> SUFFICES ASSUME LockInv, [Next]_vars
               PROVE  (OfRefresh /\ LeaseIsMine /\ CredentialLocked)'
    BY TypeStep DEF LockInv
  <1> USE DEF rowVars, lockVars, tokenVars
  <1>0. TypeOK /\ OfRefresh /\ LeaseIsMine /\ CredentialLocked
    BY DEF LockInv
  <1>1. ASSUME NEW t \in Tasks, NEW kind \in Kinds, Start(t, kind)
        PROVE  (OfRefresh /\ LeaseIsMine /\ CredentialLocked)'
    BY <1>0, <1>1, StartFlow
      DEF Start, OfRefresh, LeaseIsMine, CredentialLocked, InLock, Is, At
  <1>2. ASSUME NEW t \in Tasks, TaskStep(t) \/ Die(t)
        PROVE  (OfRefresh /\ LeaseIsMine /\ CredentialLocked)'
    <2>1. CASE Exchange(t)
      <3>1. OfRefresh'
        BY <1>0, <2>1, ControlFlow DEF Exchange, Leads, OfRefresh, Is, At
      <3>2. LeaseIsMine'
        BY <1>0, <2>1, ControlFlow
          DEF Exchange, Leads, OfRefresh, LeaseIsMine, InLock, Is, At
      <3>3. CredentialLocked'
        BY <1>0, <2>1, ControlFlow DEF Exchange, Leads, CredentialLocked, Is, At
      <3>4. QED
        BY <3>1, <3>2, <3>3
    <2>2. CASE LoadToDisconnect(t)
      <3>1. OfRefresh'
        BY <1>0, <2>2, ControlFlow DEF LoadToDisconnect, Leads, OfRefresh, Is, At
      <3>2. LeaseIsMine'
        BY <1>0, <2>2, ControlFlow
          DEF LoadToDisconnect, Leads, OfRefresh, LeaseIsMine, InLock, Is, At
      <3>3. CredentialLocked'
        BY <1>0, <2>2, ControlFlow DEF LoadToDisconnect, Leads, CredentialLocked, Is, At
      <3>4. QED
        BY <3>1, <3>2, <3>3
    <2>3. CASE LoadToRefresh(t)
      <3>1. OfRefresh'
        BY <1>0, <2>3, ControlFlow DEF LoadToRefresh, Leads, OfRefresh, Is, At
      <3>2. LeaseIsMine'
        BY <1>0, <2>3, ControlFlow
          DEF LoadToRefresh, Leads, OfRefresh, LeaseIsMine, InLock, Is, At
      <3>3. CredentialLocked'
        BY <1>0, <2>3, ControlFlow DEF LoadToRefresh, Leads, CredentialLocked, Is, At
      <3>4. QED
        BY <3>1, <3>2, <3>3
    <2>4. CASE LoadToDiscover(t)
      <3>1. OfRefresh'
        BY <1>0, <2>4, ControlFlow DEF LoadToDiscover, Leads, OfRefresh, Is, At
      <3>2. LeaseIsMine'
        BY <1>0, <2>4, ControlFlow
          DEF LoadToDiscover, Leads, OfRefresh, LeaseIsMine, InLock, Is, At
      <3>3. CredentialLocked'
        BY <1>0, <2>4, ControlFlow DEF LoadToDiscover, Leads, CredentialLocked, Is, At
      <3>4. QED
        BY <3>1, <3>2, <3>3
    <2>5. CASE LoadToRead(t)
      <3>1. OfRefresh'
        BY <1>0, <2>5, ControlFlow DEF LoadToRead, Leads, OfRefresh, Is, At
      <3>2. LeaseIsMine'
        BY <1>0, <2>5, ControlFlow
          DEF LoadToRead, Leads, OfRefresh, LeaseIsMine, InLock, Is, At
      <3>3. CredentialLocked'
        BY <1>0, <2>5, ControlFlow DEF LoadToRead, Leads, CredentialLocked, Is, At
      <3>4. QED
        BY <3>1, <3>2, <3>3
    <2>6. CASE Lock(t)
      <3>1. OfRefresh'
        BY <1>0, <2>6, ControlFlow, ProviderConnectionAssumption
          DEF Lock, Leads, OfRefresh, Is, At
      <3>2. LeaseIsMine'
        BY <1>0, <2>6, ControlFlow, ProviderConnectionAssumption
          DEF Lock, Leads, OfRefresh, LeaseIsMine, InLock, Is, At
      <3>3. CredentialLocked'
        BY <1>0, <2>6, ControlFlow, ProviderConnectionAssumption
          DEF Lock, Leads, CredentialLocked, Is, At
      <3>4. QED
        BY <3>1, <3>2, <3>3
    <2>7. CASE Unlock(t)
      <3>1. OfRefresh'
        BY <1>0, <2>7, ControlFlow, ProviderConnectionAssumption
          DEF Unlock, Leads, OfRefresh, Is, At, Released
      <3>2. LeaseIsMine'
        BY <1>0, <2>7, ControlFlow, ProviderConnectionAssumption
          DEF Unlock, Leads, OfRefresh, LeaseIsMine, InLock, Is, At, Released
      <3>3. CredentialLocked'
        BY <1>0, <2>7, ControlFlow, ProviderConnectionAssumption
          DEF Unlock, Leads, CredentialLocked, Is, At, Released
      <3>4. QED
        BY <3>1, <3>2, <3>3
    <2>8. CASE CallReturns(t)
      <3>1. OfRefresh'
        BY <1>0, <2>8, ControlFlow DEF CallReturns, Leads, OfRefresh, Is, At, FailureSteps
      <3>2. LeaseIsMine'
        BY <1>0, <2>8, ControlFlow
          DEF CallReturns, Leads, OfRefresh, LeaseIsMine, InLock, Is, At, FailureSteps
      <3>3. CredentialLocked'
        BY <1>0, <2>8, ControlFlow
          DEF CallReturns, Leads, CredentialLocked, Is, At, FailureSteps
      <3>4. QED
        BY <3>1, <3>2, <3>3
    <2>9. CASE StoreForRead(t)
      <3>1. OfRefresh'
        BY <1>0, <2>9, ControlFlow, ProviderConnectionAssumption
          DEF StoreForRead, Leads, OfRefresh, Is, At, FailureSteps
      <3>2. LeaseIsMine'
        BY <1>0, <2>9, ControlFlow, ProviderConnectionAssumption
          DEF StoreForRead, Leads, OfRefresh, LeaseIsMine, InLock, Is, At, FailureSteps
      <3>3. CredentialLocked'
        BY <1>0, <2>9, ControlFlow, ProviderConnectionAssumption
          DEF StoreForRead, Leads, CredentialLocked, Is, At, FailureSteps
      <3>4. QED
        BY <3>1, <3>2, <3>3
    <2>10. CASE StoreCredential(t)
      <3>1. OfRefresh'
        BY <1>0, <2>10, ControlFlow DEF StoreCredential, Leads, OfRefresh, Is, At
      <3>2. LeaseIsMine'
        BY <1>0, <2>10, ControlFlow
          DEF StoreCredential, Leads, OfRefresh, LeaseIsMine, InLock, Is, At
      <3>3. CredentialLocked'
        BY <1>0, <2>10, ControlFlow, ProviderConnectionAssumption
          DEF StoreCredential, Leads, CredentialLocked, Is, At
      <3>4. QED
        BY <3>1, <3>2, <3>3
    <2>11. CASE StoreConnection(t)
      <3>1. OfRefresh'
        BY <1>0, <2>11, ControlFlow, ProviderConnectionAssumption
          DEF StoreConnection, Leads, OfRefresh, Is, At
      <3>2. LeaseIsMine'
        BY <1>0, <2>11, ControlFlow, ProviderConnectionAssumption
          DEF StoreConnection, Leads, OfRefresh, LeaseIsMine, InLock, Is, At
      <3>3. CredentialLocked'
        BY <1>0, <2>11, ControlFlow, ProviderConnectionAssumption
          DEF StoreConnection, Leads, CredentialLocked, Is, At
      <3>4. QED
        BY <3>1, <3>2, <3>3
    <2>12. CASE Reauth(t)
      <3>1. OfRefresh'
        BY <1>0, <2>12, ControlFlow DEF Reauth, Leads, OfRefresh, Is, At
      <3>2. LeaseIsMine'
        BY <1>0, <2>12, ControlFlow
          DEF Reauth, Leads, OfRefresh, LeaseIsMine, InLock, Is, At
      <3>3. CredentialLocked'
        BY <1>0, <2>12, ControlFlow DEF Reauth, Leads, CredentialLocked, Is, At
      <3>4. QED
        BY <3>1, <3>2, <3>3
    <2>13. CASE SaveConnection(t)
      <3>1. OfRefresh'
        BY <1>0, <2>13, ControlFlow DEF SaveConnection, Leads, OfRefresh, Is, At
      <3>2. LeaseIsMine'
        BY <1>0, <2>13, ControlFlow
          DEF SaveConnection, Leads, OfRefresh, LeaseIsMine, InLock, Is, At
      <3>3. CredentialLocked'
        BY <1>0, <2>13, ControlFlow DEF SaveConnection, Leads, CredentialLocked, Is, At
      <3>4. QED
        BY <3>1, <3>2, <3>3
    <2>14. CASE SaveCredential(t)
      <3>1. OfRefresh'
        BY <1>0, <2>14, ControlFlow, ProviderConnectionAssumption
          DEF SaveCredential, Leads, OfRefresh, Is, At
      <3>2. LeaseIsMine'
        BY <1>0, <2>14, ControlFlow, ProviderConnectionAssumption
          DEF SaveCredential, Leads, OfRefresh, LeaseIsMine, InLock, Is, At
      <3>3. CredentialLocked'
        BY <1>0, <2>14, ControlFlow, ProviderConnectionAssumption
          DEF SaveCredential, Leads, CredentialLocked, Is, At
      <3>4. QED
        BY <3>1, <3>2, <3>3
    <2>15. CASE DropCredential(t)
      <3>1. OfRefresh'
        BY <1>0, <2>15, ControlFlow DEF DropCredential, Leads, OfRefresh, Is, At
      <3>2. LeaseIsMine'
        BY <1>0, <2>15, ControlFlow
          DEF DropCredential, Leads, OfRefresh, LeaseIsMine, InLock, Is, At
      <3>3. CredentialLocked'
        BY <1>0, <2>15, ControlFlow, ProviderConnectionAssumption
          DEF DropCredential, Leads, CredentialLocked, Is, At
      <3>4. QED
        BY <3>1, <3>2, <3>3
    <2>16. CASE DropConnection(t)
      <3>1. OfRefresh'
        BY <1>0, <2>16, ControlFlow, ProviderConnectionAssumption
          DEF DropConnection, Leads, OfRefresh, Is, At
      <3>2. LeaseIsMine'
        BY <1>0, <2>16, ControlFlow, ProviderConnectionAssumption
          DEF DropConnection, Leads, OfRefresh, LeaseIsMine, InLock, Is, At
      <3>3. CredentialLocked'
        BY <1>0, <2>16, ControlFlow, ProviderConnectionAssumption
          DEF DropConnection, Leads, CredentialLocked, Is, At
      <3>4. QED
        BY <3>1, <3>2, <3>3
    <2>17. CASE ProviderAnswers(t)
      <3>1. OfRefresh'
        BY <1>0, <2>17, ControlFlow DEF ProviderAnswers, Leads, OfRefresh, Is, At
      <3>2. LeaseIsMine'
        BY <1>0, <2>17, ControlFlow
          DEF ProviderAnswers, Leads, OfRefresh, LeaseIsMine, InLock, Is, At
      <3>3. CredentialLocked'
        BY <1>0, <2>17, ControlFlow DEF ProviderAnswers, Leads, CredentialLocked, Is, At
      <3>4. QED
        BY <3>1, <3>2, <3>3
    <2>18. CASE Persist(t)
      <3>1. OfRefresh'
        BY <1>0, <2>18, ControlFlow DEF Persist, Leads, OfRefresh, Is, At
      <3>2. LeaseIsMine'
        BY <1>0, <2>18, ControlFlow
          DEF Persist, Leads, OfRefresh, LeaseIsMine, InLock, Is, At
      <3>3. CredentialLocked'
        BY <1>0, <2>18, ControlFlow DEF Persist, Leads, CredentialLocked, Is, At
      <3>4. QED
        BY <3>1, <3>2, <3>3
    <2>19. CASE Report(t)
      <3>1. OfRefresh'
        BY <1>0, <2>19, ControlFlow DEF Report, Leads, OfRefresh, Is, At
      <3>2. LeaseIsMine'
        BY <1>0, <2>19, ControlFlow
          DEF Report, Leads, OfRefresh, LeaseIsMine, InLock, Is, At
      <3>3. CredentialLocked'
        BY <1>0, <2>19, ControlFlow DEF Report, Leads, CredentialLocked, Is, At
      <3>4. QED
        BY <3>1, <3>2, <3>3
    <2>20. CASE Degrade(t)
      <3>1. OfRefresh'
        BY <1>0, <2>20, ControlFlow DEF Degrade, Leads, OfRefresh, Is, At
      <3>2. LeaseIsMine'
        BY <1>0, <2>20, ControlFlow
          DEF Degrade, Leads, OfRefresh, LeaseIsMine, InLock, Is, At
      <3>3. CredentialLocked'
        BY <1>0, <2>20, ControlFlow DEF Degrade, Leads, CredentialLocked, Is, At
      <3>4. QED
        BY <3>1, <3>2, <3>3
    <2>21. CASE DatabaseFails(t)
      <3>1. OfRefresh'
        BY <1>0, <2>21, ControlFlow, ProviderConnectionAssumption
          DEF DatabaseFails, Leads, OfRefresh, Is, At, Free, FailureSteps
      <3>2. LeaseIsMine'
        BY <1>0, <2>21, ControlFlow, ProviderConnectionAssumption
          DEF DatabaseFails, Leads, OfRefresh, LeaseIsMine, InLock, Is, At, Free, FailureSteps
      <3>3. CredentialLocked'
        BY <1>0, <2>21, ControlFlow, ProviderConnectionAssumption
          DEF DatabaseFails, Leads, CredentialLocked, Is, At, Free, FailureSteps
      <3>4. QED
        BY <3>1, <3>2, <3>3
    <2>22. CASE Die(t)
      <3>1. OfRefresh'
        BY <1>0, <2>22, ControlFlow, ProviderConnectionAssumption
          DEF Die, Leads, OfRefresh, Is, At, Free
      <3>2. LeaseIsMine'
        BY <1>0, <2>22, ControlFlow, ProviderConnectionAssumption
          DEF Die, Leads, OfRefresh, LeaseIsMine, InLock, Is, At, Free
      <3>3. CredentialLocked'
        BY <1>0, <2>22, ControlFlow, ProviderConnectionAssumption
          DEF Die, Leads, CredentialLocked, Is, At, Free
      <3>4. QED
        BY <3>1, <3>2, <3>3
    <2>23. QED
      BY <1>2, <2>1, <2>2, <2>3, <2>4, <2>5, <2>6, <2>7, <2>8, <2>9, <2>10, <2>11, <2>12,
         <2>13, <2>14, <2>15, <2>16, <2>17, <2>18, <2>19, <2>20, <2>21, <2>22 DEF TaskStep
  <1>3. CASE LeaseExpires
    BY <1>0, <1>3 DEF LeaseExpires, OfRefresh, LeaseIsMine, CredentialLocked, InLock, Is, At
  <1>4. ASSUME NEW c \in 1..issued, Expire(c)
        PROVE  (OfRefresh /\ LeaseIsMine /\ CredentialLocked)'
    BY <1>0, <1>4 DEF Expire, OfRefresh, LeaseIsMine, CredentialLocked, InLock, Is, At
  <1>5. CASE UNCHANGED vars
    BY <1>0, <1>5 DEF vars, OfRefresh, LeaseIsMine, CredentialLocked, InLock, Is, At
  <1>6. QED
    BY <1>1, <1>2, <1>3, <1>4, <1>5 DEF Next

\* LeaseIsMine: withLock excludes while leases last, and its compare-and-delete
\* (refresh-coordinator.service.ts) never releases the lock of another handler.
THEOREM LockExcludes == Spec => []LeaseIsMine
  <1>1. LockInv => LeaseIsMine
    BY DEF LockInv
  <1>2. QED
    BY LockInit, LockStep, <1>1, PTL DEF Spec

\* What a step does to the stored credential.
LEMMA CredentialStep ==
  LockInv /\ [Next]_vars =>
    (cred = 0 /\ cred' # 0 => \E t \in Tasks : At(t, "savecred") /\ ~ At(t, "savecred")')
  <1> SUFFICES ASSUME LockInv, [Next]_vars, cred = 0, cred' # 0
               PROVE  \E t \in Tasks : At(t, "savecred") /\ ~ At(t, "savecred")'
    OBVIOUS
  <1> USE DEF rowVars, lockVars, tokenVars
  <1>1. PICK t \in Tasks : TaskStep(t) \/ Die(t)
    BY DEF Next, Start, LeaseExpires, Expire, vars
  <1>2. ~ StoreConnection(t)
    BY DEF LockInv, CredentialLocked, StoreConnection
  <1>3. SaveCredential(t)
    BY <1>1, <1>2 DEF TaskStep, Exchange, LoadToDisconnect, LoadToRefresh, LoadToDiscover,
      LoadToRead, Lock, Unlock, CallReturns, StoreForRead, StoreCredential, Reauth,
      SaveConnection, DropCredential, DropConnection, ProviderAnswers, Persist, Report, Degrade,
      DatabaseFails, Die
  <1>4. Leads(t, {"provider"})
    BY <1>3, ControlFlow DEF LockInv
  <1>5. QED
    BY <1>3, <1>4 DEF SaveCredential, Leads, At

\* OnlyOAuthCreatesCredential: a refresh that was under way at a disconnect
\* never brings the deleted credential back; only the callback stores one anew.
THEOREM OnlyOAuthCreates == Spec => OnlyOAuthCreatesCredential
  <1>1. LockInv /\ [Next]_vars =>
          [cred = 0 /\ cred' # 0 =>
             \E t \in Tasks : At(t, "savecred") /\ ~ At(t, "savecred")']_vars
    BY CredentialStep
  <1>2. QED
    BY LockInit, LockStep, <1>1, PTL DEF Spec, OnlyOAuthCreatesCredential

-----------------------------------------------------------------------------
(* Credentials *)

PendingSteps == {"store", "storeconn", "saveconn", "savecred"}

\* The handler has a new credential from the provider and has not stored it.
Pending(t) == task[t].pc \in PendingSteps

\* A pending credential is nowhere else yet.
TokenInv ==
  /\ cred <= issued
  /\ \A t \in Tasks :
       /\ task[t].held <= issued /\ task[t].new <= issued
       /\ Pending(t) =>
            /\ task[t].new # 0 /\ task[t].new # cred
            /\ \A u \in Tasks :
                 /\ task[u].held # task[t].new
                 /\ Pending(u) /\ u # t => task[u].new # task[t].new

\* The ways a step moves credentials: the handler of t keeps or forgets what it
\* has, takes the stored credential, or gets a new one from the provider.
Others(t) ==
  /\ task' \in [Tasks -> Record]
  /\ \A u \in Tasks \ {t} : task'[u] = task[u]
Keeps(t) ==
  /\ Others(t)
  /\ task'[t].held \in {task[t].held, 0}
  /\ task'[t].new \in {task[t].new, 0}
  /\ Pending(t)' => Pending(t) /\ task'[t].new = task[t].new
Takes(t) ==
  /\ Others(t) /\ ~ Pending(t)'
  /\ task'[t].held = cred /\ task'[t].new = task[t].new
Gets(t) ==
  /\ Others(t)
  /\ task'[t].held = task[t].held /\ task'[t].new = issued + 1

\* What each action does with credentials.
LEMMA CredentialFlow ==
  ASSUME TypeOK, NEW t \in Tasks
  PROVE  /\ Exchange(t) => (Keeps(t) /\ issued' = issued) \/ (Gets(t) /\ issued' = issued + 1)
         /\ CallReturns(t) => (Keeps(t) /\ issued' = issued) \/ (Gets(t) /\ issued' = issued + 1)
         /\ LoadToRefresh(t) \/ LoadToDiscover(t) \/ LoadToRead(t) => Keeps(t) \/ Takes(t)
         /\ \/ LoadToDisconnect(t) \/ Lock(t) \/ Unlock(t) \/ StoreForRead(t) \/ StoreCredential(t)
            \/ StoreConnection(t) \/ Reauth(t) \/ SaveConnection(t) \/ SaveCredential(t) \/ DropCredential(t)
            \/ DropConnection(t) \/ ProviderAnswers(t) \/ Persist(t) \/ Report(t) \/ Degrade(t)
            \/ DatabaseFails(t) \/ Die(t)
            => Keeps(t)
  <1> DEFINE All == Steps \cup {"done"}
  <1>1. ASSUME NEW step \in All, ~ At(t, "idle"), Go(t, step) \/ Fail(t, step),
               step \in PendingSteps => Pending(t) /\ step \in {"storeconn", "savecred"}
        PROVE  Keeps(t)
    <2>1. PICK ok : Continues(t, step, ok)
      BY <1>1, RecordUpdates
    <2>2. QED
      BY <1>1, <2>1 DEF Continues, Becomes, AfterUse, Keeps, Others, Pending, PendingSteps
  <1>2. ASSUME NEW step \in All \ PendingSteps, ~ At(t, "idle"), Hold(t, step)
        PROVE  Takes(t)
    BY <1>2, RecordUpdates DEF Becomes, Takes, Others, Pending, PendingSteps
  <1>3. ASSUME NEW step \in All, ~ At(t, "idle"), Get(t, step)
        PROVE  Gets(t)
    BY <1>3, RecordUpdates DEF Becomes, Gets, Others
  <1>4. Exchange(t) => (Keeps(t) /\ issued' = issued) \/ (Gets(t) /\ issued' = issued + 1)
    BY <1>1, <1>3 DEF Exchange, At, Steps, PendingSteps
  <1>5. CallReturns(t) => (Keeps(t) /\ issued' = issued) \/ (Gets(t) /\ issued' = issued + 1)
    BY <1>1, <1>3 DEF CallReturns, RefreshFails, ReadFails, At, Is, Steps, PendingSteps
  <1>6. LoadToRefresh(t) => Keeps(t) \/ Takes(t)
    BY <1>1, <1>2 DEF LoadToRefresh, At, Is, Steps, PendingSteps
  <1>7. LoadToDiscover(t) => Keeps(t) \/ Takes(t)
    BY <1>1, <1>2 DEF LoadToDiscover, At, Is, Steps, PendingSteps
  <1>8. LoadToRead(t) => Keeps(t) \/ Takes(t)
    BY <1>1, <1>2 DEF LoadToRead, ReadFails, At, Is, Steps, PendingSteps
  <1>9. LoadToDisconnect(t) => Keeps(t)
    BY <1>1 DEF LoadToDisconnect, At, Is, Steps, PendingSteps
  <1>10. Lock(t) => Keeps(t)
    BY <1>1 DEF Lock, At, Is, Steps, PendingSteps
  <1>11. Unlock(t) => Keeps(t)
    BY <1>1 DEF Unlock, At, Is, Steps, PendingSteps
  <1>12. StoreForRead(t) => Keeps(t)
    BY <1>1 DEF StoreForRead, RefreshFails, ReadFails, At, Is, Steps, PendingSteps
  <1>13. StoreCredential(t) => Keeps(t)
    BY <1>1 DEF StoreCredential, RefreshFails, Pending, At, Is, Steps, PendingSteps
  <1>14. StoreConnection(t) => Keeps(t)
    BY <1>1 DEF StoreConnection, At, Is, Steps, PendingSteps
  <1>15. Reauth(t) => Keeps(t)
    BY <1>1 DEF Reauth, At, Is, Steps, PendingSteps
  <1>16. SaveConnection(t) => Keeps(t)
    BY <1>1 DEF SaveConnection, Pending, At, Is, Steps, PendingSteps
  <1>17. SaveCredential(t) => Keeps(t)
    BY <1>1 DEF SaveCredential, At, Is, Steps, PendingSteps
  <1>18. DropCredential(t) => Keeps(t)
    BY <1>1 DEF DropCredential, At, Is, Steps, PendingSteps
  <1>19. DropConnection(t) => Keeps(t)
    BY <1>1 DEF DropConnection, At, Is, Steps, PendingSteps
  <1>20. ProviderAnswers(t) => Keeps(t)
    BY <1>1 DEF ProviderAnswers, ReadFails, At, Is, Steps, PendingSteps
  <1>21. Persist(t) => Keeps(t)
    BY <1>1 DEF Persist, At, Is, Steps, PendingSteps
  <1>22. Report(t) => Keeps(t)
    BY <1>1 DEF Report, At, Is, Steps, PendingSteps
  <1>23. Degrade(t) => Keeps(t)
    BY <1>1 DEF Degrade, At, Is, Steps, PendingSteps
  <1>24. ASSUME DatabaseFails(t) PROVE Keeps(t)
    <2>1. AfterFailure(t)
      BY <1>24 DEF DatabaseFails
    <2>2. QED
      BY <1>1, <2>1 DEF AfterFailure, RefreshFails, ReadFails, At, Is, Steps, PendingSteps
  <1>25. Die(t) => Keeps(t)
    BY <1>1 DEF Die, At, Is, Steps, PendingSteps
  <1>26. QED
    BY <1>4, <1>5, <1>6, <1>7, <1>8, <1>9, <1>10, <1>11, <1>12, <1>13, <1>14,
       <1>15, <1>16, <1>17, <1>18, <1>19, <1>20, <1>21, <1>22, <1>23, <1>24, <1>25

LEMMA TokenInit == Init => TokenInv
  BY DEF Init, TokenInv, NotStarted, Pending, PendingSteps

\* A step stores nothing, deletes the credential, or stores the pending one of
\* its handler, which pends no longer.
LEMMA CredentialMoves ==
  ASSUME TypeOK, NEW t \in Tasks, TaskStep(t) \/ Die(t)
  PROVE  cred' \in {cred, 0} \/ (Pending(t) /\ ~ Pending(t)' /\ cred' = task[t].new)
  <1> USE DEF rowVars, Pending, PendingSteps
  <1>1. CASE StoreForRead(t)
    <2>1. task'[t].pc \in FailureSteps(t) \cup {"unlock", "provider"}
      BY <1>1, ControlFlow DEF Leads
    <2>2. QED
      BY <1>1, <2>1 DEF StoreForRead, FailureSteps, At
  <1>2. CASE StoreConnection(t)
    BY <1>2, ControlFlow DEF StoreConnection, Leads, At
  <1>3. CASE SaveCredential(t)
    BY <1>3, ControlFlow DEF SaveCredential, Leads, At
  <1>4. CASE DropConnection(t)
    BY <1>4 DEF DropConnection
  <1>5. QED
    BY <1>1, <1>2, <1>3, <1>4 DEF TaskStep, Exchange, LoadToDisconnect, LoadToRefresh,
      LoadToDiscover, LoadToRead, Lock, Unlock, CallReturns, StoreCredential, Reauth,
      SaveConnection, DropCredential, ProviderAnswers, Persist, Report, Degrade,
      DatabaseFails, Die

\* How a step of a handler moves the credentials of all.
LEMMA TokenMoves ==
  ASSUME TypeOK, NEW t \in Tasks, TaskStep(t) \/ Die(t)
  PROVE  \/ Keeps(t) /\ issued' = issued
         \/ Takes(t) /\ cred' = cred /\ issued' = issued
         \/ Gets(t) /\ cred' = cred /\ issued' = issued + 1
  <1> USE DEF rowVars, tokenVars
  <1>1. CASE Exchange(t)
    BY <1>1, CredentialFlow DEF Exchange
  <1>2. CASE CallReturns(t)
    BY <1>2, CredentialFlow DEF CallReturns
  <1>3. CASE LoadToRefresh(t) \/ LoadToDiscover(t) \/ LoadToRead(t)
    BY <1>3, CredentialFlow DEF LoadToRefresh, LoadToDiscover, LoadToRead
  <1>4. CASE \/ LoadToDisconnect(t) \/ Lock(t) \/ Unlock(t) \/ StoreForRead(t)
             \/ StoreCredential(t) \/ StoreConnection(t) \/ Reauth(t) \/ SaveConnection(t)
             \/ SaveCredential(t) \/ DropCredential(t) \/ DropConnection(t)
             \/ ProviderAnswers(t) \/ Persist(t) \/ Report(t) \/ Degrade(t)
             \/ DatabaseFails(t) \/ Die(t)
    <2>1. Keeps(t)
      BY <1>4, CredentialFlow
    <2>2. issued' = issued
      BY <1>4 DEF LoadToDisconnect, Lock, Unlock, StoreForRead, StoreCredential,
        StoreConnection, Reauth, SaveConnection, SaveCredential, DropCredential,
        DropConnection, ProviderAnswers, Persist, Report, Degrade, DatabaseFails, Die
    <2>3. QED
      BY <2>1, <2>2
  <1>5. QED
    BY <1>1, <1>2, <1>3, <1>4 DEF TaskStep

LEMMA TokenStep == TypeOK /\ TokenInv /\ [Next]_vars => TokenInv'
  <1> SUFFICES ASSUME TypeOK, TokenInv, [Next]_vars PROVE TokenInv'
    OBVIOUS
  <1> USE DEF rowVars, lockVars, tokenVars
  <1>0. /\ cred \in Nat /\ issued \in Nat
        /\ \A u \in Tasks : task[u].held \in Nat /\ task[u].new \in Nat
    BY DEF TypeOK, TaskOf, NotStarted
  <1>1. ASSUME NEW t \in Tasks, NEW kind \in Kinds, Start(t, kind) PROVE TokenInv'
    <2>1. /\ task'[t].held = 0 /\ task'[t].new = 0 /\ ~ Pending(t)'
          /\ \A u \in Tasks \ {t} : task'[u] = task[u]
      BY <1>1, StartFlow DEF Pending, PendingSteps
    <2>2. cred' = cred /\ issued' = issued
      BY <1>1 DEF Start
    <2>3. QED
      BY <1>0, <2>1, <2>2 DEF TokenInv, Pending
  <1>2. ASSUME NEW t \in Tasks, TaskStep(t) \/ Die(t) PROVE TokenInv'
    <2>0. cred' \in {cred, 0} \/ (Pending(t) /\ ~ Pending(t)' /\ cred' = task[t].new)
      BY <1>2, CredentialMoves
    <2>1. CASE Keeps(t) /\ issued' = issued
      BY <1>0, <2>0, <2>1 DEF Keeps, Others, TokenInv, Pending
    <2>2. CASE Takes(t) /\ cred' = cred /\ issued' = issued
      BY <1>0, <2>2 DEF Takes, Others, TokenInv, Pending
    <2>3. CASE Gets(t) /\ cred' = cred /\ issued' = issued + 1
      BY <1>0, <2>3 DEF Gets, Others, TokenInv, Pending
    <2>4. QED
      BY <1>2, <2>1, <2>2, <2>3, TokenMoves
  <1>3. CASE LeaseExpires
    BY <1>3 DEF LeaseExpires, TokenInv, Pending
  <1>4. ASSUME NEW c \in 1..issued, Expire(c) PROVE TokenInv'
    BY <1>4 DEF Expire, TokenInv, Pending
  <1>5. CASE UNCHANGED vars
    BY <1>5 DEF vars, TokenInv, Pending
  <1>6. QED
    BY <1>1, <1>2, <1>3, <1>4, <1>5 DEF Next

-----------------------------------------------------------------------------
(* Refreshes *)

RefreshSteps == {"lock", "load", "call", "store", "storeconn", "report", "reauth", "unlock", "done"}

\* A refresh between the read of the credential and its replacement.
Spending(t) == Is(t, "refresh") /\ task[t].pc \in {"call", "store", "storeconn"}

\* What a refresh has at each of its steps.
RefreshHas(t) ==
  Is(t, "refresh") /\ ~ At(t, "idle") =>
    /\ task[t].pc \in RefreshSteps
    /\ task[t].pc \in {"lock", "load", "call"} => task[t].new = 0
    /\ task[t].pc = "reauth" => ~ task[t].ok
    /\ Spending(t) => task[t].held # 0

\* A spent credential is not stored again, and no other refresh spends it.
RefreshInv ==
  /\ \A t \in Tasks : RefreshHas(t)
  /\ \A t \in Tasks : Refreshed(t) => task[t].held # 0 /\ task[t].held # cred
  /\ \A t, u \in Tasks \ lapsed :
       t # u /\ Refreshed(u) /\ (Spending(t) \/ Refreshed(t)) => task[t].held # task[u].held

\* A handler that takes a step has started, and stays with its request.
LEMMA HandlerSteps ==
  ASSUME TypeOK, NEW t \in Tasks, TaskStep(t) \/ Die(t)
  PROVE  ~ At(t, "idle") /\ Others(t) /\ ~ At(t, "idle")' /\ task'[t].kind = task[t].kind
  <1>1. ~ At(t, "idle")
    BY DEF TaskStep, Exchange, LoadToDisconnect, LoadToRefresh, LoadToDiscover, LoadToRead, Lock,
      Unlock, CallReturns, StoreForRead, StoreCredential, StoreConnection, Reauth, SaveConnection,
      SaveCredential, DropCredential, DropConnection, ProviderAnswers, Persist, Report, Degrade,
      DatabaseFails, AfterFailure, Die, At, Steps
  <1>2. FailureSteps(t) \subseteq Steps \cup {"done"}
    BY DEF FailureSteps, Steps, Is
  <1>3. Leads(t, Steps \cup {"done"})
    BY <1>2, ControlFlow DEF TaskStep, Leads, Steps
  <1>4. QED
    BY <1>1, <1>3 DEF Leads, Others, At, Steps

\* The steps of a refresh: it moves on with nothing more to show, takes the
\* stored credential, or has replaced it.
Plain(t) ==
  /\ Spending(t)' => Spending(t) /\ task'[t].held = task[t].held
  /\ Refreshed(t)' => Refreshed(t) /\ task'[t].held = task[t].held
Reads(t) ==
  /\ ~ Refreshed(t)'
  /\ task'[t].held = cred /\ cred # 0 /\ cred' = cred
Replaces(t) ==
  /\ Spending(t) /\ Pending(t) /\ ~ Spending(t)'
  /\ task'[t].held = task[t].held /\ cred' = task[t].new

LEMMA RefreshFlow ==
  ASSUME TypeOK, NEW t \in Tasks, Is(t, "refresh"), RefreshHas(t), TaskStep(t) \/ Die(t)
  PROVE  RefreshHas(t)' /\ (Plain(t) \/ Reads(t) \/ Replaces(t))
  <1> USE DEF Continues, Becomes, RefreshHas, Spending, Refreshed, Plain, At, Is
  <1>0. /\ task[t].pc \in RefreshSteps
        /\ \A step \in RefreshSteps : step \in Steps \cup {"done"}
        /\ task[t].kind = "refresh"
        /\ ~ At(t, "idle")
    BY HandlerSteps DEF RefreshSteps, Steps
  <1>1. ASSUME NEW step \in {"reauth", "unlock", "done"}, Fail(t, step)
        PROVE  RefreshHas(t)' /\ Plain(t)
    <2>1. step \in RefreshSteps /\ step \notin {"lock", "load", "call", "store", "storeconn"}
      BY DEF RefreshSteps
    <2>2. Continues(t, step, FALSE)
      BY <1>0, <1>1, <2>1, RecordUpdates
    <2>3. QED
      BY <1>0, <2>1, <2>2 DEF AfterUse, RefreshSteps
  <1>2. ASSUME NEW step \in {"unlock", "done"}, Go(t, step),
               task[t].pc \in {"unlock", "report"} \/ task[t].new = 0 \/ ~ task[t].ok
        PROVE  RefreshHas(t)' /\ Plain(t)
    <2>1. Continues(t, step, task[t].ok)
      BY <1>0, <1>2, RecordUpdates DEF Steps
    <2>2. QED
      BY <1>0, <1>2, <2>1 DEF AfterUse, RefreshSteps
  <1>3. CASE Lock(t)
    <2>1. CASE Go(t, "load")
      <3>1. Continues(t, "load", task[t].ok)
        BY <1>0, <2>1, RecordUpdates DEF Steps
      <3>2. QED
        BY <1>0, <1>3, <3>1 DEF Lock, AfterUse, RefreshSteps
    <2>2. QED
      BY <1>1, <1>3, <2>1 DEF Lock
  <1>4. CASE LoadToRefresh(t)
    <2>1. CASE cred # 0 /\ Hold(t, "call")
      <3>1. Becomes(t, "call", cred, task[t].new, task[t].ok)
        BY <1>0, <2>1, RecordUpdates DEF Steps
      <3>2. QED
        BY <1>0, <1>4, <2>1, <3>1 DEF LoadToRefresh, Reads, RefreshSteps, rowVars
    <2>2. QED
      BY <1>1, <1>2, <1>4, <2>1 DEF LoadToRefresh
  <1>5. CASE Unlock(t)
    <2>1. CASE Go(t, "done")
      BY <1>2, <1>5, <2>1 DEF Unlock
    <2>2. QED
      BY <1>0, <1>1, <1>5, <2>1 DEF Unlock
  <1>6. CASE CallReturns(t)
    <2>1. CASE Get(t, "store")
      <3>1. Becomes(t, "store", task[t].held, issued + 1, task[t].ok)
        BY <1>0, <2>1, RecordUpdates DEF Steps
      <3>2. QED
        BY <1>0, <1>6, <3>1 DEF CallReturns, RefreshSteps
    <2>2. QED
      BY <1>1, <1>6, <2>1 DEF CallReturns, RefreshFails
  <1>7. CASE StoreCredential(t)
    <2>1. CASE Go(t, "storeconn")
      <3>1. Continues(t, "storeconn", task[t].ok)
        BY <1>0, <2>1, RecordUpdates DEF Steps
      <3>2. QED
        BY <1>0, <1>7, <3>1 DEF StoreCredential, AfterUse, RefreshSteps
    <2>2. QED
      BY <1>1, <1>7, <2>1 DEF StoreCredential, RefreshFails
  <1>8. CASE StoreConnection(t)
    <2>1. Continues(t, "report", task[t].ok)
      BY <1>0, <1>8, RecordUpdates DEF StoreConnection, Steps
    <2>2. RefreshHas(t)'
      BY <1>0, <1>8, <2>1 DEF StoreConnection, AfterUse, RefreshSteps
    <2>3. CASE Becomes(t, "report", task[t].held, task[t].new, task[t].ok)
      BY <1>0, <1>8, <2>2, <2>3 DEF StoreConnection, Replaces, Pending, PendingSteps
    <2>4. CASE Becomes(t, "report", 0, 0, TRUE)
      BY <1>0, <1>8, <2>2, <2>4 DEF StoreConnection
    <2>5. QED
      BY <2>1, <2>3, <2>4
  <1>9. CASE Reauth(t)
    BY <1>2, <1>9 DEF Reauth
  <1>10. CASE Report(t)
    BY <1>2, <1>10 DEF Report
  <1>11. CASE DatabaseFails(t)
    <2>1. AfterFailure(t)
      BY <1>11 DEF DatabaseFails
    <2>2. QED
      BY <1>0, <1>1, <2>1 DEF AfterFailure, RefreshFails, RefreshSteps
  <1>12. CASE Die(t)
    BY <1>1, <1>12 DEF Die
  <1>13. QED
    BY <1>0, <1>3, <1>4, <1>5, <1>6, <1>7, <1>8, <1>9, <1>10, <1>11, <1>12
      DEF TaskStep, Exchange, LoadToDisconnect, LoadToDiscover, LoadToRead, StoreForRead,
        SaveConnection, SaveCredential, DropCredential, DropConnection, ProviderAnswers,
        Persist, Degrade, RefreshSteps

LEMMA RefreshStep ==
  LockInv /\ TokenInv /\ RefreshInv /\ [Next]_vars => RefreshInv'
  <1> SUFFICES ASSUME LockInv, TokenInv, RefreshInv, [Next]_vars PROVE RefreshInv'
    OBVIOUS
  <1> USE DEF rowVars, lockVars, tokenVars
  <1>0. TypeOK /\ LeaseIsMine
    BY DEF LockInv
  <1>1. ASSUME NEW t \in Tasks, NEW kind \in Kinds, Start(t, kind) PROVE RefreshInv'
    <2>1. /\ RefreshHas(t)' /\ ~ Spending(t)' /\ ~ Refreshed(t)'
          /\ \A u \in Tasks \ {t} : task'[u] = task[u]
      BY <1>0, <1>1, StartFlow DEF RefreshHas, Spending, Refreshed, RefreshSteps, Is, At
    <2>2. cred' = cred /\ lapsed' = lapsed
      BY <1>1 DEF Start
    <2>3. QED
      BY <2>1, <2>2 DEF RefreshInv, RefreshHas, Spending, Refreshed, Is, At
  <1>2. ASSUME NEW t \in Tasks, TaskStep(t) \/ Die(t) PROVE RefreshInv'
    <2>1. Others(t) /\ ~ At(t, "idle") /\ task'[t].kind = task[t].kind
      BY <1>0, <1>2, HandlerSteps
    <2>2. lapsed' = lapsed
      BY <1>2 DEF TaskStep, Exchange, LoadToDisconnect, LoadToRefresh, LoadToDiscover, LoadToRead,
        Lock, Unlock, CallReturns, StoreForRead, StoreCredential, StoreConnection, Reauth,
        SaveConnection, SaveCredential, DropCredential, DropConnection, ProviderAnswers, Persist,
        Report, Degrade, DatabaseFails, Die
    <2>3. RefreshHas(t)' /\ (Plain(t) \/ Reads(t) \/ Replaces(t))
      <3>1. CASE Is(t, "refresh")
        BY <1>0, <1>2, <3>1, RefreshFlow DEF RefreshInv
      <3>2. CASE ~ Is(t, "refresh")
        BY <2>1, <3>2 DEF RefreshHas, Plain, Spending, Refreshed, Is
      <3>3. QED
        BY <3>1, <3>2
    <2>4. \A u \in Tasks : RefreshHas(u)'
      BY <2>1, <2>3 DEF RefreshInv, Others, RefreshHas, Spending, Is, At
    <2>5. ASSUME NEW u \in Tasks, task[u].held # 0, task[u].held # cred
          PROVE  task[u].held # cred'
      BY <1>0, <1>2, <2>5, CredentialMoves DEF TokenInv
    <2>6. ASSUME NEW u \in Tasks, Refreshed(u)'
          PROVE  task'[u].held # 0 /\ (task'[u].held # cred')
      <3>1. CASE u # t
        BY <2>1, <2>5, <2>6, <3>1 DEF RefreshInv, Others, Refreshed, Is
      <3>2. CASE u = t /\ Plain(t)
        BY <2>5, <2>6, <3>2 DEF RefreshInv, Plain
      <3>3. CASE u = t /\ Replaces(t)
        BY <3>3 DEF RefreshInv, RefreshHas, Replaces, Spending, TokenInv, At
      <3>4. QED
        BY <2>3, <2>6, <3>1, <3>2, <3>3 DEF Reads
    <2>7. ASSUME NEW u \in Tasks \ lapsed, NEW v \in Tasks \ lapsed, u # v,
                 Refreshed(v)', (Spending(u) \/ Refreshed(u))'
          PROVE  task'[u].held # task'[v].held
      <3>1. CASE u # t /\ v # t
        BY <2>1, <2>7, <3>1 DEF RefreshInv, Others, Spending, Refreshed, Is
      <3>2. CASE Plain(t)
        BY <2>1, <2>7, <3>2 DEF RefreshInv, Others, Plain, Spending, Refreshed, Is
      <3>3. CASE u = t /\ Reads(t)
        BY <2>1, <2>7, <3>3 DEF RefreshInv, Others, Reads, Refreshed, Is
      <3>4. CASE v = t /\ Reads(t)
        BY <2>7, <3>4 DEF Reads
      <3>5. CASE u = t /\ Replaces(t)
        BY <2>1, <2>7, <3>5 DEF RefreshInv, Others, Replaces, Refreshed, Is
      <3>6. CASE v = t /\ Replaces(t)
        <4>1. ~ Spending(u)
          BY <1>0, <2>7, <3>6, ProviderConnectionAssumption
            DEF Replaces, Spending, LeaseIsMine, InLock
        <4>2. task'[u] = task[u] /\ Refreshed(u)
          BY <2>1, <2>7, <3>6, <4>1 DEF Others, Spending, Refreshed, Is
        <4>3. QED
          BY <2>7, <3>6, <4>2 DEF RefreshInv, Replaces
      <3>7. QED
        BY <2>3, <3>1, <3>2, <3>3, <3>4, <3>5, <3>6
    <2>8. QED
      BY <2>2, <2>4, <2>6, <2>7 DEF RefreshInv
  <1>3. CASE LeaseExpires
    BY <1>3 DEF LeaseExpires, RefreshInv, RefreshHas, Spending, Refreshed, Is, At
  <1>4. ASSUME NEW c \in 1..issued, Expire(c) PROVE RefreshInv'
    BY <1>4 DEF Expire, RefreshInv, RefreshHas, Spending, Refreshed, Is, At
  <1>5. CASE UNCHANGED vars
    BY <1>5 DEF vars, RefreshInv, RefreshHas, Spending, Refreshed, Is, At
  <1>6. QED
    BY <1>1, <1>2, <1>3, <1>4, <1>5 DEF Next

\* RefreshedOnce: two explicit refreshes never spend the same stored credential
\* while their leases last, since refresh (provider.service.ts) reads the
\* credential under the lock.
THEOREM RefreshesOnce == Spec => []RefreshedOnce
  <1>1. Init => LockInv /\ TokenInv /\ RefreshInv
    BY LockInit, TokenInit
      DEF Init, RefreshInv, RefreshHas, Spending, Refreshed, NotStarted, Is, At
  <1>2. LockInv /\ TokenInv /\ RefreshInv /\ [Next]_vars => (LockInv /\ TokenInv /\ RefreshInv)'
    BY LockStep, TokenStep, RefreshStep DEF LockInv
  <1>3. RefreshInv => RefreshedOnce
    BY DEF RefreshInv, RefreshedOnce
  <1>4. QED
    BY <1>1, <1>2, <1>3, PTL DEF Spec
=============================================================================
