-------------------------- MODULE ProviderConnection --------------------------
(***************************************************************************)
(* One provider connection of a workspace: its row, its credential row and *)
(* the API handlers that work on them at the same time - the OAuth         *)
(* callback, disconnect, the explicit refresh, account discovery and the   *)
(* provider reads (apps/api/src/providers/provider.service.ts), with the   *)
(* refresh lock in Redis (refresh-coordinator.service.ts).                 *)
(*                                                                         *)
(* Transactions run at READ COMMITTED: a statement waits for the row locks *)
(* of other transactions, its effects are seen at the commit, and the      *)
(* database aborts a transaction that waits in a cycle.  The last          *)
(* statement of a transaction and its commit are one step.  A credential   *)
(* is a number, 0 when there is none; the provider issues them in order.   *)
(***************************************************************************)
EXTENDS Naturals

CONSTANTS
  Tasks,    \* handlers; each carries out one request
  Faulty,   \* whether processes die and Redis or the database fail
  None      \* nobody

ASSUME ProviderConnectionAssumption ==
  /\ None \notin Tasks
  /\ Faulty \in BOOLEAN

VARIABLES
  analytics,  \* the provider is Google Analytics
  status,     \* status of the connection row ("NONE": no row)
  cred,       \* the stored credential
  connLock,   \* the transaction that has written the connection row
  credLock,   \* the transaction that has written the credential row
  lease,      \* the holder of the refresh lock in Redis
  lapsed,     \* tasks whose lease ended before they released it
  issued,     \* credentials the provider has issued
  expired,    \* credentials whose access token has expired
  task        \* task[t]: request, next step, credentials and outcome so far

rowVars  == <<status, cred, connLock, credLock>>
lockVars == <<lease, lapsed>>
tokenVars == <<issued, expired>>
vars == <<analytics, rowVars, lockVars, tokenVars, task>>

Kinds == {"complete", "disconnect", "refresh", "discover", "read"}
Statuses == {"NONE", "PENDING", "CONNECTED", "DEGRADED", "REAUTH_REQUIRED",
             "DISCONNECTED"}

\* Steps: outside the database, inside a transaction, on the connection alone.
Steps == {"exchange", "load", "lock", "call", "store", "unlock", "provider"}
           \cup {"saveconn", "savecred", "dropcred", "dropconn", "storeconn"}
           \cup {"persist", "degrade", "reauth", "report"}
TaskOf == [kind : Kinds, pc : Steps \cup {"done"}, held : Nat, new : Nat, ok : BOOLEAN]
NotStarted == [kind |-> None, pc |-> "idle", held |-> 0, new |-> 0, ok |-> TRUE]

TypeOK ==
  /\ analytics \in BOOLEAN
  /\ status \in Statuses
  /\ cred \in Nat
  /\ connLock \in Tasks \cup {None}
  /\ credLock \in Tasks \cup {None}
  /\ lease \in Tasks \cup {None}
  /\ lapsed \subseteq Tasks
  /\ issued \in Nat
  /\ expired \subseteq Nat
  /\ task \in [Tasks -> TaskOf \cup {NotStarted}]

At(t, step) == task[t].pc = step
Is(t, kind) == task[t].kind = kind

\* What a handler still knows at its next step: after its last use of them it
\* forgets its credentials, except that a refresh that succeeded is remembered.
Known(r) ==
  IF r.pc \in {"done", "persist", "degrade", "provider", "report"} /\ ~ (r.kind = "refresh" /\ r.ok)
    THEN [r EXCEPT !.held = 0, !.new = 0, !.ok = TRUE] ELSE r

Go(t, step)   == task' = [task EXCEPT ![t] = Known([@ EXCEPT !.pc = step])]
Fail(t, step) == task' = [task EXCEPT ![t] = Known([@ EXCEPT !.pc = step, !.ok = FALSE])]
Hold(t, step) == task' = [task EXCEPT ![t].pc = step, ![t].held = cred]
Get(t, step)  == task' = [task EXCEPT ![t].pc = step, ![t].new = issued + 1]

\* A connection that was made before, or none yet.
Init ==
  /\ analytics \in BOOLEAN
  /\ \/ status = "NONE" /\ cred = 0 /\ issued = 0
     \/ status = "CONNECTED" /\ cred = 1 /\ issued = 1
  /\ connLock = None /\ credLock = None
  /\ lease = None /\ lapsed = {}
  /\ expired = {}
  /\ task = [t \in Tasks |-> NotStarted]

\* connectionWithCredential rejects a connection that is not there or DISCONNECTED.
Rejected == status \in {"NONE", "DISCONNECTED"}
Fresh(c) == c \notin expired

-----------------------------------------------------------------------------
(* Starting, and loading the rows *)

\* Mutant: the explicit refresh reads the credential before it has the lock.
FirstStep_RefreshUnlocked(kind) == IF kind = "complete" THEN "exchange" ELSE "load"

FirstStep(kind) ==
  CASE kind = "complete" -> "exchange"
    [] kind = "refresh"  -> "lock"
    [] kind \in {"disconnect", "discover", "read"} -> "load"

Start(t, kind) ==
  /\ At(t, "idle")
  /\ task' = [task EXCEPT ![t].kind = kind, ![t].pc = FirstStep(kind)]
  /\ UNCHANGED <<analytics, rowVars, lockVars, tokenVars>>

\* The code of the callback is exchanged; the state was consumed before.
Exchange(t) ==
  /\ At(t, "exchange")
  /\ \/ Get(t, "saveconn") /\ issued' = issued + 1
     \/ Fail(t, "done") /\ UNCHANGED issued
  /\ UNCHANGED <<analytics, rowVars, lockVars, expired>>

LoadToDisconnect(t) ==
  /\ At(t, "load") /\ Is(t, "disconnect")
  /\ Go(t, IF Rejected THEN "done" ELSE "dropcred")
  /\ UNCHANGED <<analytics, rowVars, lockVars, tokenVars>>

\* Under the lock; a credential that is still valid is not refreshed.
LoadToRefresh(t) ==
  /\ At(t, "load") /\ Is(t, "refresh")
  /\ \/ (Rejected \/ cred = 0) /\ Fail(t, "unlock")
     \/ ~ Rejected /\ cred # 0 /\ Fresh(cred) /\ Go(t, "unlock")
     \/ ~ Rejected /\ cred # 0 /\ ~ Fresh(cred) /\ Hold(t, "call")
  /\ UNCHANGED <<analytics, rowVars, lockVars, tokenVars>>

\* connectionReadCredentials of a discovery, before the lock.
LoadToDiscover(t) ==
  /\ At(t, "load") /\ Is(t, "discover")
  /\ \/ (Rejected \/ cred = 0) /\ Fail(t, "done")
     \/ ~ Rejected /\ cred # 0 /\ Hold(t, "lock")
  /\ UNCHANGED <<analytics, rowVars, lockVars, tokenVars>>

\* How a read ends that failed: withReadFailure marks the connection unless the
\* error is about the request alone; some reads are not wrapped in it.
ReadFails(t) == Fail(t, "degrade") \/ Fail(t, "done")

\* connectionReadCredentials and refreshForRead of a read: most reads refresh an
\* expired credential, without the lock.  A rejected connection is an error of
\* the read like any other.
LoadToRead(t) ==
  /\ At(t, "load") /\ Is(t, "read")
  /\ \/ (Rejected \/ cred = 0) /\ ReadFails(t)
     \/ ~ Rejected /\ cred # 0 /\ Hold(t, "provider")
     \/ ~ Rejected /\ cred # 0 /\ ~ Fresh(cred) /\ Hold(t, "call")
  /\ UNCHANGED <<analytics, rowVars, lockVars, tokenVars>>

-----------------------------------------------------------------------------
(* The refresh lock *)

\* SET NX PX, or no lock before the deadline, or Redis fails, possibly after it
\* has set the key: the refresh gives up, the discovery also marks the connection.
Lock(t) ==
  /\ At(t, "lock")
  /\ \/ /\ lease = None
        /\ lease' = t
        /\ Go(t, IF Is(t, "refresh") THEN "load"
                 ELSE IF Fresh(task[t].held) THEN "unlock" ELSE "call")
     \/ /\ lease # None \/ Faulty
        /\ Fail(t, IF Is(t, "refresh") THEN "done" ELSE "degrade")
        /\ lease' = lease \/ (lease = None /\ lease' = t)
  /\ UNCHANGED <<analytics, rowVars, lapsed, tokenVars>>

\* Mutant: the key is deleted whoever holds it.
Released_Anyone(t) == None

\* Compare and delete.
Released(t) == IF lease = t THEN None ELSE lease

\* The release of withLock; if Redis fails here, the error takes the place of the
\* result and the key stays.
Unlock(t) ==
  /\ At(t, "unlock")
  /\ \/ /\ lease' = Released(t)
        /\ Go(t, IF Is(t, "refresh") THEN "done"
                 ELSE IF task[t].ok THEN "provider" ELSE "degrade")
     \/ /\ Faulty
        /\ Fail(t, IF Is(t, "refresh") THEN "done" ELSE "degrade")
        /\ UNCHANGED lease
  /\ UNCHANGED <<analytics, rowVars, lapsed, tokenVars>>

\* Mutant: the key is set without a time to live.
LeaseExpires_Never == FALSE

\* The key lives for ten seconds, whatever its holder does.
LeaseExpires ==
  /\ lease # None
  /\ lease' = None
  /\ lapsed' = lapsed \cup {lease}
  /\ UNCHANGED <<analytics, rowVars, tokenVars, task>>

-----------------------------------------------------------------------------
(* The refresh *)

\* How a refresh ends that failed.
RefreshFails(t) ==
  \/ Is(t, "refresh") /\ Fail(t, "reauth")
  \/ Is(t, "discover") /\ Fail(t, "unlock")
  \/ Is(t, "read") /\ ReadFails(t)

\* adapter.refreshCredentials answers.
CallReturns(t) ==
  /\ At(t, "call")
  /\ \/ Get(t, "store") /\ issued' = issued + 1
     \/ RefreshFails(t) /\ UNCHANGED issued
  /\ UNCHANGED <<analytics, rowVars, lockVars, expired>>

\* Mutant: the refreshed credential is upserted.
StoreForRead_Upsert(t) ==
  /\ At(t, "store") /\ task[t].kind \in {"discover", "read"}
  /\ credLock = None
  /\ cred' = task[t].new
  /\ Go(t, IF Is(t, "discover") THEN "unlock" ELSE "provider")
  /\ UNCHANGED <<analytics, status, connLock, credLock, lockVars, tokenVars>>

\* refreshForRead updates the credential of the connection, which must exist,
\* whatever it is by now.
StoreForRead(t) ==
  /\ At(t, "store") /\ task[t].kind \in {"discover", "read"}
  /\ credLock = None
  /\ \/ /\ cred # 0
        /\ cred' = task[t].new
        /\ Go(t, IF Is(t, "discover") THEN "unlock" ELSE "provider")
     \/ cred = 0 /\ RefreshFails(t) /\ UNCHANGED cred
  /\ UNCHANGED <<analytics, status, connLock, credLock, lockVars, tokenVars>>

\* The transaction of refresh: the credential, then the connection.
StoreCredential(t) ==
  /\ At(t, "store") /\ Is(t, "refresh")
  /\ credLock = None
  /\ \/ cred # 0 /\ credLock' = t /\ Go(t, "storeconn")
     \/ cred = 0 /\ RefreshFails(t) /\ UNCHANGED credLock
  /\ UNCHANGED <<analytics, status, cred, connLock, lockVars, tokenVars>>

StoreConnection(t) ==
  /\ At(t, "storeconn") /\ connLock = None
  /\ status' = "CONNECTED"
  /\ cred' = task[t].new
  /\ credLock' = None
  /\ Go(t, "report")
  /\ UNCHANGED <<analytics, connLock, lockVars, tokenVars>>

\* Any error of the explicit refresh, the failed transaction included.
Reauth(t) ==
  /\ At(t, "reauth") /\ connLock = None
  /\ status' = "REAUTH_REQUIRED"
  /\ Go(t, "unlock")
  /\ UNCHANGED <<analytics, cred, connLock, credLock, lockVars, tokenVars>>

-----------------------------------------------------------------------------
(* The OAuth callback and disconnect *)

\* The transaction of the callback: the connection, then the credential.
SaveConnection(t) ==
  /\ At(t, "saveconn") /\ connLock = None
  /\ connLock' = t
  /\ Go(t, "savecred")
  /\ UNCHANGED <<analytics, status, cred, credLock, lockVars, tokenVars>>

\* Google Analytics is connected only once its properties have been listed.
Authorized == IF analytics THEN "PENDING" ELSE "CONNECTED"

SaveCredential(t) ==
  /\ At(t, "savecred") /\ credLock = None
  /\ status' = Authorized
  /\ cred' = task[t].new
  /\ connLock' = None
  /\ Go(t, "provider")
  /\ UNCHANGED <<analytics, credLock, lockVars, tokenVars>>

\* The transaction of disconnect: deleteMany locks the row only if it finds
\* one; the revocation at the provider before it is best effort.
DropCredential(t) ==
  /\ At(t, "dropcred") /\ credLock = None
  /\ credLock' = IF cred # 0 THEN t ELSE None
  /\ Go(t, "dropconn")
  /\ UNCHANGED <<analytics, status, cred, connLock, lockVars, tokenVars>>

DropConnection(t) ==
  /\ At(t, "dropconn") /\ connLock = None
  /\ status' = "DISCONNECTED"
  /\ cred' = IF credLock = t THEN 0 ELSE cred
  /\ credLock' = IF credLock = t THEN None ELSE credLock
  /\ Go(t, "done")
  /\ UNCHANGED <<analytics, connLock, lockVars, tokenVars>>

-----------------------------------------------------------------------------
(* Provider reads and the account list *)

\* The accounts are listed or the data is read.
ProviderAnswers(t) ==
  /\ At(t, "provider")
  /\ \/ Go(t, IF Is(t, "read") THEN "done" ELSE "persist")
     \/ Is(t, "discover") /\ Fail(t, "degrade")
     \/ Is(t, "complete") /\ Fail(t, IF analytics THEN "degrade" ELSE "done")
     \/ Is(t, "read") /\ ReadFails(t)
  /\ UNCHANGED <<analytics, rowVars, lockVars, tokenVars>>

\* persistAccounts, for the callback or a discovery
Persist(t) ==
  /\ At(t, "persist") /\ task[t].kind \in {"complete", "discover"}
  /\ connLock = None
  /\ status' = "CONNECTED"
  /\ Go(t, "report")
  /\ UNCHANGED <<analytics, cred, connLock, credLock, lockVars, tokenVars>>

\* The audit of a refresh, a discovery or an authorization, whose failure (with
\* DatabaseFails) is handled like any other of the handler.
Report(t) ==
  /\ At(t, "report")
  /\ Go(t, IF Is(t, "refresh") THEN "unlock" ELSE "done")
  /\ UNCHANGED <<analytics, rowVars, lockVars, tokenVars>>

\* The catch of discover and of the callback, and withReadFailure.
Degrade(t) ==
  /\ At(t, "degrade") /\ connLock = None
  /\ status' = IF status = "NONE" THEN "NONE" ELSE "DEGRADED"
  /\ Go(t, "done")
  /\ UNCHANGED <<analytics, cred, connLock, credLock, lockVars, tokenVars>>

-----------------------------------------------------------------------------
(* Failures and time *)

Free(t, row) == IF row = t THEN None ELSE row

WaitsFor(t, u) ==
  \/ task[t].pc \in {"savecred", "store", "dropcred"} /\ credLock = u
  \/ task[t].pc \in {"saveconn", "storeconn", "dropconn", "persist", "degrade", "reauth"}
       /\ connLock = u

Deadlocked(t) == \E u \in Tasks : WaitsFor(t, u) /\ WaitsFor(u, t)

\* Where a failed query or transaction leaves its handler.
AfterFailure(t) ==
  \/ At(t, "load") /\ Is(t, "read") /\ ReadFails(t)
  \/ At(t, "load") /\ Is(t, "refresh") /\ Fail(t, "unlock")
  \/ At(t, "load") /\ task[t].kind \in {"disconnect", "discover"} /\ Fail(t, "done")
  \/ task[t].pc \in {"store", "storeconn"} /\ RefreshFails(t)
  \/ At(t, "report") /\ Is(t, "refresh") /\ RefreshFails(t)
  \/ At(t, "reauth") /\ Fail(t, "unlock")
  \/ task[t].pc \in {"persist", "report"} /\ ~ Is(t, "refresh")
       /\ Fail(t, IF Is(t, "discover") \/ analytics THEN "degrade" ELSE "done")
  \/ task[t].pc \in {"saveconn", "savecred", "dropcred", "dropconn", "degrade"} /\ Fail(t, "done")

\* The database rolls a transaction back to break a cycle, or fails otherwise.
DatabaseFails(t) ==
  /\ Deadlocked(t) \/ Faulty
  /\ AfterFailure(t)
  /\ connLock' = Free(t, connLock)
  /\ credLock' = Free(t, credLock)
  /\ UNCHANGED <<analytics, status, cred, lockVars, tokenVars>>

\* The process dies: the database drops its transaction, Redis keeps its lease.
Die(t) ==
  /\ Faulty /\ task[t].pc \in Steps
  /\ connLock' = Free(t, connLock)
  /\ credLock' = Free(t, credLock)
  /\ Fail(t, "done")
  /\ UNCHANGED <<analytics, status, cred, lockVars, tokenVars>>

\* Whether another credential has expired is asked of none but these.
Expire(c) ==
  /\ c = cred \/ \E t \in Tasks : At(t, "lock") /\ task[t].held = c
  /\ expired' = expired \cup {c}
  /\ expired' # expired
  /\ UNCHANGED <<analytics, rowVars, lockVars, issued, task>>

-----------------------------------------------------------------------------
TaskStep(t) ==
  \/ Exchange(t) \/ LoadToDisconnect(t) \/ LoadToRefresh(t)
  \/ LoadToDiscover(t) \/ LoadToRead(t)
  \/ Lock(t) \/ Unlock(t) \/ CallReturns(t)
  \/ StoreForRead(t) \/ StoreCredential(t) \/ StoreConnection(t) \/ Reauth(t)
  \/ SaveConnection(t) \/ SaveCredential(t) \/ DropCredential(t) \/ DropConnection(t)
  \/ ProviderAnswers(t) \/ Persist(t) \/ Report(t) \/ Degrade(t) \/ DatabaseFails(t)

Next ==
  \/ \E t \in Tasks, kind \in Kinds : Start(t, kind)
  \/ \E t \in Tasks : TaskStep(t) \/ Die(t)
  \/ LeaseExpires
  \/ \E c \in 1..issued : Expire(c)

Spec == Init /\ [][Next]_vars

\* A started handler keeps running and the clock does not stop: every wait of
\* a handler has a timeout, the database breaks cycles, Redis expires keys.
FairSpec ==
  /\ Spec
  /\ WF_vars(LeaseExpires)
  /\ \A t \in Tasks : WF_vars(TaskStep(t))
-----------------------------------------------------------------------------
(* Properties *)

\* The steps withLock runs its operation in.
InLock(t) ==
  \/ Is(t, "refresh") /\ task[t].pc \in {"load", "call", "store", "storeconn",
                                         "report", "reauth", "unlock"}
  \/ Is(t, "discover") /\ task[t].pc \in {"call", "store", "unlock"}

\* The lock excludes: a handler inside withLock holds the key unless its own
\* lease ran out, so two handlers are inside together only after that.  Nobody
\* releases the lock of somebody else, however late it is.
LeaseIsMine == \A t \in Tasks : InLock(t) /\ t \notin lapsed => lease = t

\* A refreshed credential of one authorization comes from one call: two
\* explicit refreshes never both spend the same stored credential while their
\* leases last, since each reads the credential again under the lock.
Refreshed(t) ==
  Is(t, "refresh") /\ task[t].pc \in {"report", "unlock", "done"} /\ task[t].ok /\ task[t].new # 0
RefreshedOnce ==
  \A t, u \in Tasks \ lapsed :
    t # u /\ Refreshed(t) /\ Refreshed(u) => task[t].held # task[u].held

\* A disconnected workspace gets a credential again only by a new OAuth
\* authorization: no refresh that was under way, explicit or of a read, brings
\* back a credential that disconnect has deleted.
OnlyOAuthCreatesCredential ==
  [][cred = 0 /\ cred' # 0 => \E t \in Tasks : At(t, "savecred") /\ ~ At(t, "savecred")']_vars

\* The refresh lock is always free again, even if its holder dies inside.
LockFrees == lease # None ~> lease = None

\* What docs/architecture/v2/OAUTH_THREAT_MODEL_RU.md says of refresh storms:
\* the lock of a connection lets one refresh at a time reach the provider
\* (while its lease lasts).
OneRefreshAtATime ==
  \A t, u \in Tasks \ lapsed : At(t, "call") /\ At(u, "call") => t = u

\* What docs/architecture/v2/PROVIDER_ACCOUNT_MODEL_RU.md says of a disconnected
\* connection: nothing works through it, so only a new authorization reopens it.
DisconnectedStays ==
  [][status = "DISCONNECTED" /\ status' # "DISCONNECTED" =>
       \E t \in Tasks : At(t, "savecred") /\ ~ At(t, "savecred")']_vars
=============================================================================
