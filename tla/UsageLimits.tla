------------------------------ MODULE UsageLimits ------------------------------
(***************************************************************************)
(* The limits of a workspace's plan (apps/api/src/billing/                 *)
(* billing.service.ts): how many provider accounts may be enabled, and how *)
(* many MCP requests a month has.                                          *)
(*                                                                         *)
(* Requests enable or disable an account, replace the selection of a       *)
(* connection, consume an MCP request, or enable an account as support     *)
(* does (compat/manual-connection-request.service.ts).  The limit is read  *)
(* before the transaction.  The transactions that compare with it are      *)
(* SERIALIZABLE, the other updates are single statements at READ           *)
(* COMMITTED.  PostgreSQL's part is modelled by what it promises: a        *)
(* serializable transaction reads the state its first statement saw, does  *)
(* not update a row that changed since, and commits only if the committed  *)
(* serializable transactions have a serial order.                          *)
(***************************************************************************)
EXTENDS Naturals, FiniteSets

CONSTANTS
  Requests,
  Accounts,     \* the workspace's provider accounts
  Connections,
  ConnectionOf, \* ConnectionOf[a]: the connection of account a
  Terms,        \* the terms a workspace may have, see the assumption
  FreeLimit,    \* the limit of the free plan
  Faulty,       \* whether requests die and the answer of a commit is lost
  None,         \* null: unlimited
  Absent        \* no override

ASSUME UsageLimitsAssumption ==
  /\ ConnectionOf \in [Accounts -> Connections]
  /\ \A t \in Terms :
       /\ t.legacy \in BOOLEAN
       /\ t.override \in Nat \cup {None, Absent}
       /\ t.subscription \in {"active", "trial_over", "absent"}
       /\ t.plan \in Nat
  /\ IsFiniteSet(Accounts)
  /\ FreeLimit \in Nat /\ Faulty \in BOOLEAN
  /\ None \notin Nat

VARIABLES
  terms,     \* the workspace's entitlements and subscription
  offered,   \* every limit it has had
  enabled,   \* accounts with enabled = true
  assisted,  \* those among them that support enabled
  used,      \* quantity of the usage record mcp.requests of the month
  req,       \* req[r]: the state of request r
  before     \* pairs of committed serializable transactions, in serial order

vars == <<terms, offered, enabled, assisted, used, req, before>>

Kinds   == {"enable", "disable", "select", "consume", "assist"}
Steps   == {"idle", "limit", "read", "write", "commit", "reserve", "reserved",
            "record", "update", "done"}
Answers == {"none", "ok", "limit", "error"}
Limits  == Nat \cup {None}
Request ==
  [pc : Steps, kind : Kinds \cup {None},
   arg : SUBSET Accounts,            \* the accounts to enable or disable
   conn : Connections \cup {None},   \* the connection of a selection
   lim : Limits,                     \* the limit read before the transaction
   snap : SUBSET Accounts,           \* enabled accounts its snapshot shows
   stale : SUBSET Accounts,          \* rows updated since the snapshot
   missed : SUBSET Requests,         \* transactions that committed since it
   count : Nat,                      \* the quantity its upsert returned
   answer : Answers]
Idle == [pc |-> "idle", kind |-> None, arg |-> {}, conn |-> None, lim |-> None, snap |-> {},
         stale |-> {}, missed |-> {}, count |-> 0, answer |-> "none"]

TypeOK ==
  /\ terms \in Terms
  /\ offered \in SUBSET Limits
  /\ enabled \in SUBSET Accounts
  /\ assisted \in SUBSET enabled
  /\ used \in Nat
  /\ req \in [Requests -> Request]
  /\ before \in SUBSET (Requests \X Requests)
-----------------------------------------------------------------------------
(* featureValue *)

\* A migrated workspace has no limits; an entitlement comes before the plan;
\* a trial that is over leaves nothing; without a subscription the plan is
\* the free one.
Limit(t) ==
  CASE t.legacy -> None
    [] ~ t.legacy /\ t.override # Absent -> t.override
    [] OTHER -> [active |-> t.plan, trial_over |-> 0, absent |-> FreeLimit][t.subscription]

Init ==
  /\ terms \in Terms
  /\ offered = {Limit(terms)}
  /\ enabled = {} /\ assisted = {}
  /\ used = 0
  /\ req = [r \in Requests |-> Idle]
  /\ before = {}

At(r, step)       == req[r].pc = step
Go(r, step)       == req' = [req EXCEPT ![r].pc = step]

\* What is kept of a request that ends without changing an account.
Ended(r, answer)  == [Idle EXCEPT !.pc = "done", !.kind = req[r].kind, !.answer = answer]
Answer(r, answer) == req' = [req EXCEPT ![r] = Ended(r, answer)]
Fits(n, limit)    == limit = None \/ n <= limit
InTransaction(r)  == req[r].pc \in {"write", "commit"}

\* Accounts of connection k.
Of(k) == {a \in Accounts : ConnectionOf[a] = k}

\* A committed update of `rows`, by the serializable transaction r or by
\* nobody that counts: those who took their snapshot before see none of it.
Overtaken(rows, by) ==
  [s \in Requests |->
     IF InTransaction(s) /\ s \notin by
       THEN [req[s] EXCEPT !.stale = @ \cup rows, !.missed = @ \cup by]
       ELSE req[s]]
-----------------------------------------------------------------------------
(* Requests that ask for an account, a selection or an MCP request read the  *)
(* limit; the other two do not.                                              *)

Begin(r, kind, step, arg, conn) ==
  /\ At(r, "idle")
  /\ req' = [req EXCEPT ![r] = [Idle EXCEPT !.pc = step, !.kind = kind, !.arg = arg,
                                  !.conn = conn]]
  /\ UNCHANGED <<terms, offered, enabled, assisted, used, before>>

\* A selection of accounts outside the connection is refused.
Start(r) ==
  \/ \E a \in Accounts :
       \/ Begin(r, "enable", "limit", {a}, None)
       \/ Begin(r, "disable", "update", {a}, None)
       \/ Begin(r, "assist", "update", {a}, None)
  \/ \E k \in Connections : \E S \in SUBSET Of(k) : Begin(r, "select", "limit", S, k)
  \/ Begin(r, "consume", "limit", {}, None)

\* numericLimit; an MCP request of an unlimited workspace is only recorded.
ReadLimit(r) ==
  LET limit == Limit(terms)
      next  == IF req[r].kind # "consume" THEN "read"
               ELSE IF limit = None THEN "record" ELSE "reserve" IN
  /\ At(r, "limit")
  /\ req' = [req EXCEPT ![r].pc = next, ![r].lim = limit]
  /\ UNCHANGED <<terms, offered, enabled, assisted, used, before>>
-----------------------------------------------------------------------------
(* setProviderAccountEnabled and setProviderAccountsEnabled *)

\* What a transaction counts: the accounts that would be enabled after it.
Wanted(r) ==
  IF req[r].kind = "enable" THEN enabled \cup req[r].arg
  ELSE (enabled \ Of(req[r].conn)) \cup req[r].arg

\* The reads of the transaction, all of the state its first statement sees.
\* An account that is enabled already is left alone.
Read(r) ==
  /\ At(r, "read")
  /\ IF req[r].kind = "enable" /\ req[r].arg \subseteq enabled THEN Answer(r, "ok")
     ELSE IF ~ Fits(Cardinality(Wanted(r)), req[r].lim) THEN Answer(r, "limit")
     ELSE req' = [req EXCEPT ![r].pc = "write", ![r].snap = enabled]
  /\ UNCHANGED <<terms, offered, enabled, assisted, used, before>>

\* The rows it updates: a selection first disables what its connection has.
Rows(r) ==
  req[r].arg \cup (IF req[r].kind = "select" THEN req[r].snap \cap Of(req[r].conn) ELSE {})

Held(a) == \E r \in Requests : At(r, "commit") /\ a \in Rows(r)

\* Its updates; a row that changed since the snapshot aborts it.
Write(r) ==
  /\ At(r, "write")
  /\ \A a \in Rows(r) : ~ Held(a)
  /\ IF Rows(r) \cap req[r].stale = {} THEN Go(r, "commit") ELSE Answer(r, "error")
  /\ UNCHANGED <<terms, offered, enabled, assisted, used, before>>

\* Which accounts' state the outcome of a transaction depends on, and which
\* it changes.
Reads(r) ==
  IF req[r].kind = "enable" /\ req[r].lim = None THEN req[r].arg ELSE Accounts

Changes(r) ==
  IF req[r].kind = "enable" THEN req[r].arg
  ELSE (Rows(r) \ req[r].arg) \cup (req[r].arg \ req[r].snap)

Committed == {s \in Requests : \E p \in before : s \in {p[1], p[2]}}

\* Committed transactions that come after r, since r did not see what they
\* changed, and those that come before it.
Later(r)   == {s \in req[r].missed : Changes(s) \cap Reads(r) # {}}
Earlier(r) ==
  {s \in Committed \ {r} :
     \/ Reads(s) \cap Changes(r) # {}
     \/ s \notin req[r].missed /\ Changes(s) \cap (Reads(r) \cup Changes(r)) # {}}

AndBefore(S) == S \cup {s \in Requests : \E t \in S : <<s, t>> \in before}
AndAfter(S)  == S \cup {s \in Requests : \E t \in S : <<t, s>> \in before}

\* Mutant: READ COMMITTED or REPEATABLE READ.
Serializable_Never(r) == TRUE

\* The committed transactions and r have a serial order.
Serializable(r) == AndBefore(Earlier(r)) \cap AndAfter(Later(r)) = {}

Commit(r) ==
  /\ At(r, "commit")
  /\ IF Serializable(r)
       THEN /\ enabled' = (enabled \ Rows(r)) \cup req[r].arg
            /\ assisted' = assisted \cap enabled'
            /\ before' = before \cup {<<r, r>>}
                          \cup (AndBefore(Earlier(r)) \X ({r} \cup AndAfter(Later(r))))
                          \cup ({r} \X AndAfter(Later(r)))
            /\ \E answer \in {"ok"} \cup (IF Faulty THEN {"error"} ELSE {}) :
                 req' = [Overtaken(Rows(r), {r}) EXCEPT ![r] =
                           [req[r] EXCEPT !.pc = "done", !.answer = answer, !.stale = {}, !.missed = {}]]
       ELSE Answer(r, "error") /\ UNCHANGED <<enabled, assisted, before>>
  /\ UNCHANGED <<terms, offered, used>>

\* The UPDATE that disables one account, or the one of support: no limit and
\* no serializable transaction.
Update(r) ==
  /\ At(r, "update")
  /\ \A a \in req[r].arg : ~ Held(a)
  /\ IF req[r].kind = "disable"
       THEN enabled' = enabled \ req[r].arg /\ assisted' = assisted \ req[r].arg
       ELSE /\ enabled' = enabled \cup req[r].arg
            /\ assisted' = assisted \cup (req[r].arg \ enabled)
  /\ req' = [Overtaken(req[r].arg, {}) EXCEPT ![r] = Ended(r, "ok")]
  /\ UNCHANGED <<terms, offered, used, before>>
-----------------------------------------------------------------------------
(* consumeMcpRequest *)

\* Mutant: the quantity is read, compared and stored without its row's lock.
Unreserved_Always == TRUE

\* Nobody holds the usage record.
Unreserved == \A s \in Requests : ~ At(s, "reserved")

\* The upsert locks the record and increments it.
Reserve(r) ==
  /\ At(r, "reserve") /\ Unreserved
  /\ req' = [req EXCEPT ![r].pc = "reserved", ![r].count = used + 1]
  /\ UNCHANGED <<terms, offered, enabled, assisted, used, before>>

\* An upsert that waits for another one fails when that one commits.
ReserveConflicts(r) ==
  /\ At(r, "reserve") /\ \E s \in Requests : At(s, "reserved")
  /\ Answer(r, "error")
  /\ UNCHANGED <<terms, offered, enabled, assisted, used, before>>

\* Beyond the limit the transaction is rolled back.
Admit(r) ==
  /\ At(r, "reserved")
  /\ IF Fits(req[r].count, req[r].lim)
       THEN /\ used' = req[r].count
            /\ Answer(r, "ok") \/ (Faulty /\ Answer(r, "error"))
       ELSE Answer(r, "limit") /\ UNCHANGED used
  /\ UNCHANGED <<terms, offered, enabled, assisted, before>>

\* recordUsage waits for the record as well.
Record(r) ==
  /\ At(r, "record") /\ \A s \in Requests : ~ At(s, "reserved")
  /\ used' = used + 1
  /\ Answer(r, "ok") \/ (Faulty /\ Answer(r, "error"))
  /\ UNCHANGED <<terms, offered, enabled, assisted, before>>
-----------------------------------------------------------------------------
\* An administrator changes the subscription or an entitlement, or a trial
\* or an entitlement runs out.
TermsChange ==
  /\ terms' \in Terms \ {terms}
  /\ offered' = offered \cup {Limit(terms')}
  /\ UNCHANGED <<enabled, assisted, used, req, before>>

\* The process dies, a statement fails, or PostgreSQL aborts a transaction
\* without need: it is rolled back.
Dies(r) ==
  /\ Faulty /\ ~ At(r, "idle") /\ ~ At(r, "done")
  /\ Answer(r, "error")
  /\ UNCHANGED <<terms, offered, enabled, assisted, used, before>>

Next ==
  \/ \E r \in Requests :
       \/ Start(r) \/ ReadLimit(r) \/ Read(r) \/ Write(r) \/ Commit(r) \/ Update(r)
       \/ Reserve(r) \/ ReserveConflicts(r) \/ Admit(r) \/ Record(r) \/ Dies(r)
  \/ TermsChange

Spec == Init /\ [][Next]_vars
-----------------------------------------------------------------------------
(* Properties *)

Within(n) == \E limit \in offered : Fits(n, limit)

\* Concurrent selections cannot exceed the limit together: however the plan
\* changes, the accounts enabled in the dashboard fit a limit the workspace
\* was offered.  (Support enables accounts without asking.)
SelectionWithinLimit == Within(Cardinality(enabled \ assisted))

Admitted == {r \in Requests : req[r].kind = "consume" /\ req[r].answer = "ok"}

\* Concurrent MCP requests cannot bypass the quota, and each that was
\* admitted is counted.
QuotaHolds ==
  /\ Within(Cardinality(Admitted))
  /\ Cardinality(Admitted) <= used

\* What docs/architecture/v2/BILLING_ARCHITECTURE_RU.md:20-23 says: an
\* account is only enabled within the limit, by support too.
EnabledWithinLimit == Within(Cardinality(enabled))
=============================================================================
