--------------------------- MODULE SupportDelivery ---------------------------
(***************************************************************************)
(* A support request of the dashboard becomes one message in the support   *)
(* team's Telegram chat.  API handlers store the request under its         *)
(* idempotency key, enqueue a BullMQ job and wait for its result           *)
(* (apps/api/src/support/support-request.service.ts); worker executions    *)
(* claim the row, call Telegram and store the outcome                      *)
(* (apps/worker/src/support-telegram.job.ts).                              *)
(*                                                                         *)
(* A row is identified by its key: the workspace, user and idempotency key *)
(* of the unique constraint (a request without a key has one of its own).  *)
(* The queue and Telegram are external: jobs are deduplicated by jobId,    *)
(* retried after an error and run again when a worker loses its lock, and  *)
(* an HTTP request may be carried out after its sender gave up on it.      *)
(***************************************************************************)
EXTENDS Naturals, FiniteSets

CONSTANTS
  Keys,         \* rows that may be created
  Messages,     \* normalised contents (fingerprints) of a request
  Requests,     \* API request handlers; a retry of the browser is another one
  Workers,      \* executions that run at the same time
  MaxAttempts,  \* BullMQ attempts of a job
  MaxStalls,    \* BullMQ maxStalledCount
  Faulty,       \* whether processes die, locks are lost and writes fail
  None          \* null

ASSUME SupportDeliveryAssumption ==
  /\ MaxAttempts \in Nat \ {0}
  /\ MaxStalls \in Nat
  /\ Faulty \in BOOLEAN
  /\ None \notin Keys \cup Messages \cup Workers

VARIABLES
  status,     \* status[k]: telegramDeliveryStatus ("ABSENT": no such row)
  evidence,   \* rows with a telegramMessageId
  message,    \* message[k]: the stored content
  req,        \* req[r]: next step, key, message and answer of handler r
  job,        \* job[k]: the BullMQ job support-telegram-<k>
  exec,       \* exec[w]: next step, key, result and HTTP request of execution w
  configured, \* processes that run with the Telegram token and chat
  posted,     \* posted[k]: messages Telegram has put into the chat for k
  late        \* late[k]: requests nobody waits for that Telegram may still serve

rowVars  == <<status, evidence, message>>
chatVars == <<posted, late>>
vars == <<rowVars, req, job, exec, configured, chatVars>>

Claimable == {"PENDING", "FAILED", "NOT_CONFIGURED"}
Statuses  == Claimable \cup {"ABSENT", "SENDING", "SENT", "UNCERTAIN"}
Answers   == {"none", "delivered", "pending", "failed", "unavailable",
              "conflict", "error"}
Results   == {"none", "delivered", "other", "throw"}
Wires     == {"none", "sent", "ok", "refused"}

Processes == {"api", "worker"}
HandlerSteps == {"lookup", "insert", "before", "enqueue", "wait", "reread"}
WorkerSteps  == {"load", "unconfigured", "claim", "recheck", "post", "await",
                 "confirm", "refusal", "unknown", "finish"}

HandlerOf == [pc : HandlerSteps \cup {"done"}, key : Keys, message : Messages,
              answer : Answers]
NotStarted == [pc |-> "idle", key |-> None, message |-> None, answer |-> "none"]
ExecOf == [pc : WorkerSteps, key : Keys, result : Results, wire : Wires]
Free   == [pc |-> "free", key |-> None, result |-> "none", wire |-> "none"]
JobOf  == [state : {"none", "waiting", "active", "done"}, holder : Workers \cup {None},
           fails : Nat, stalls : Nat, result : Results]
NoJob  == [state |-> "none", holder |-> None, fails |-> 0, stalls |-> 0, result |-> "none"]
NewJob == [NoJob EXCEPT !.state = "waiting"]

TypeOK ==
  /\ status \in [Keys -> Statuses]
  /\ evidence \subseteq Keys
  /\ message \in [Keys -> Messages \cup {None}]
  /\ req \in [Requests -> HandlerOf \cup {NotStarted}]
  /\ job \in [Keys -> JobOf]
  /\ exec \in [Workers -> ExecOf \cup {Free}]
  /\ configured \in SUBSET Processes
  /\ posted \in [Keys -> Nat]
  /\ late \in [Keys -> Nat]

Exists(k) == status[k] # "ABSENT"
Live(k)   == job[k].state \in {"waiting", "active"}

Init ==
  /\ status = [k \in Keys |-> "ABSENT"]
  /\ evidence = {}
  /\ message = [k \in Keys |-> None]
  /\ req = [r \in Requests |-> NotStarted]
  /\ job = [k \in Keys |-> NoJob]
  /\ exec = [w \in Workers |-> Free]
  /\ configured \in SUBSET Processes
  /\ posted = [k \in Keys |-> 0]
  /\ late = [k \in Keys |-> 0]

-----------------------------------------------------------------------------
(* The API handler *)

Asks(r, step)     == req[r].pc = step
Step(r, step)     == req' = [req EXCEPT ![r].pc = step]
Answer(r, answer) == req' = [req EXCEPT ![r].pc = "done", ![r].answer = answer]

Submit(r, k, m) ==
  /\ Asks(r, "idle")
  /\ req' = [req EXCEPT ![r] =
       [pc |-> "lookup", key |-> k, message |-> m, answer |-> "none"]]
  /\ UNCHANGED <<rowVars, job, exec, configured, chatVars>>

\* Mutant: the stored content is not compared with the submitted one.
SamePayload_Unchecked(r) == Exists(req[r].key)

\* assertSamePayload
SamePayload(r) == message[req[r].key] = req[r].message

\* The row of the idempotency key, if there is one; else the rate limits.
Lookup(r) ==
  LET k == req[r].key IN
  /\ Asks(r, "lookup")
  /\ \/ Exists(k) /\ ~ SamePayload(r) /\ Answer(r, "conflict")
     \/ Exists(k) /\ SamePayload(r) /\ k \in evidence /\ Answer(r, "delivered")
     \/ Exists(k) /\ SamePayload(r) /\ k \notin evidence /\ Step(r, "before")
     \/ ~ Exists(k) /\ (Step(r, "insert") \/ Answer(r, "error"))
  /\ UNCHANGED <<rowVars, job, exec, configured, chatVars>>

\* Insert the row, or find the winner of the race for the key.
Insert(r) ==
  LET k == req[r].key IN
  /\ Asks(r, "insert")
  /\ IF Exists(k)
       THEN UNCHANGED rowVars
       ELSE /\ status' = [status EXCEPT ![k] =
                 IF "api" \in configured THEN "PENDING" ELSE "NOT_CONFIGURED"]
            /\ message' = [message EXCEPT ![k] = req[r].message]
            /\ UNCHANGED evidence
  /\ \/ Exists(k) /\ ~ SamePayload(r) /\ Answer(r, "conflict")
     \/ (Exists(k) => SamePayload(r)) /\ "api" \in configured /\ Step(r, "before")
     \/ (Exists(k) => SamePayload(r)) /\ "api" \notin configured /\ Answer(r, "unavailable")
  /\ UNCHANGED <<job, exec, configured, chatVars>>

\* enqueueAndConfirm: nothing is enqueued for a delivered or uncertain row.
Before(r) ==
  LET k == req[r].key IN
  /\ Asks(r, "before")
  /\ \/ k \in evidence /\ Answer(r, "delivered")
     \/ k \notin evidence /\ status[k] = "UNCERTAIN" /\ Answer(r, "pending")
     \/ k \notin evidence /\ status[k] # "UNCERTAIN" /\ Step(r, "enqueue")
  /\ UNCHANGED <<rowVars, job, exec, configured, chatVars>>

\* queue.add: a job with the same id, a finished one that is still kept
\* included, is left as it is.  When Redis fails the row is read again.
Enqueue(r) ==
  LET k == req[r].key IN
  /\ Asks(r, "enqueue")
  /\ \/ /\ job' = IF job[k].state = "none" THEN [job EXCEPT ![k] = NewJob] ELSE job
        /\ Step(r, "wait")
     \/ Faulty /\ Step(r, "reread") /\ UNCHANGED job
  /\ UNCHANGED <<rowVars, exec, configured, chatVars>>

\* Mutant: the wait has no timeout.
Wait_Unbounded(r) ==
  LET k == req[r].key IN
  /\ Asks(r, "wait")
  /\ \/ job[k].state = "done" /\ job[k].result = "delivered" /\ Answer(r, "delivered")
     \/ job[k].state = "done" /\ job[k].result # "delivered" /\ Step(r, "reread")
  /\ UNCHANGED <<rowVars, job, exec, configured, chatVars>>

\* waitUntilFinished: a confirmed result, or an error, another result, or no
\* result in time.
Wait(r) ==
  LET k == req[r].key IN
  /\ Asks(r, "wait")
  /\ \/ job[k].state = "done" /\ job[k].result = "delivered" /\ Answer(r, "delivered")
     \/ Step(r, "reread")
  /\ UNCHANGED <<rowVars, job, exec, configured, chatVars>>

\* The row decides what an unconfirmed wait is answered with.
Reread(r) ==
  LET k == req[r].key IN
  /\ Asks(r, "reread")
  /\ \/ k \in evidence /\ Answer(r, "delivered")
     \/ k \notin evidence /\ status[k] = "FAILED" /\ Answer(r, "failed")
     \/ k \notin evidence /\ status[k] # "FAILED" /\ Answer(r, "pending")
  /\ UNCHANGED <<rowVars, job, exec, configured, chatVars>>

\* The process dies or the database fails: the browser gets no answer.
HandlerDies(r) ==
  /\ Faulty /\ req[r].pc \in HandlerSteps
  /\ Answer(r, "error")
  /\ UNCHANGED <<rowVars, job, exec, configured, chatVars>>

-----------------------------------------------------------------------------
(* The worker execution *)

Runs(w, step)  == exec[w].pc = step
Go(w, step)    == exec' = [exec EXCEPT ![w].pc = step]
Hear(w, step)  == exec' = [exec EXCEPT ![w].pc = step, ![w].wire = "none"]
End(w, result) == exec' = [exec EXCEPT ![w].pc = "finish", ![w].result = result]

\* BullMQ hands a waiting job to a free worker.
Take(w, k) ==
  /\ Runs(w, "free") /\ job[k].state = "waiting"
  /\ job' = [job EXCEPT ![k].state = "active", ![k].holder = w]
  /\ exec' = [exec EXCEPT ![w] = [Free EXCEPT !.pc = "load", !.key = k]]
  /\ UNCHANGED <<rowVars, req, configured, chatVars>>

\* A stored message id is delivery evidence; SENT, SENDING and UNCERTAIN rows
\* are left alone.  A failing query makes the job fail.
Load(w) ==
  LET k == exec[w].key IN
  /\ Runs(w, "load")
  /\ \/ k \in evidence /\ End(w, "delivered")
     \/ k \notin evidence /\ status[k] \notin Claimable /\ End(w, "other")
     \/ /\ k \notin evidence /\ status[k] \in Claimable
        /\ Go(w, IF "worker" \in configured THEN "claim" ELSE "unconfigured")
     \/ Faulty /\ End(w, "throw")
  /\ UNCHANGED <<rowVars, req, job, configured, chatVars>>

MarkUnconfigured(w) ==
  LET k == exec[w].key IN
  /\ Runs(w, "unconfigured")
  /\ \/ /\ status' = IF k \notin evidence /\ status[k] \in Claimable
                       THEN [status EXCEPT ![k] = "NOT_CONFIGURED"] ELSE status
        /\ End(w, "other")
     \/ Faulty /\ End(w, "throw") /\ UNCHANGED status
  /\ UNCHANGED <<evidence, message, req, job, configured, chatVars>>

\* Mutant: the claim relies on the status read by the load.
CanClaim_Unguarded(k) == Exists(k) /\ k \notin evidence

\* The WHERE clause of the claim.
CanClaim(k) == k \notin evidence /\ status[k] \in Claimable

\* The atomic claim; a failing UPDATE may have been carried out or not.
Claim(w) ==
  LET k == exec[w].key IN
  /\ Runs(w, "claim")
  /\ \/ /\ CanClaim(k)
        /\ status' = [status EXCEPT ![k] = "SENDING"]
        /\ (Go(w, "post") \/ (Faulty /\ End(w, "throw")))
     \/ ~ CanClaim(k) /\ Go(w, "recheck") /\ UNCHANGED status
     \/ Faulty /\ End(w, "throw") /\ UNCHANGED status
  /\ UNCHANGED <<evidence, message, req, job, configured, chatVars>>

Recheck(w) ==
  LET k == exec[w].key IN
  /\ Runs(w, "recheck")
  /\ \/ k \in evidence /\ End(w, "delivered")
     \/ k \notin evidence /\ End(w, "other")
     \/ Faulty /\ End(w, "throw")
  /\ UNCHANGED <<rowVars, req, job, configured, chatVars>>

\* The HTTP request to Telegram leaves.
Post(w) ==
  /\ Runs(w, "post")
  /\ exec' = [exec EXCEPT ![w].pc = "await", ![w].wire = "sent"]
  /\ UNCHANGED <<rowVars, req, job, configured, chatVars>>

\* An abandoned request may still be served.
Abandon(w) ==
  late' = IF exec[w].wire = "sent" THEN [late EXCEPT ![exec[w].key] = @ + 1] ELSE late

\* Mutant: an answer without a message id counts as a delivery.
Await_AnyAnswerConfirms(w) ==
  /\ Runs(w, "await")
  /\ \/ exec[w].wire \in {"ok", "refused"} /\ Hear(w, "confirm") /\ UNCHANGED late
     \/ Hear(w, "unknown") /\ Abandon(w)
  /\ UNCHANGED <<rowVars, req, job, configured, posted>>

\* The answer with a message id, the explicit refusal, or anything else: a
\* timeout, a transport error, a body that cannot be read.
Await(w) ==
  /\ Runs(w, "await")
  /\ \/ exec[w].wire = "ok" /\ Hear(w, "confirm") /\ UNCHANGED late
     \/ exec[w].wire = "refused" /\ Hear(w, "refusal") /\ UNCHANGED late
     \/ Hear(w, "unknown") /\ Abandon(w)
  /\ UNCHANGED <<rowVars, req, job, configured, posted>>

\* The WHERE clause of the outcome updates.
Claimed(k) == k \notin evidence /\ status[k] = "SENDING"

\* Mutant: the outcome of an unreadable answer is stored as FAILED.
Outcome_AlwaysFailed(w) == "FAILED"

Outcome(w) == IF Runs(w, "refusal") THEN "FAILED" ELSE "UNCERTAIN"

\* The message id is stored; if that fails the job still returns it.
Confirm(w) ==
  LET k == exec[w].key IN
  /\ Runs(w, "confirm")
  /\ \/ /\ Claimed(k)
        /\ status' = [status EXCEPT ![k] = "SENT"]
        /\ evidence' = evidence \cup {k}
     \/ (Faulty \/ ~ Claimed(k)) /\ UNCHANGED <<status, evidence>>
  /\ End(w, "delivered")
  /\ UNCHANGED <<message, req, job, configured, chatVars>>

\* Mutant: only a refusal is stored, any other error leaves the row as it is.
Settle_RefusalsOnly(w) ==
  LET k == exec[w].key IN
  /\ exec[w].pc \in {"refusal", "unknown"}
  /\ status' = IF Runs(w, "refusal") /\ Claimed(k)
                 THEN [status EXCEPT ![k] = "FAILED"] ELSE status
  /\ End(w, IF Runs(w, "refusal") THEN "throw" ELSE "other")
  /\ UNCHANGED <<evidence, message, req, job, configured, chatVars>>

\* A refusal is stored and thrown for BullMQ to retry, anything else is not
\* retried; a failing UPDATE is only logged.
Settle(w) ==
  LET k == exec[w].key IN
  /\ exec[w].pc \in {"refusal", "unknown"}
  /\ \/ Claimed(k) /\ status' = [status EXCEPT ![k] = Outcome(w)]
     \/ (Faulty \/ ~ Claimed(k)) /\ UNCHANGED status
  /\ End(w, IF Runs(w, "refusal") THEN "throw" ELSE "other")
  /\ UNCHANGED <<evidence, message, req, job, configured, chatVars>>

-----------------------------------------------------------------------------
(* BullMQ, Telegram and the operators *)

Holds(w) == job[exec[w].key].state = "active" /\ job[exec[w].key].holder = w

\* The job is tried again, or dropped after its last attempt.
Retried(k) ==
  IF job[k].fails + 1 < MaxAttempts
    THEN [job[k] EXCEPT !.state = "waiting", !.holder = None, !.fails = @ + 1]
    ELSE NoJob

\* The end of an execution reaches the queue only while it holds the job.
Finish(w) ==
  LET k == exec[w].key IN
  /\ Runs(w, "finish")
  /\ job' = [job EXCEPT ![k] =
       IF ~ Holds(w) THEN @
       ELSE IF exec[w].result = "throw" THEN Retried(k)
       ELSE [@ EXCEPT !.state = "done", !.holder = None, !.result = exec[w].result]]
  /\ exec' = [exec EXCEPT ![w] = Free]
  /\ UNCHANGED <<rowVars, req, configured, chatVars>>

\* The worker process dies in the middle of an execution.
WorkerDies(w) ==
  /\ Faulty /\ ~ Runs(w, "free")
  /\ exec' = [exec EXCEPT ![w] = Free]
  /\ Abandon(w)
  /\ UNCHANGED <<rowVars, req, job, configured, posted>>

\* A job without its lock is run again, or dropped when it stalled too often.
Stalled(k) ==
  IF job[k].stalls < MaxStalls
    THEN [job[k] EXCEPT !.state = "waiting", !.holder = None, !.stalls = @ + 1]
    ELSE NoJob

\* The lock of a job is lost, whether or not its holder still runs.
Stall(k) ==
  /\ Faulty /\ job[k].state = "active"
  /\ job' = [job EXCEPT ![k] = Stalled(k)]
  /\ UNCHANGED <<rowVars, req, exec, configured, chatVars>>

\* A finished job is dropped when a hundred later ones have finished.
Evict(k) ==
  /\ job[k].state = "done"
  /\ job' = [job EXCEPT ![k] = NoJob]
  /\ UNCHANGED <<rowVars, req, exec, configured, chatVars>>

TelegramAnswers(w) ==
  /\ exec[w].wire = "sent"
  /\ \/ /\ exec' = [exec EXCEPT ![w].wire = "ok"]
        /\ posted' = [posted EXCEPT ![exec[w].key] = @ + 1]
     \/ /\ exec' = [exec EXCEPT ![w].wire = "refused"]
        /\ UNCHANGED posted
  /\ UNCHANGED <<rowVars, req, job, configured, late>>

TelegramServesLate(k) ==
  /\ late[k] > 0
  /\ late' = [late EXCEPT ![k] = @ - 1]
  /\ posted' \in {posted, [posted EXCEPT ![k] = @ + 1]}
  /\ UNCHANGED <<rowVars, req, job, exec, configured>>

\* A process is configured with the token and the chat, each on its own, while
\* requests already exist.
Configure(p) ==
  /\ p \notin configured
  /\ configured' = configured \cup {p}
  /\ UNCHANGED <<rowVars, req, job, exec, chatVars>>

-----------------------------------------------------------------------------
HandlerStep(r) ==
  Lookup(r) \/ Insert(r) \/ Before(r) \/ Enqueue(r) \/ Wait(r) \/ Reread(r)

WorkerStep(w) ==
  \/ Load(w) \/ MarkUnconfigured(w) \/ Claim(w) \/ Recheck(w) \/ Post(w)
  \/ Await(w) \/ Confirm(w) \/ Settle(w) \/ Finish(w)

Next ==
  \/ \E r \in Requests, k \in Keys, m \in Messages : Submit(r, k, m)
  \/ \E r \in Requests : HandlerStep(r) \/ HandlerDies(r)
  \/ \E w \in Workers, k \in Keys : Take(w, k)
  \/ \E w \in Workers : WorkerStep(w) \/ WorkerDies(w) \/ TelegramAnswers(w)
  \/ \E k \in Keys : Stall(k) \/ Evict(k) \/ TelegramServesLate(k)
  \/ \E p \in Processes : Configure(p)

Spec == Init /\ [][Next]_vars

\* Handlers and executions keep running, and free workers take waiting jobs:
\* every wait of theirs has a timeout.
FairSpec ==
  /\ Spec
  /\ \A r \in Requests : WF_vars(HandlerStep(r))
  /\ \A w \in Workers : WF_vars(WorkerStep(w) \/ \E k \in Keys : Take(w, k))
-----------------------------------------------------------------------------
(* Properties *)

\* The support chat gets a request at most once: retries of the job, a second
\* execution after a lost lock, retries of the browser and requests Telegram
\* serves after their sender gave up never add up to two messages.
DeliveredAtMostOnce == \A k \in Keys : posted[k] + late[k] <= 1

\* A stored message id is evidence: the message is in the chat, and the row
\* says SENT exactly when it has one.
EvidenceIsReal ==
  \A k \in Keys :
    /\ k \in evidence => posted[k] = 1
    /\ (k \in evidence) = (status[k] = "SENT")

\* FAILED is an explicit refusal: the message is not in the chat and no
\* request that could still put it there is on its way.
FailedIsKnown ==
  \A k \in Keys :
    status[k] = "FAILED" =>
      /\ posted[k] = 0 /\ late[k] = 0
      /\ \A w \in Workers : exec[w].key = k => exec[w].wire \notin {"sent", "ok"}

\* A user who is told that the request was delivered sent exactly the message
\* that is in the chat, however many handlers raced for the key.
ToldDeliveredIsMine ==
  \A r \in Requests :
    req[r].answer = "delivered" =>
      posted[req[r].key] = 1 /\ message[req[r].key] = req[r].message

\* SENT and UNCERTAIN are final: no late outcome, retry or reconfiguration
\* reopens a request that may have been delivered.
SettledIsFinal ==
  [][\A k \in Keys :
       /\ status[k] \in {"SENT", "UNCERTAIN"} => status'[k] = status[k]
       /\ status[k] = "SENDING" => status'[k] \notin {"PENDING", "NOT_CONFIGURED"}]_vars

\* The promise of OneDelivery: a message gets into the chat once, an attempt
\* starts only while none is there or on its way, and SENT and UNCERTAIN are
\* final, in every interleaving of handlers, executions and late answers.
Known(k) ==
  CASE status[k] = "ABSENT"                        -> "none"
    [] status[k] \in {"PENDING", "NOT_CONFIGURED"} -> "open"
    [] status[k] = "FAILED"                        -> "refused"
    [] status[k] = "SENDING"                       -> "attempted"
    [] status[k] = "SENT"                          -> "delivered"
    [] status[k] = "UNCERTAIN"                     -> "unknown"

Delivery == INSTANCE OneDelivery WITH
  outcome <- [k \in Keys |-> Known(k)],
  inChat <- {k \in Keys : posted[k] > 0}

ImplementsDelivery == Delivery!DeliverySpec

\* Without faults every claim is settled: no row is left SENDING.
AttemptSettles == \A k \in Keys : status[k] = "SENDING" ~> status[k] # "SENDING"

\* Without faults every browser gets an answer, whatever other handlers and
\* executions do with the row.
AllAreAnswered == \A r \in Requests : Asks(r, "lookup") ~> req[r].answer # "none"

\* What support-request.service.ts says of queue.add: a later retry of the
\* user creates a fresh delivery attempt (of a row that can be claimed, with
\* Telegram configured).
RetryIsFresh ==
  [][\A r \in Requests :
       Asks(r, "enqueue") /\ req'[r].pc = "wait" /\ configured = Processes /\ CanClaim(req[r].key)
         => Live(req[r].key)']_vars
=============================================================================
