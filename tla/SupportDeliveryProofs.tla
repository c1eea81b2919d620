------------------------ MODULE SupportDeliveryProofs ------------------------
(***************************************************************************)
(* Proofs about SupportDelivery, for any number of rows, handlers and      *)
(* executions, attempts and stalls.  SafetyInv says how many messages of a *)
(* row are or may still get into the chat, by the status of the row and by *)
(* the step of the one execution that has claimed it.                      *)
(***************************************************************************)
EXTENDS SupportDelivery, TLAPS

\* The steps of an execution that has claimed its row.
Attempt == {"post", "await", "confirm", "refusal", "unknown"}

\* No message of k is in the chat, or may still get there.
Clean(k)     == posted[k] = 0 /\ late[k] = 0
Delivered(k) == posted[k] = 1 /\ late[k] = 0

\* What the execution record x may say of its row.
ExecOK(x) ==
  /\ x.pc \in Attempt => status[x.key] = "SENDING"
  /\ x.pc # "await" => x.wire = "none"
  /\ x.pc = "await" => x.wire # "none"
  /\ x.pc \in {"post", "refusal"} \/ x.wire \in {"sent", "refused"} => Clean(x.key)
  /\ x.pc = "confirm" \/ x.wire = "ok" => Delivered(x.key)
  /\ x.pc = "finish" /\ x.result = "delivered" => Delivered(x.key)

\* What a row and its job may say.
RowOK(k) ==
  /\ Clean(k) \/ Delivered(k) \/ (posted[k] = 0 /\ late[k] = 1)
  /\ (k \in evidence) = (status[k] = "SENT")
  /\ k \in evidence => Delivered(k)
  /\ status[k] \in Claimable \cup {"ABSENT"} => Clean(k)
  /\ job[k].state = "done" /\ job[k].result = "delivered" => Delivered(k)

\* What a handler's record may say.
ReqOK(q) ==
  /\ q.pc # "done" => q.answer = "none"
  /\ q.pc \in {"before", "enqueue", "wait", "reread"} =>
       Exists(q.key) /\ message[q.key] = q.message
  /\ q.answer = "delivered" =>
       Delivered(q.key) /\ Exists(q.key) /\ message[q.key] = q.message

ExecInv == \A w \in Workers : ExecOK(exec[w])
RowInv  == \A k \in Keys : RowOK(k)
ReqInv  == \A r \in Requests : ReqOK(req[r])

\* One execution at most has claimed a row.
OneAttempt ==
  \A v, w \in Workers :
    exec[v].pc \in Attempt /\ exec[w].pc \in Attempt /\ exec[v].key = exec[w].key => v = w

SafetyInv == TypeOK /\ ExecInv /\ RowInv /\ ReqInv /\ OneAttempt
-----------------------------------------------------------------------------
(* Type correctness *)

\* A handler that runs has a key and a message, and stays a handler.
LEMMA HandlerMoves ==
  ASSUME TypeOK, NEW r \in Requests, req[r].pc \in HandlerSteps
  PROVE  /\ req[r] \in HandlerOf
         /\ \A st \in HandlerSteps : Step(r, st) => req' \in [Requests -> HandlerOf \cup {NotStarted}]
         /\ \A a \in Answers : Answer(r, a) => req' \in [Requests -> HandlerOf \cup {NotStarted}]
  <1>1. req \in [Requests -> HandlerOf \cup {NotStarted}]
    BY DEF TypeOK
  <1>2. req[r] \in HandlerOf
    BY <1>1 DEF NotStarted, HandlerSteps
  <1>3. \A q \in HandlerOf : [req EXCEPT ![r] = q] \in [Requests -> HandlerOf \cup {NotStarted}]
    BY <1>1
  <1>4. ASSUME NEW st \in HandlerSteps, Step(r, st)
        PROVE  req' \in [Requests -> HandlerOf \cup {NotStarted}]
    <2>1. [req[r] EXCEPT !.pc = st] \in HandlerOf
      BY <1>2 DEF HandlerOf
    <2>2. req' = [req EXCEPT ![r] = [req[r] EXCEPT !.pc = st]]
      BY <1>1, <1>4 DEF Step
    <2>3. QED
      BY <1>3, <2>1, <2>2
  <1>5. ASSUME NEW a \in Answers, Answer(r, a)
        PROVE  req' \in [Requests -> HandlerOf \cup {NotStarted}]
    <2>1. [req[r] EXCEPT !.pc = "done", !.answer = a] \in HandlerOf
      BY <1>2 DEF HandlerOf
    <2>2. req' = [req EXCEPT ![r] = [req[r] EXCEPT !.pc = "done", !.answer = a]]
      BY <1>1, <1>5 DEF Answer
    <2>3. QED
      BY <1>3, <2>1, <2>2
  <1>6. QED
    BY <1>2, <1>4, <1>5

\* An execution that runs has a key, and stays an execution.
LEMMA ExecMoves ==
  ASSUME TypeOK, NEW w \in Workers, exec[w].pc # "free"
  PROVE  /\ exec[w] \in ExecOf
         /\ exec \in [Workers -> ExecOf \cup {Free}]
         /\ \A x \in ExecOf \cup {Free} : [exec EXCEPT ![w] = x] \in [Workers -> ExecOf \cup {Free}]
         /\ \A st \in WorkerSteps : [exec[w] EXCEPT !.pc = st] \in ExecOf
         /\ \A st \in WorkerSteps, i \in Wires : [exec[w] EXCEPT !.pc = st, !.wire = i] \in ExecOf
         /\ \A i \in Wires : [exec[w] EXCEPT !.wire = i] \in ExecOf
         /\ \A o \in Results : [exec[w] EXCEPT !.pc = "finish", !.result = o] \in ExecOf
  <1>1. exec \in [Workers -> ExecOf \cup {Free}]
    BY DEF TypeOK
  <1>2. exec[w] \in ExecOf
    BY <1>1 DEF Free
  <1>3. \A st \in WorkerSteps : [exec[w] EXCEPT !.pc = st] \in ExecOf
    BY <1>2 DEF ExecOf
  <1>4. \A st \in WorkerSteps, i \in Wires : [exec[w] EXCEPT !.pc = st, !.wire = i] \in ExecOf
    BY <1>2 DEF ExecOf
  <1>5. \A i \in Wires : [exec[w] EXCEPT !.wire = i] \in ExecOf
    BY <1>2 DEF ExecOf
  <1>6. \A o \in Results : [exec[w] EXCEPT !.pc = "finish", !.result = o] \in ExecOf
    BY <1>2 DEF ExecOf, WorkerSteps
  <1>7. \A x \in ExecOf \cup {Free} : [exec EXCEPT ![w] = x] \in [Workers -> ExecOf \cup {Free}]
    BY <1>1
  <1>8. QED
    BY <1>1, <1>2, <1>3, <1>4, <1>5, <1>6, <1>7

\* The same of the abbreviations of the module.
LEMMA ExecTypes ==
  ASSUME TypeOK, NEW w \in Workers, exec[w].pc # "free"
  PROVE  /\ \A st \in WorkerSteps : Go(w, st) => exec' \in [Workers -> ExecOf \cup {Free}]
         /\ \A st \in WorkerSteps : Hear(w, st) => exec' \in [Workers -> ExecOf \cup {Free}]
         /\ \A o \in Results : End(w, o) => exec' \in [Workers -> ExecOf \cup {Free}]
         /\ Abandon(w) => late' \in [Keys -> Nat]
  <1>1. ASSUME NEW st \in WorkerSteps, Go(w, st)
        PROVE  exec' \in [Workers -> ExecOf \cup {Free}]
    <2>1. exec' = [exec EXCEPT ![w] = [exec[w] EXCEPT !.pc = st]]
      BY <1>1, ExecMoves DEF Go
    <2>2. QED
      BY <2>1, ExecMoves
  <1>2. ASSUME NEW st \in WorkerSteps, Hear(w, st)
        PROVE  exec' \in [Workers -> ExecOf \cup {Free}]
    <2>1. exec' = [exec EXCEPT ![w] = [exec[w] EXCEPT !.pc = st, !.wire = "none"]]
      BY <1>2, ExecMoves DEF Hear
    <2>2. [exec[w] EXCEPT !.pc = st, !.wire = "none"] \in ExecOf
      BY ExecMoves DEF Wires
    <2>3. QED
      BY <2>1, <2>2, ExecMoves
  <1>3. ASSUME NEW o \in Results, End(w, o)
        PROVE  exec' \in [Workers -> ExecOf \cup {Free}]
    <2>1. exec' = [exec EXCEPT ![w] = [exec[w] EXCEPT !.pc = "finish", !.result = o]]
      BY <1>3, ExecMoves DEF End
    <2>2. QED
      BY <2>1, ExecMoves
  <1>4. Abandon(w) => late' \in [Keys -> Nat]
    <2>1. exec[w].key \in Keys
      BY ExecMoves DEF ExecOf
    <2>2. QED
      BY <2>1 DEF Abandon, TypeOK
  <1>5. QED
    BY <1>1, <1>2, <1>3, <1>4

LEMMA JobTypes ==
  ASSUME TypeOK, NEW k \in Keys
  PROVE  /\ job[k] \in JobOf /\ NoJob \in JobOf /\ NewJob \in JobOf
         /\ Retried(k) \in JobOf
         /\ \A o \in Results : [job[k] EXCEPT !.state = "done", !.holder = None, !.result = o] \in JobOf
         /\ \A w \in Workers : [job[k] EXCEPT !.state = "active", !.holder = w] \in JobOf
         /\ Stalled(k) \in JobOf
         /\ \A j \in JobOf : [job EXCEPT ![k] = j] \in [Keys -> JobOf]
  <1>1. job[k] \in JobOf /\ \A j \in JobOf : [job EXCEPT ![k] = j] \in [Keys -> JobOf]
    BY DEF TypeOK
  <1>2. NoJob \in JobOf /\ NewJob \in JobOf
    BY DEF NoJob, NewJob, JobOf, Results
  <1>3. [job[k] EXCEPT !.state = "waiting", !.holder = None, !.fails = @ + 1] \in JobOf
    <2>1. job[k].fails + 1 \in Nat
      BY <1>1 DEF JobOf
    <2>2. \A n \in Nat : [job[k] EXCEPT !.state = "waiting", !.holder = None, !.fails = n] \in JobOf
      BY <1>1 DEF JobOf
    <2>3. QED
      BY <2>1, <2>2
  <1>4. [job[k] EXCEPT !.state = "waiting", !.holder = None, !.stalls = @ + 1] \in JobOf
    <2>1. job[k].stalls + 1 \in Nat
      BY <1>1 DEF JobOf
    <2>2. \A n \in Nat : [job[k] EXCEPT !.state = "waiting", !.holder = None, !.stalls = n] \in JobOf
      BY <1>1 DEF JobOf
    <2>3. QED
      BY <2>1, <2>2
  <1>5. \A o \in Results : [job[k] EXCEPT !.state = "done", !.holder = None, !.result = o] \in JobOf
    BY <1>1 DEF JobOf
  <1>6. \A w \in Workers : [job[k] EXCEPT !.state = "active", !.holder = w] \in JobOf
    BY <1>1 DEF JobOf
  <1>7. Retried(k) \in JobOf
    BY <1>2, <1>3 DEF Retried
  <1>8. Stalled(k) \in JobOf
    BY <1>2, <1>4 DEF Stalled
  <1>9. QED
    BY <1>1, <1>2, <1>5, <1>6, <1>7, <1>8

\* Every step keeps every variable in its type.
LEMMA TypeStep == TypeOK /\ [Next]_vars => TypeOK'
  <1> SUFFICES ASSUME TypeOK, [Next]_vars
               PROVE  TypeOK'
    OBVIOUS
  <1> USE SupportDeliveryAssumption DEF HandlerSteps, WorkerSteps, Answers, Results, Wires
  <1>1. ASSUME NEW r \in Requests, NEW k \in Keys, NEW m \in Messages, Submit(r, k, m)
        PROVE  TypeOK'
    <2>1. [pc |-> "lookup", key |-> k, message |-> m, answer |-> "none"] \in HandlerOf
      BY DEF HandlerOf
    <2>2. QED
      BY <1>1, <2>1 DEF Submit, TypeOK, rowVars, chatVars
  <1>2. ASSUME NEW r \in Requests, Lookup(r) \/ Before(r) \/ Wait(r) \/ Reread(r)
        PROVE  TypeOK'
    BY <1>2, HandlerMoves DEF Lookup, Before, Wait, Reread, Asks, TypeOK, rowVars, chatVars
  <1>3. ASSUME NEW r \in Requests, Insert(r)
        PROVE  TypeOK'
    <2>1. req[r] \in HandlerOf /\ req' \in [Requests -> HandlerOf \cup {NotStarted}]
      BY <1>3, HandlerMoves DEF Insert, Asks
    <2>2. req[r].key \in Keys /\ req[r].message \in Messages
      BY <2>1 DEF HandlerOf
    <2>3. QED
      BY <1>3, <2>1, <2>2 DEF Insert, TypeOK, Statuses, Claimable, rowVars, chatVars
  <1>4. ASSUME NEW r \in Requests, Enqueue(r)
        PROVE  TypeOK'
    <2>1. req[r] \in HandlerOf /\ req' \in [Requests -> HandlerOf \cup {NotStarted}]
      BY <1>4, HandlerMoves DEF Enqueue, Asks
    <2>2. req[r].key \in Keys
      BY <2>1 DEF HandlerOf
    <2>3. job' \in [Keys -> JobOf]
      BY <1>4, <2>2, JobTypes DEF Enqueue, TypeOK
    <2>4. QED
      BY <1>4, <2>1, <2>3 DEF Enqueue, TypeOK, rowVars, chatVars
  <1>5. ASSUME NEW r \in Requests, HandlerDies(r)
        PROVE  TypeOK'
    BY <1>5, HandlerMoves DEF HandlerDies, TypeOK, rowVars, chatVars
  <1>6. ASSUME NEW w \in Workers, NEW k \in Keys, Take(w, k)
        PROVE  TypeOK'
    <2>1. [Free EXCEPT !.pc = "load", !.key = k] \in ExecOf
      BY DEF Free, ExecOf
    <2>2. exec' \in [Workers -> ExecOf \cup {Free}]
      BY <1>6, <2>1 DEF Take, TypeOK
    <2>3. job' = [job EXCEPT ![k] = [job[k] EXCEPT !.state = "active", !.holder = w]]
      BY <1>6 DEF Take, TypeOK
    <2>4. job' \in [Keys -> JobOf]
      BY <2>3, JobTypes
    <2>5. QED
      BY <1>6, <2>2, <2>4 DEF Take, TypeOK, rowVars, chatVars
  <1>7. ASSUME NEW w \in Workers, Load(w) \/ Recheck(w)
        PROVE  TypeOK'
    BY <1>7, ExecTypes DEF Load, Recheck, Runs, TypeOK, rowVars, chatVars
  <1>8. ASSUME NEW w \in Workers,
               MarkUnconfigured(w) \/ Claim(w) \/ Confirm(w) \/ Settle(w)
        PROVE  TypeOK'
    <2>1. exec[w] \in ExecOf /\ exec[w].pc # "free" /\ exec' \in [Workers -> ExecOf \cup {Free}]
      BY <1>8, ExecMoves, ExecTypes DEF MarkUnconfigured, Claim, Confirm, Settle, Runs
    <2>2. exec[w].key \in Keys
      BY <2>1 DEF ExecOf
    <2>3. status' \in [Keys -> Statuses] /\ evidence' \subseteq Keys
      BY <1>8, <2>2 DEF MarkUnconfigured, Claim, Confirm, Settle, Outcome, TypeOK, Statuses,
         Claimable
    <2>4. QED
      BY <1>8, <2>1, <2>3 DEF MarkUnconfigured, Claim, Confirm, Settle, TypeOK, rowVars, chatVars
  <1>9. ASSUME NEW w \in Workers, Post(w)
        PROVE  TypeOK'
    <2>1. exec' = [exec EXCEPT ![w] = [exec[w] EXCEPT !.pc = "await", !.wire = "sent"]]
      BY <1>9, ExecMoves DEF Post, Runs
    <2>2. exec[w].pc # "free"
      BY <1>9 DEF Post, Runs
    <2> DEFINE q == [exec[w] EXCEPT !.pc = "await", !.wire = "sent"]
    <2>3. q \in ExecOf
      BY <2>2, ExecMoves
    <2>4. exec' = [exec EXCEPT ![w] = q]
      BY <2>1
    <2> HIDE DEF q
    <2>5. exec' \in [Workers -> ExecOf \cup {Free}]
      BY <2>2, <2>3, <2>4, ExecMoves
    <2>6. QED
      BY <1>9, <2>5 DEF Post, TypeOK, rowVars, chatVars
  <1>10. ASSUME NEW w \in Workers, Await(w)
         PROVE  TypeOK'
    BY <1>10, ExecTypes DEF Await, Runs, TypeOK, rowVars
  <1>11. ASSUME NEW w \in Workers, Finish(w)
         PROVE  TypeOK'
    <2>1. exec[w] \in ExecOf /\ exec' \in [Workers -> ExecOf \cup {Free}]
      BY <1>11, ExecMoves DEF Finish, Runs
    <2>2. exec[w].key \in Keys /\ exec[w].result \in Results
      BY <2>1 DEF ExecOf
    <2>3. job' \in [Keys -> JobOf]
      BY <1>11, <2>2, JobTypes DEF Finish
    <2>4. QED
      BY <1>11, <2>1, <2>3 DEF Finish, TypeOK, rowVars, chatVars
  <1>12. ASSUME NEW w \in Workers, WorkerDies(w)
         PROVE  TypeOK'
    BY <1>12, ExecMoves, ExecTypes DEF WorkerDies, Runs, TypeOK, rowVars
  <1>13. ASSUME NEW w \in Workers, TelegramAnswers(w)
         PROVE  TypeOK'
    <2>1. exec[w].pc # "free" /\ exec[w] \in ExecOf
      <3>1. exec[w].wire = "sent" /\ exec[w] \in ExecOf \cup {Free}
        BY <1>13 DEF TelegramAnswers, TypeOK
      <3>2. QED
        BY <3>1 DEF Free, ExecOf
    <2>2. exec[w].key \in Keys
      BY <2>1 DEF ExecOf
    <2>3. \E i \in {"ok", "refused"} : exec' = [exec EXCEPT ![w] = [exec[w] EXCEPT !.wire = i]]
      BY <1>13, <2>1, ExecMoves DEF TelegramAnswers
    <2>4. exec' \in [Workers -> ExecOf \cup {Free}]
      <3>1. PICK i \in {"ok", "refused"} : exec' = [exec EXCEPT ![w] = [exec[w] EXCEPT !.wire = i]]
        BY <2>3
      <3>2. [exec[w] EXCEPT !.wire = i] \in ExecOf
        BY <2>1, ExecMoves
      <3>3. QED
        BY <2>1, <3>1, <3>2, ExecMoves
    <2>5. QED
      BY <1>13, <2>2, <2>4 DEF TelegramAnswers, TypeOK, rowVars
  <1>14. ASSUME NEW k \in Keys, Stall(k) \/ Evict(k)
         PROVE  TypeOK'
    <2>1. job' \in [Keys -> JobOf]
      BY <1>14, JobTypes DEF Stall, Evict
    <2>2. QED
      BY <1>14, <2>1 DEF Stall, Evict, TypeOK, rowVars, chatVars
  <1>15. ASSUME NEW k \in Keys, TelegramServesLate(k)
         PROVE  TypeOK'
    BY <1>15 DEF TelegramServesLate, TypeOK, rowVars
  <1>16. CASE (\E p \in Processes : Configure(p)) \/ UNCHANGED vars
    BY <1>16 DEF Configure, TypeOK, vars, rowVars, chatVars
  <1>17. QED
    BY <1>1, <1>2, <1>3, <1>4, <1>5, <1>6, <1>7, <1>8, <1>9, <1>10, <1>11, <1>12, <1>13,
       <1>14, <1>15, <1>16 DEF Next, HandlerStep, WorkerStep
-----------------------------------------------------------------------------
(* The inductive invariant *)

\* What a step may do to a row it is not about.
Kept(k) ==
  /\ status'[k] = status[k] /\ message'[k] = message[k] /\ (k \in evidence') = (k \in evidence)
  /\ posted'[k] = posted[k] /\ late'[k] = late[k] /\ job'[k] = job[k]

\* An execution becomes x in a step about the row k, which no other execution
\* has claimed.
LEMMA ExecMove ==
  ASSUME SafetyInv, NEW w \in Workers, NEW k \in Keys, NEW x \in ExecOf \cup {Free},
         exec' = [exec EXCEPT ![w] = x],
         \A q \in Keys \ {k} : Kept(q),
         Delivered(k) => Delivered(k)',
         \A v \in Workers \ {w} : exec[v].pc \in Attempt => exec[v].key # k,
         ExecOK(x)', x.pc \in Attempt => x.key = k
  PROVE  ExecInv' /\ OneAttempt'
  <1>1. exec \in [Workers -> ExecOf \cup {Free}]
    BY DEF SafetyInv, TypeOK
  <1>2. ASSUME NEW v \in Workers \ {w}
        PROVE  ExecOK(exec[v])'
    <2>1. exec'[v] = exec[v] /\ ExecOK(exec[v])
      BY <1>1 DEF SafetyInv, ExecInv
    <2>2. CASE exec[v] = Free
      BY <2>1, <2>2 DEF ExecOK, Free, Attempt
    <2>3. CASE exec[v] \in ExecOf /\ exec[v].key # k
      <3>1. exec[v].key \in Keys \ {k}
        BY <2>3 DEF ExecOf
      <3>2. QED
        BY <2>1, <3>1 DEF ExecOK, Kept, Clean, Delivered
    <2>4. CASE exec[v] \in ExecOf /\ exec[v].key = k
      <3>1. exec[v].pc \notin Attempt
        BY <2>4
      <3>2. QED
        BY <2>1, <2>4, <3>1 DEF ExecOK, Attempt
    <2>5. QED
      BY <1>1, <2>2, <2>3, <2>4
  <1>3. ExecInv'
    BY <1>1, <1>2 DEF ExecInv
  <1>4. OneAttempt'
    BY <1>1 DEF SafetyInv, OneAttempt
  <1>5. QED
    BY <1>3, <1>4

\* A row keeps its invariant, and what handlers know of it stays true.
LEMMA RowMove ==
  ASSUME SafetyInv, NEW k \in Keys, req' = req, message' = message,
         \A q \in Keys \ {k} : Kept(q),
         Delivered(k) => Delivered(k)', Exists(k) => Exists(k)', RowOK(k)'
  PROVE  RowInv' /\ ReqInv'
  <1>1. RowInv'
    BY DEF SafetyInv, RowInv, RowOK, Kept, Clean, Delivered
  <1>2. ASSUME NEW r \in Requests
        PROVE  ReqOK(req[r])'
    <2>1. ReqOK(req[r]) /\ req[r] \in HandlerOf \cup {NotStarted}
      BY DEF SafetyInv, ReqInv, TypeOK
    <2>2. req[r] = NotStarted \/ req[r].key \in Keys
      BY <2>1 DEF HandlerOf
    <2>3. QED
      BY <2>1, <2>2 DEF ReqOK, Kept, Delivered, Exists, NotStarted
  <1>3. QED
    BY <1>1, <1>2 DEF ReqInv

\* A step that leaves rows, jobs and chat alone.
LEMMA NothingMoves ==
  ASSUME SafetyInv, UNCHANGED <<rowVars, job, chatVars>>
  PROVE  /\ \A k \in Keys : Kept(k) /\ RowOK(k)' /\ (Delivered(k) = Delivered(k)')
                             /\ (Exists(k) = Exists(k)') /\ (Clean(k) = Clean(k)')
         /\ RowInv'
         /\ req' = req => ReqInv'
         /\ exec' = exec => ExecInv' /\ OneAttempt'
  <1>1. \A k \in Keys : Kept(k) /\ RowOK(k)' /\ (Delivered(k) = Delivered(k)')
                          /\ (Exists(k) = Exists(k)') /\ (Clean(k) = Clean(k)')
    BY DEF SafetyInv, RowInv, RowOK, Kept, Delivered, Clean, Exists, rowVars, chatVars
  <1>2. RowInv'
    BY <1>1 DEF RowInv
  <1>3. req' = req => ReqInv'
    BY DEF SafetyInv, ReqInv, ReqOK, Delivered, Exists, rowVars, chatVars
  <1>4. exec' = exec => ExecInv' /\ OneAttempt'
    BY DEF SafetyInv, ExecInv, OneAttempt, ExecOK, Delivered, Clean, rowVars, chatVars
  <1>5. QED
    BY <1>1, <1>2, <1>3, <1>4

\* The handlers read rows and jobs, and never touch a claimed row.
LEMMA HandlerSafe ==
  ASSUME SafetyInv, NEW r \in Requests,
         \/ \E k \in Keys, m \in Messages : Submit(r, k, m)
         \/ Lookup(r) \/ Before(r) \/ Wait(r) \/ Reread(r) \/ HandlerDies(r)
  PROVE  ExecInv' /\ RowInv' /\ ReqInv' /\ OneAttempt'
  <1>1. /\ UNCHANGED <<rowVars, job, chatVars>> /\ exec' = exec
        /\ req \in [Requests -> HandlerOf \cup {NotStarted}] /\ ReqOK(req[r])
        /\ req[r].pc \in HandlerSteps \cup {"idle"}
    BY DEF Submit, Lookup, Before, Wait, Reread, HandlerDies, SafetyInv, TypeOK, ReqInv, Asks,
       HandlerSteps
  <1>2. ASSUME NEW q, req' = [req EXCEPT ![r] = q], ReqOK(q)
        PROVE  ReqInv'
    <2>1. \A v \in Requests : ReqOK(req'[v])
      BY <1>1, <1>2 DEF SafetyInv, ReqInv
    <2>2. \A v : ReqOK(v) => ReqOK(v)'
      BY <1>1 DEF ReqOK, Delivered, Exists, rowVars, chatVars
    <2>3. QED
      BY <2>1, <2>2 DEF ReqInv, ReqOK, Delivered, Exists
  <1>3. ASSUME NEW k \in Keys, NEW m \in Messages, Submit(r, k, m)
        PROVE  ReqInv'
    BY <1>2, <1>3 DEF Submit, ReqOK
  <1>4. req[r].pc \in HandlerSteps => req[r].key \in Keys /\ req[r].answer = "none"
    BY <1>1 DEF HandlerOf, NotStarted, HandlerSteps, ReqOK
  <1>5. ASSUME NEW st \in HandlerSteps, Step(r, st), req[r].pc \in HandlerSteps,
               st # "lookup" /\ st # "insert" =>
                  Exists(req[r].key) /\ message[req[r].key] = req[r].message
        PROVE  ReqInv'
    <2> DEFINE q == [req[r] EXCEPT !.pc = st]
    <2>1. /\ req' = [req EXCEPT ![r] = q] /\ q.pc = st /\ q.answer = "none"
          /\ q.key = req[r].key /\ q.message = req[r].message
      BY <1>1, <1>4, <1>5 DEF Step, HandlerOf, NotStarted, HandlerSteps
    <2> HIDE DEF q
    <2>2. ReqOK(q)
      BY <1>5, <2>1 DEF ReqOK, HandlerSteps
    <2>3. QED
      BY <1>2, <2>1, <2>2
  <1>6. ASSUME NEW a \in Answers, Answer(r, a), req[r].pc \in HandlerSteps,
               a = "delivered" => Delivered(req[r].key) /\ Exists(req[r].key)
                                   /\ message[req[r].key] = req[r].message
        PROVE  ReqInv'
    <2> DEFINE q == [req[r] EXCEPT !.pc = "done", !.answer = a]
    <2>1. /\ req' = [req EXCEPT ![r] = q] /\ q.pc = "done" /\ q.answer = a
          /\ q.key = req[r].key /\ q.message = req[r].message
      <3>1. req[r] \in HandlerOf
        BY <1>6, HandlerMoves DEF SafetyInv
      <3>2. QED
        BY <1>1, <1>6, <3>1 DEF Answer, HandlerOf
    <2> HIDE DEF q
    <2>2. ReqOK(q)
      BY <1>6, <2>1 DEF ReqOK
    <2>3. QED
      BY <1>2, <2>1, <2>2
  <1>7. ASSUME req[r].key \in Keys, req[r].key \in evidence
        PROVE  Delivered(req[r].key)
    BY <1>7 DEF SafetyInv, RowInv, RowOK
  <1>8. ASSUME Lookup(r)
        PROVE  ReqInv'
    BY <1>4, <1>5, <1>6, <1>7, <1>8 DEF Lookup, Asks, SamePayload, HandlerSteps, Answers
  <1>9. ASSUME Before(r)
        PROVE  ReqInv'
    BY <1>1, <1>4, <1>5, <1>6, <1>7, <1>9 DEF Before, Asks, HandlerSteps, Answers, ReqOK
  <1>10. ASSUME Wait(r)
        PROVE  ReqInv'
    BY <1>1, <1>4, <1>5, <1>6, <1>10
       DEF Wait, Asks, HandlerSteps, Answers, ReqOK, SafetyInv, RowInv, RowOK
  <1>11. ASSUME Reread(r)
        PROVE  ReqInv'
    BY <1>1, <1>4, <1>6, <1>7, <1>11 DEF Reread, Asks, HandlerSteps, Answers, ReqOK
  <1>12. ASSUME HandlerDies(r)
        PROVE  ReqInv'
    BY <1>6, <1>12 DEF HandlerDies, Answers
  <1>13. QED
    BY <1>1, <1>3, <1>8, <1>9, <1>10, <1>11, <1>12, NothingMoves

\* Adding a job changes no delivery.
LEMMA EnqueueSafe ==
  ASSUME SafetyInv, NEW r \in Requests, Enqueue(r)
  PROVE  ExecInv' /\ RowInv' /\ ReqInv' /\ OneAttempt'
  <1>1. /\ req[r] \in HandlerOf /\ req[r].key \in Keys /\ ReqOK(req[r])
        /\ UNCHANGED <<rowVars, chatVars, exec>> /\ job \in [Keys -> JobOf]
    BY HandlerMoves DEF Enqueue, Asks, HandlerSteps, HandlerOf, SafetyInv, TypeOK, ReqInv
  <1>2. ExecInv' /\ OneAttempt'
    BY <1>1 DEF SafetyInv, ExecInv, OneAttempt, ExecOK, Delivered, Clean, rowVars, chatVars
  <1>3. \A k \in Keys : job'[k] = job[k] \/ job'[k] = NewJob
    BY <1>1 DEF Enqueue
  <1>4. RowInv'
    BY <1>1, <1>3 DEF SafetyInv, RowInv, RowOK, NewJob, NoJob, Delivered, Clean, rowVars, chatVars
  <1>5. PICK st \in {"wait", "reread"} : Step(r, st)
    BY DEF Enqueue
  <1> DEFINE q == [req[r] EXCEPT !.pc = st]
  <1>6. /\ req' = [req EXCEPT ![r] = q] /\ q.pc = st /\ q.answer = req[r].answer
        /\ q.key = req[r].key /\ q.message = req[r].message
    BY <1>1, <1>5 DEF Step, HandlerOf, SafetyInv, TypeOK
  <1> HIDE DEF q
  <1>7. ReqOK(q)
    BY <1>1, <1>5, <1>6 DEF ReqOK, Enqueue, Asks
  <1>8. \A v \in Requests : ReqOK(req'[v])
    BY <1>6, <1>7 DEF SafetyInv, ReqInv, TypeOK
  <1>9. ReqInv'
    BY <1>1, <1>8 DEF ReqInv, ReqOK, Delivered, Exists, rowVars, chatVars
  <1>10. QED
    BY <1>2, <1>4, <1>9

\* A row is inserted clean.
LEMMA InsertSafe ==
  ASSUME SafetyInv, NEW r \in Requests, Insert(r)
  PROVE  ExecInv' /\ RowInv' /\ ReqInv' /\ OneAttempt'
  <1>1. /\ req[r] \in HandlerOf /\ req[r].key \in Keys /\ ReqOK(req[r])
        /\ UNCHANGED <<evidence, job, chatVars, exec>>
        /\ status \in [Keys -> Statuses] /\ message \in [Keys -> Messages \cup {None}]
        /\ req \in [Requests -> HandlerOf \cup {NotStarted}]
    BY HandlerMoves DEF Insert, Asks, HandlerSteps, HandlerOf, SafetyInv, TypeOK, ReqInv, rowVars
  <1>2. PICK k \in Keys : k = req[r].key
    BY <1>1
  <1>3. \A v \in Keys \ {k} : Kept(v)
    BY <1>1, <1>2 DEF Insert, Kept, rowVars, chatVars
  <1>4. Exists(k) => Kept(k)
    BY <1>1, <1>2 DEF Insert, Kept, rowVars, chatVars
  <1>5. ~ Exists(k) => /\ status'[k] \in Claimable /\ message'[k] = req[r].message
                       /\ Clean(k) /\ k \notin evidence
    BY <1>1, <1>2 DEF Insert, Claimable, Exists, SafetyInv, RowInv, RowOK
  <1>6. RowInv'
    <2>1. \A v \in Keys : Kept(v) => RowOK(v)'
      BY DEF SafetyInv, RowInv, RowOK, Kept, Clean, Delivered
    <2>2. ~ Exists(k) => RowOK(k)'
      BY <1>1, <1>5 DEF SafetyInv, RowInv, RowOK, Clean, Delivered, Claimable, chatVars
    <2>3. QED
      BY <1>3, <1>4, <2>1, <2>2 DEF RowInv
  <1>7. ExecInv' /\ OneAttempt'
    <2>1. ASSUME NEW w \in Workers
          PROVE  ExecOK(exec[w])'
      <3>1. ExecOK(exec[w]) /\ exec'[w] = exec[w] /\ exec[w] \in ExecOf \cup {Free}
        BY <1>1 DEF SafetyInv, ExecInv, TypeOK
      <3>2. exec[w].pc \in Attempt => exec[w].key \in Keys /\ status'[exec[w].key] = "SENDING"
        BY <1>3, <1>4, <3>1 DEF ExecOK, ExecOf, Free, Attempt, Kept, Exists
      <3>3. QED
        BY <1>1, <3>1, <3>2 DEF ExecOK, Clean, Delivered, chatVars
    <2>2. QED
      BY <1>1, <2>1 DEF ExecInv, SafetyInv, OneAttempt
  <1>8. PICK q \in HandlerOf :
          /\ req' = [req EXCEPT ![r] = q] /\ q.key = k /\ q.message = req[r].message
          /\ q.answer # "delivered"
          /\ \/ q.pc = "before" /\ (Exists(k) => SamePayload(r))
             \/ q.pc = "done"
    <2> DEFINE waits      == [req[r] EXCEPT !.pc = "before"]
               refused(a) == [req[r] EXCEPT !.pc = "done", !.answer = a]
    <2>1. /\ waits \in HandlerOf /\ waits.pc = "before" /\ waits.key = k
          /\ waits.message = req[r].message /\ waits.answer # "delivered"
      BY <1>1, <1>2 DEF HandlerOf, HandlerSteps, ReqOK, Insert, Asks
    <2>2. \A a \in {"conflict", "unavailable"} :
            /\ refused(a) \in HandlerOf /\ refused(a).pc = "done" /\ refused(a).key = k
            /\ refused(a).message = req[r].message /\ refused(a).answer # "delivered"
      BY <1>1, <1>2 DEF HandlerOf, Answers
    <2>3. \/ Step(r, "before") /\ (Exists(k) => SamePayload(r))
          \/ \E a \in {"conflict", "unavailable"} : Answer(r, a)
      BY <1>2 DEF Insert
    <2>4. Step(r, "before") => req' = [req EXCEPT ![r] = waits]
      BY <1>1 DEF Step
    <2>5. \A a : Answer(r, a) => req' = [req EXCEPT ![r] = refused(a)]
      BY <1>1 DEF Answer
    <2> HIDE DEF waits, refused
    <2>6. QED
      BY <2>1, <2>2, <2>3, <2>4, <2>5
  <1>9. ASSUME NEW v \in Requests
        PROVE  ReqOK(req[v])'
    <2>1. CASE v = r
      <3>1. req'[r] = q
        BY <1>1, <1>8
      <3>2. q.pc = "before" => status'[k] # "ABSENT" /\ message'[k] = q.message
        BY <1>2, <1>4, <1>5, <1>8 DEF SamePayload, Exists, Kept, Claimable
      <3>3. q.pc # "done" => q.answer = "none"
        BY <1>1, <1>2, <1>8 DEF Insert, Step, Answer, HandlerOf, ReqOK, Asks
      <3>4. QED
        BY <1>8, <2>1, <3>1, <3>2, <3>3 DEF ReqOK, Exists
    <2>2. CASE v # r
      <3>1. req'[v] = req[v] /\ ReqOK(req[v]) /\ req[v] \in HandlerOf \cup {NotStarted}
        BY <1>1, <1>8, <2>2 DEF SafetyInv, ReqInv
      <3>2. req[v] = NotStarted \/ req[v].key \in Keys
        BY <3>1 DEF HandlerOf
      <3>3. QED
        BY <1>3, <1>4, <3>1, <3>2 DEF ReqOK, Kept, Exists, Delivered, NotStarted
    <2>3. QED
      BY <2>1, <2>2
  <1>10. QED
    BY <1>6, <1>7, <1>9 DEF ReqInv

\* An execution that moves on, everything else being what it was.
LEMMA ExecAlone ==
  ASSUME SafetyInv, NEW w \in Workers, NEW x \in ExecOf \cup {Free},
         exec' = [exec EXCEPT ![w] = x],
         UNCHANGED <<rowVars, job, chatVars, req>>,
         ExecOK(x), x.pc \in Attempt => exec[w].pc \in Attempt /\ x.key = exec[w].key
  PROVE  ExecInv' /\ RowInv' /\ ReqInv' /\ OneAttempt'
  <1>1. exec \in [Workers -> ExecOf \cup {Free}]
    BY DEF SafetyInv, TypeOK
  <1>2. \A v \in Workers : ExecOK(exec'[v])
    BY <1>1 DEF SafetyInv, ExecInv
  <1>3. ExecInv'
    BY <1>2 DEF ExecInv, ExecOK, Clean, Delivered, rowVars, chatVars
  <1>4. OneAttempt'
    BY <1>1 DEF SafetyInv, OneAttempt
  <1>5. QED
    BY <1>3, <1>4, NothingMoves

\* The record an execution moves to.
LEMMA ExecNext ==
  ASSUME SafetyInv, NEW w \in Workers, exec[w].pc # "free"
  PROVE  /\ exec[w] \in ExecOf /\ exec[w].key \in Keys /\ ExecOK(exec[w])
         /\ \A st \in WorkerSteps : Go(w, st) => \E x \in ExecOf :
              /\ exec' = [exec EXCEPT ![w] = x]
              /\ x.pc = st /\ x.key = exec[w].key /\ x.wire = exec[w].wire
              /\ x.result = exec[w].result
         /\ \A st \in WorkerSteps : Hear(w, st) => \E x \in ExecOf :
              /\ exec' = [exec EXCEPT ![w] = x]
              /\ x.pc = st /\ x.key = exec[w].key /\ x.wire = "none"
              /\ x.result = exec[w].result
         /\ \A o \in Results : End(w, o) => \E x \in ExecOf :
              /\ exec' = [exec EXCEPT ![w] = x]
              /\ x.pc = "finish" /\ x.key = exec[w].key /\ x.wire = exec[w].wire
              /\ x.result = o
  <1>1. TypeOK /\ exec \in [Workers -> ExecOf \cup {Free}] /\ ExecOK(exec[w])
    BY DEF SafetyInv, TypeOK, ExecInv
  <1>2. exec[w] \in ExecOf
    BY <1>1, ExecMoves
  <1>3. exec[w].key \in Keys
    BY <1>2 DEF ExecOf
  <1>4. ASSUME NEW st \in WorkerSteps, Go(w, st)
        PROVE  \E x \in ExecOf :
                 /\ exec' = [exec EXCEPT ![w] = x]
                 /\ x.pc = st /\ x.key = exec[w].key /\ x.wire = exec[w].wire
                 /\ x.result = exec[w].result
    <2> DEFINE x == [exec[w] EXCEPT !.pc = st]
    <2>1. x \in ExecOf /\ exec' = [exec EXCEPT ![w] = x]
      BY <1>1, <1>4, ExecMoves DEF Go
    <2>2. x.pc = st /\ x.key = exec[w].key /\ x.wire = exec[w].wire /\ x.result = exec[w].result
      BY <1>2 DEF ExecOf
    <2> HIDE DEF x
    <2>3. QED
      BY <2>1, <2>2
  <1>5. ASSUME NEW st \in WorkerSteps, Hear(w, st)
        PROVE  \E x \in ExecOf :
                 /\ exec' = [exec EXCEPT ![w] = x]
                 /\ x.pc = st /\ x.key = exec[w].key /\ x.wire = "none"
                 /\ x.result = exec[w].result
    <2> DEFINE x == [exec[w] EXCEPT !.pc = st, !.wire = "none"]
    <2>1. x \in ExecOf /\ exec' = [exec EXCEPT ![w] = x]
      BY <1>1, <1>5, ExecMoves DEF Hear, Wires
    <2>2. x.pc = st /\ x.key = exec[w].key /\ x.wire = "none" /\ x.result = exec[w].result
      BY <1>2 DEF ExecOf
    <2> HIDE DEF x
    <2>3. QED
      BY <2>1, <2>2
  <1>6. ASSUME NEW o \in Results, End(w, o)
        PROVE  \E x \in ExecOf :
                 /\ exec' = [exec EXCEPT ![w] = x]
                 /\ x.pc = "finish" /\ x.key = exec[w].key /\ x.wire = exec[w].wire
                 /\ x.result = o
    <2> DEFINE x == [exec[w] EXCEPT !.pc = "finish", !.result = o]
    <2>1. x \in ExecOf /\ exec' = [exec EXCEPT ![w] = x]
      BY <1>1, <1>6, ExecMoves DEF End
    <2>2. x.pc = "finish" /\ x.key = exec[w].key /\ x.wire = exec[w].wire /\ x.result = o
      BY <1>2 DEF ExecOf
    <2> HIDE DEF x
    <2>3. QED
      BY <2>1, <2>2
  <1>7. QED
    BY <1>1, <1>2, <1>3, <1>4, <1>5, <1>6

\* Only one execution has claimed the row of w.
LEMMA OthersHaveNot ==
  ASSUME SafetyInv, NEW w \in Workers, NEW k \in Keys,
         status[k] # "SENDING" \/ (exec[w].pc \in Attempt /\ exec[w].key = k)
  PROVE  \A v \in Workers \ {w} : exec[v].pc \in Attempt => exec[v].key # k
  BY DEF SafetyInv, ExecInv, ExecOK, OneAttempt

\* Steps of an execution that leave its row alone.
LEMMA ReadingSafe ==
  ASSUME SafetyInv, NEW w \in Workers,
         \/ Load(w) \/ Recheck(w) \/ Post(w)
         \/ (MarkUnconfigured(w) \/ Claim(w) \/ Confirm(w) \/ Settle(w) \/ Await(w))
              /\ UNCHANGED <<rowVars, late>>
  PROVE  ExecInv' /\ RowInv' /\ ReqInv' /\ OneAttempt'
  <1> DEFINE k == exec[w].key
             Goal == ExecInv' /\ RowInv' /\ ReqInv' /\ OneAttempt'
  <1> USE DEF WorkerSteps, Results
  <1>1. /\ exec[w].pc # "free" /\ UNCHANGED <<job, req>>
        /\ UNCHANGED <<rowVars, chatVars>>
    BY DEF Load, Recheck, Post, MarkUnconfigured, Claim, Confirm, Settle, Await, Runs, rowVars,
       chatVars
  <1>2. exec[w] \in ExecOf /\ k \in Keys /\ ExecOK(exec[w]) /\ RowOK(k)
    BY <1>1, ExecNext DEF SafetyInv, RowInv
  <1>3. ASSUME NEW o \in Results, End(w, o), exec[w].wire = "none",
               o = "delivered" => Delivered(k)
        PROVE  Goal
    <2>1. PICK x \in ExecOf :
            /\ exec' = [exec EXCEPT ![w] = x]
            /\ x.pc = "finish" /\ x.key = k /\ x.wire = "none" /\ x.result = o
      BY <1>1, <1>3, ExecNext
    <2>2. ExecOK(x)
      BY <1>3, <2>1 DEF ExecOK, Attempt
    <2>3. QED
      BY <1>1, <2>1, <2>2, ExecAlone DEF Attempt
  <1>4. ASSUME NEW st \in {"claim", "unconfigured", "recheck"}, Go(w, st), exec[w].wire = "none"
        PROVE  Goal
    <2>1. PICK x \in ExecOf :
            /\ exec' = [exec EXCEPT ![w] = x] /\ x.pc = st /\ x.key = k /\ x.wire = "none"
      BY <1>1, <1>4, ExecNext
    <2>2. ExecOK(x)
      BY <2>1 DEF ExecOK, Attempt
    <2>3. QED
      BY <1>1, <2>1, <2>2, ExecAlone DEF Attempt
  <1>5. k \in evidence => Delivered(k)
    BY <1>2 DEF RowOK
  <1>6. ~ Runs(w, "await") => exec[w].wire = "none"
    BY <1>2 DEF ExecOK, Runs
  <1>7. CASE Load(w)
    BY <1>3, <1>4, <1>5, <1>6, <1>7 DEF Load, Runs
  <1>8. CASE Recheck(w)
    BY <1>3, <1>5, <1>6, <1>8 DEF Recheck, Runs
  <1>9. CASE MarkUnconfigured(w)
    BY <1>3, <1>6, <1>9 DEF MarkUnconfigured, Runs
  <1>10. CASE Claim(w) /\ UNCHANGED rowVars
    <2>1. status[k] \in Claimable => status' # [status EXCEPT ![k] = "SENDING"]
      BY <1>1, <1>2 DEF SafetyInv, TypeOK, rowVars, Claimable
    <2>2. Go(w, "recheck") \/ End(w, "throw")
      BY <1>10, <2>1 DEF Claim, CanClaim
    <2>3. QED
      BY <1>3, <1>4, <1>6, <1>10, <2>2 DEF Claim, Runs
  <1>11. CASE Confirm(w)
    BY <1>2, <1>3, <1>6, <1>11 DEF Confirm, Runs, ExecOK
  <1>12. CASE Settle(w)
    BY <1>3, <1>6, <1>12 DEF Settle, Runs
  <1>13. CASE Post(w)
    <2> DEFINE x == [exec[w] EXCEPT !.pc = "await", !.wire = "sent"]
    <2>1. /\ x \in ExecOf /\ exec' = [exec EXCEPT ![w] = x]
          /\ x.pc = "await" /\ x.wire = "sent" /\ x.key = k
      BY <1>2, <1>13 DEF Post, ExecOf, Wires, SafetyInv, TypeOK
    <2> HIDE DEF x
    <2>2. ExecOK(x)
      BY <1>2, <1>13, <2>1 DEF Post, Runs, ExecOK, Attempt
    <2>3. QED
      BY <1>1, <1>13, <2>1, <2>2, ExecAlone DEF Post, Runs, Attempt
  <1>14. CASE Await(w) /\ late' = late
    <2>1. PICK st \in {"confirm", "refusal", "unknown"} :
            /\ Hear(w, st)
            /\ st = "confirm" => exec[w].wire = "ok"
            /\ st = "refusal" => exec[w].wire = "refused"
      BY <1>14 DEF Await
    <2>2. PICK x \in ExecOf :
            /\ exec' = [exec EXCEPT ![w] = x] /\ x.pc = st /\ x.key = k /\ x.wire = "none"
      BY <1>1, <2>1, ExecNext
    <2>3. ExecOK(x)
      BY <1>2, <1>14, <2>1, <2>2 DEF Await, Runs, ExecOK, Attempt
    <2>4. QED
      BY <1>1, <1>14, <2>2, <2>3, ExecAlone DEF Await, Runs, Attempt
  <1>15. QED
    BY <1>7, <1>8, <1>9, <1>10, <1>11, <1>12, <1>13, <1>14

\* A step of w about its row k: the row's new state and w's new record.
LEMMA AttemptMove ==
  ASSUME SafetyInv, NEW w \in Workers, NEW k \in Keys, NEW x \in ExecOf \cup {Free},
         exec' = [exec EXCEPT ![w] = x], UNCHANGED <<req, message>>,
         \A q \in Keys \ {k} : Kept(q),
         status[k] # "SENDING" \/ (exec[w].pc \in Attempt /\ exec[w].key = k),
         Delivered(k) => Delivered(k)', Exists(k) => Exists(k)',
         RowOK(k)', ExecOK(x)', x.pc \in Attempt => x.key = k
  PROVE  ExecInv' /\ RowInv' /\ ReqInv' /\ OneAttempt'
  <1>1. \A v \in Workers \ {w} : exec[v].pc \in Attempt => exec[v].key # k
    BY OthersHaveNot
  <1>2. ExecInv' /\ OneAttempt'
    BY <1>1, ExecMove
  <1>3. RowInv' /\ ReqInv'
    BY RowMove
  <1>4. QED
    BY <1>2, <1>3

\* Steps of an execution that change the status of its row.
LEMMA WritingSafe ==
  ASSUME SafetyInv, NEW w \in Workers,
         MarkUnconfigured(w) \/ Claim(w) \/ Confirm(w) \/ Settle(w)
  PROVE  ExecInv' /\ RowInv' /\ ReqInv' /\ OneAttempt'
  <1> DEFINE Goal == ExecInv' /\ RowInv' /\ ReqInv' /\ OneAttempt'
  <1> USE DEF WorkerSteps, Results
  <1>1. /\ exec[w].pc # "free" /\ UNCHANGED <<job, req, message, chatVars>>
    BY DEF MarkUnconfigured, Claim, Confirm, Settle, Runs
  <1>2. exec[w] \in ExecOf /\ exec[w].key \in Keys /\ ExecOK(exec[w])
    BY <1>1, ExecNext
  <1>3. PICK k \in Keys : k = exec[w].key
    BY <1>2
  <1>4. /\ RowOK(k) /\ status \in [Keys -> Statuses] /\ evidence \subseteq Keys
        /\ ~ Runs(w, "await") => exec[w].wire = "none"
    BY <1>2 DEF SafetyInv, RowInv, TypeOK, ExecOK, Runs
  <1>5. ASSUME NEW v \in Statuses, status' = [status EXCEPT ![k] = v],
               evidence' = evidence \/ evidence' = evidence \cup {k}
        PROVE  (\A q \in Keys \ {k} : Kept(q)) /\ status'[k] = v
    BY <1>1, <1>4, <1>5 DEF Kept, chatVars
  <1>6. CASE UNCHANGED rowVars
    BY <1>6, ReadingSafe DEF MarkUnconfigured, Claim, Confirm, Settle, chatVars
  <1>7. CASE /\ MarkUnconfigured(w) /\ status[k] \in Claimable /\ End(w, "other")
             /\ status' = [status EXCEPT ![k] = "NOT_CONFIGURED"] /\ evidence' = evidence
    <2>1. PICK x \in ExecOf :
            /\ exec' = [exec EXCEPT ![w] = x]
            /\ x.pc = "finish" /\ x.key = k /\ x.wire = "none" /\ x.result = "other"
      BY <1>1, <1>3, <1>4, <1>7, ExecNext DEF MarkUnconfigured, Runs
    <2>2. (\A q \in Keys \ {k} : Kept(q)) /\ status'[k] = "NOT_CONFIGURED"
      BY <1>5, <1>7 DEF Statuses, Claimable
    <2>3. /\ RowOK(k)' /\ ExecOK(x)' /\ (Delivered(k) => Delivered(k)')
          /\ (Exists(k) => Exists(k)')
      BY <1>1, <1>4, <1>7, <2>1, <2>2
         DEF RowOK, ExecOK, Clean, Delivered, Exists, Attempt, Claimable, chatVars
    <2>4. QED
      BY <1>1, <1>7, <2>1, <2>2, <2>3, AttemptMove DEF Claimable, Attempt
  <1>8. CASE /\ Claim(w) /\ CanClaim(k) /\ (Go(w, "post") \/ End(w, "throw"))
             /\ status' = [status EXCEPT ![k] = "SENDING"] /\ evidence' = evidence
    <2>1. PICK x \in ExecOf :
            /\ exec' = [exec EXCEPT ![w] = x]
            /\ x.pc = "post" \/ (x.pc = "finish" /\ x.result = "throw")
            /\ x.key = k /\ x.wire = "none"
      BY <1>1, <1>3, <1>4, <1>8, ExecNext DEF Claim, Runs
    <2>2. (\A q \in Keys \ {k} : Kept(q)) /\ status'[k] = "SENDING"
      BY <1>5, <1>8 DEF Statuses, Claimable
    <2>3. /\ RowOK(k)' /\ ExecOK(x)' /\ (Delivered(k) => Delivered(k)')
          /\ (Exists(k) => Exists(k)')
      BY <1>1, <1>4, <1>8, <2>1, <2>2
         DEF RowOK, ExecOK, Clean, Delivered, Exists, Attempt, Claimable, CanClaim, chatVars
    <2>4. QED
      BY <1>1, <1>8, <2>1, <2>2, <2>3, AttemptMove DEF CanClaim, Claimable
  <1>9. CASE /\ Confirm(w) /\ Claimed(k)
             /\ status' = [status EXCEPT ![k] = "SENT"] /\ evidence' = evidence \cup {k}
    <2>1. PICK x \in ExecOf :
            /\ exec' = [exec EXCEPT ![w] = x]
            /\ x.pc = "finish" /\ x.key = k /\ x.wire = "none"
      BY <1>1, <1>3, <1>4, <1>9, ExecNext DEF Confirm, Runs
    <2>2. (\A q \in Keys \ {k} : Kept(q)) /\ status'[k] = "SENT"
      BY <1>5, <1>9 DEF Statuses, Claimable
    <2>3. Delivered(k) /\ exec[w].pc = "confirm"
      BY <1>2, <1>3, <1>9 DEF Confirm, Runs, ExecOK
    <2>4. /\ RowOK(k)' /\ ExecOK(x)' /\ (Delivered(k) => Delivered(k)')
          /\ (Exists(k) => Exists(k)')
      BY <1>1, <1>4, <1>9, <2>1, <2>2, <2>3
         DEF RowOK, ExecOK, Clean, Delivered, Exists, Attempt, Claimable, chatVars
    <2>5. QED
      BY <1>1, <1>3, <2>1, <2>2, <2>3, <2>4, AttemptMove DEF Attempt
  <1>10. CASE /\ Settle(w) /\ Claimed(k) /\ evidence' = evidence
              /\ status' = [status EXCEPT ![k] = Outcome(w)]
    <2>1. PICK o \in {"throw", "other"} : End(w, o)
      BY <1>10 DEF Settle
    <2>2. PICK x \in ExecOf :
            /\ exec' = [exec EXCEPT ![w] = x]
            /\ x.pc = "finish" /\ x.key = k /\ x.wire = "none" /\ x.result = o
      BY <1>1, <1>3, <1>4, <1>10, <2>1, ExecNext DEF Settle, Runs
    <2>3. /\ exec[w].pc \in {"refusal", "unknown"}
          /\ Outcome(w) = "UNCERTAIN" \/ (Outcome(w) = "FAILED" /\ Clean(k))
      BY <1>2, <1>3, <1>10 DEF Settle, Runs, ExecOK, Outcome
    <2>4. PICK v \in {"UNCERTAIN", "FAILED"} : v = Outcome(w)
      BY <2>3
    <2>5. (\A q \in Keys \ {k} : Kept(q)) /\ status'[k] = v
      BY <1>5, <1>10, <2>4 DEF Statuses, Claimable
    <2>6. /\ RowOK(k)' /\ ExecOK(x)' /\ (Delivered(k) => Delivered(k)')
          /\ (Exists(k) => Exists(k)')
      BY <1>1, <1>4, <1>10, <2>2, <2>3, <2>4, <2>5
         DEF RowOK, ExecOK, Clean, Delivered, Exists, Attempt, Claimable, Claimed, chatVars
    <2>7. QED
      BY <1>1, <1>3, <2>2, <2>3, <2>5, <2>6, AttemptMove DEF Attempt
  <1>11. CASE MarkUnconfigured(w)
    BY <1>3, <1>6, <1>7, <1>11 DEF MarkUnconfigured, rowVars
  <1>12. CASE Claim(w)
    BY <1>3, <1>6, <1>8, <1>12 DEF Claim, rowVars
  <1>13. CASE Confirm(w)
    BY <1>3, <1>6, <1>9, <1>13 DEF Confirm, rowVars
  <1>14. CASE Settle(w)
    BY <1>3, <1>6, <1>10, <1>14 DEF Settle, rowVars
  <1>15. QED
    BY <1>11, <1>12, <1>13, <1>14

\* The wait for Telegram ends, by its answer, by giving up or by a crash.
LEMMA WaitingSafe ==
  ASSUME SafetyInv, NEW w \in Workers, Await(w) \/ WorkerDies(w) \/ TelegramAnswers(w)
  PROVE  ExecInv' /\ RowInv' /\ ReqInv' /\ OneAttempt'
  <1>1. /\ exec[w].pc # "free" /\ UNCHANGED <<job, req, rowVars>>
        /\ exec \in [Workers -> ExecOf \cup {Free}]
        /\ posted \in [Keys -> Nat] /\ late \in [Keys -> Nat]
    BY DEF Await, WorkerDies, TelegramAnswers, Runs, SafetyInv, TypeOK, ExecInv, ExecOK, Free
  <1>2. exec[w] \in ExecOf /\ exec[w].key \in Keys /\ ExecOK(exec[w])
    BY <1>1, ExecNext
  <1>3. PICK k \in Keys : k = exec[w].key
    BY <1>2
  <1>4. RowOK(k)
    BY DEF SafetyInv, RowInv
  <1>5. ASSUME exec[w].wire = "sent"
        PROVE  exec[w].pc = "await" /\ status[k] = "SENDING" /\ Clean(k) /\ exec[w].pc \in Attempt
    BY <1>2, <1>3, <1>5 DEF ExecOK, Attempt
  <1>6. CASE Await(w) /\ exec[w].wire # "sent"
    BY <1>6, ReadingSafe DEF Await, Abandon, rowVars
  <1>7. CASE Await(w) /\ exec[w].wire = "sent"
    <2>1. Hear(w, "unknown") /\ late' = [late EXCEPT ![k] = @ + 1] /\ posted' = posted
      BY <1>3, <1>7 DEF Await, Abandon
    <2>2. PICK x \in ExecOf :
            /\ exec' = [exec EXCEPT ![w] = x]
            /\ x.pc = "unknown" /\ x.key = k /\ x.wire = "none"
      BY <1>1, <1>3, <2>1, ExecNext DEF WorkerSteps
    <2>3. (\A q \in Keys \ {k} : Kept(q)) /\ late'[k] = 1 /\ posted'[k] = 0
      BY <1>1, <1>5, <1>7, <2>1 DEF Kept, Clean, rowVars
    <2>4. /\ RowOK(k)' /\ ExecOK(x)' /\ (Delivered(k) => Delivered(k)')
          /\ (Exists(k) => Exists(k)')
      BY <1>1, <1>4, <1>5, <1>7, <2>2, <2>3
         DEF RowOK, ExecOK, Clean, Delivered, Exists, Attempt, Claimable, rowVars
    <2>5. QED
      BY <1>1, <1>3, <1>5, <1>7, <2>2, <2>3, <2>4, AttemptMove DEF Attempt, rowVars
  <1>8. CASE WorkerDies(w)
    <2>1. exec' = [exec EXCEPT ![w] = Free] /\ Abandon(w) /\ posted' = posted
      BY <1>8 DEF WorkerDies
    <2>2. ExecOK(Free)' /\ ExecOK(Free) /\ Free.pc \notin Attempt
      BY DEF ExecOK, Free, Attempt
    <2>3. CASE exec[w].wire = "sent"
      <3>1. (\A q \in Keys \ {k} : Kept(q)) /\ late'[k] = 1 /\ posted'[k] = 0
        BY <1>1, <1>3, <1>5, <2>1, <2>3 DEF Abandon, Kept, Clean, rowVars
      <3>2. RowOK(k)' /\ (Delivered(k) => Delivered(k)') /\ (Exists(k) => Exists(k)')
        BY <1>1, <1>4, <1>5, <2>3, <3>1
           DEF RowOK, Clean, Delivered, Exists, Claimable, rowVars
      <3>3. QED
        BY <1>1, <1>3, <1>5, <2>1, <2>2, <2>3, <3>1, <3>2, AttemptMove DEF rowVars
    <2>4. CASE exec[w].wire # "sent"
      <3>1. UNCHANGED <<rowVars, job, chatVars, req>>
        BY <1>1, <2>1, <2>4 DEF Abandon, chatVars
      <3>2. QED
        BY <2>1, <2>2, <3>1, ExecAlone
    <2>5. QED
      BY <2>3, <2>4
  <1>9. CASE TelegramAnswers(w)
    <2>1. exec[w].wire = "sent" /\ late' = late
      BY <1>9 DEF TelegramAnswers
    <2>2. PICK i \in {"ok", "refused"} :
            /\ exec' = [exec EXCEPT ![w].wire = i]
            /\ i = "ok" => posted' = [posted EXCEPT ![k] = @ + 1]
            /\ i = "refused" => posted' = posted
      BY <1>3, <1>9 DEF TelegramAnswers
    <2>3. PICK x \in ExecOf :
            /\ exec' = [exec EXCEPT ![w] = x]
            /\ x.pc = "await" /\ x.key = k /\ x.wire = i
      <3> DEFINE x == [exec[w] EXCEPT !.wire = i]
      <3>1. x \in ExecOf /\ exec' = [exec EXCEPT ![w] = x]
        BY <1>1, <1>2, <2>2, ExecMoves DEF SafetyInv, Wires
      <3>2. x.pc = "await" /\ x.key = k /\ x.wire = i
        BY <1>2, <1>3, <1>5, <2>1 DEF ExecOf
      <3> HIDE DEF x
      <3>3. QED
        BY <3>1, <3>2
    <2>4. /\ \A q \in Keys \ {k} : Kept(q)
          /\ late'[k] = 0
          /\ posted'[k] = IF i = "ok" THEN 1 ELSE 0
      BY <1>1, <1>5, <2>1, <2>2 DEF Kept, Clean, rowVars
    <2>5. /\ RowOK(k)' /\ ExecOK(x)' /\ (Delivered(k) => Delivered(k)')
          /\ (Exists(k) => Exists(k)')
      BY <1>1, <1>4, <1>5, <2>1, <2>3, <2>4
         DEF RowOK, ExecOK, Clean, Delivered, Exists, Attempt, Claimable, rowVars
    <2>6. QED
      BY <1>1, <1>3, <1>5, <2>1, <2>3, <2>4, <2>5, AttemptMove DEF rowVars
  <1>10. QED
    BY <1>6, <1>7, <1>8, <1>9

\* A request that Telegram serves late is the only one of its row.
LEMMA LateSafe ==
  ASSUME SafetyInv, NEW k \in Keys, TelegramServesLate(k)
  PROVE  ExecInv' /\ RowInv' /\ ReqInv' /\ OneAttempt'
  <1>1. /\ UNCHANGED <<job, req, exec, rowVars>>
        /\ posted \in [Keys -> Nat] /\ late \in [Keys -> Nat]
        /\ exec \in [Workers -> ExecOf \cup {Free}] /\ RowOK(k)
    BY DEF TelegramServesLate, SafetyInv, TypeOK, RowInv
  <1>2. ~ Clean(k) /\ ~ Delivered(k) /\ late[k] = 1 /\ posted[k] = 0
    BY <1>1 DEF TelegramServesLate, RowOK, Clean, Delivered
  <1>3. /\ \A q \in Keys \ {k} : Kept(q)
        /\ Clean(k)' \/ Delivered(k)'
    BY <1>1, <1>2 DEF TelegramServesLate, Kept, Clean, Delivered, rowVars
  <1>4. RowOK(k)' /\ (Exists(k) => Exists(k)')
    BY <1>1, <1>2, <1>3 DEF RowOK, Exists, rowVars
  <1>5. RowInv' /\ ReqInv'
    BY <1>1, <1>2, <1>3, <1>4, RowMove DEF rowVars
  <1>6. ASSUME NEW w \in Workers
        PROVE  ExecOK(exec[w])'
    <2>1. ExecOK(exec[w]) /\ exec'[w] = exec[w] /\ exec[w] \in ExecOf \cup {Free}
      BY <1>1 DEF SafetyInv, ExecInv
    <2>2. exec[w] = Free \/ exec[w].key \in Keys
      BY <2>1 DEF ExecOf
    <2>3. QED
      BY <1>1, <1>2, <1>3, <2>1, <2>2 DEF ExecOK, Kept, Clean, Delivered, Free, Attempt, rowVars
  <1>7. QED
    BY <1>1, <1>5, <1>6 DEF ExecInv, SafetyInv, OneAttempt

\* What happens to jobs changes no delivery.
LEMMA QueueSafe ==
  ASSUME SafetyInv,
         \/ \E w \in Workers, k \in Keys : Take(w, k)
         \/ \E w \in Workers : Finish(w)
         \/ \E k \in Keys : Stall(k) \/ Evict(k)
  PROVE  ExecInv' /\ RowInv' /\ ReqInv' /\ OneAttempt'
  <1>1. UNCHANGED <<rowVars, req, chatVars>>
    BY DEF Take, Finish, Stall, Evict
  <1>2. ReqInv'
    BY <1>1 DEF SafetyInv, ReqInv, ReqOK, Delivered, Exists, rowVars, chatVars
  <1>3. ASSUME NEW w \in Workers, NEW x, exec' = [exec EXCEPT ![w] = x],
               x.pc \in {"free", "load"}, x.wire = "none"
        PROVE  ExecInv' /\ OneAttempt'
    <2>1. ExecOK(x) /\ x.pc \notin Attempt
      BY <1>3 DEF ExecOK, Attempt
    <2>2. exec \in [Workers -> ExecOf \cup {Free}]
      BY DEF SafetyInv, TypeOK
    <2>3. \A v \in Workers : ExecOK(exec'[v])
      BY <1>3, <2>1, <2>2 DEF SafetyInv, ExecInv
    <2>4. ExecInv'
      BY <1>1, <2>3 DEF ExecInv, ExecOK, Clean, Delivered, rowVars, chatVars
    <2>5. OneAttempt'
      BY <1>3, <2>1, <2>2 DEF SafetyInv, OneAttempt
    <2>6. QED
      BY <2>4, <2>5
  <1>4. ASSUME NEW k \in Keys, NEW j, job' = [job EXCEPT ![k] = j],
               j.state = "done" /\ j.result = "delivered" => Delivered(k)
        PROVE  RowInv'
    BY <1>1, <1>4 DEF SafetyInv, TypeOK, RowInv, RowOK, Clean, Delivered, rowVars, chatVars
  <1>5. ASSUME NEW w \in Workers, NEW k \in Keys, Take(w, k)
        PROVE  ExecInv' /\ RowInv' /\ OneAttempt'
    <2> DEFINE x == [Free EXCEPT !.pc = "load", !.key = k]
               j == [job[k] EXCEPT !.state = "active", !.holder = w]
    <2>1. exec' = [exec EXCEPT ![w] = x] /\ x.pc = "load" /\ x.wire = "none"
      BY <1>5 DEF Take, Free
    <2>2. job' = [job EXCEPT ![k] = j] /\ j.state = "active"
      BY <1>5 DEF Take, SafetyInv, TypeOK, JobOf
    <2> HIDE DEF x, j
    <2>3. QED
      BY <1>3, <1>4, <2>1, <2>2
  <1>6. ASSUME NEW w \in Workers, Finish(w)
        PROVE  ExecInv' /\ RowInv' /\ OneAttempt'
    <2>1. exec[w].pc = "finish" /\ exec' = [exec EXCEPT ![w] = Free]
      BY <1>6 DEF Finish, Runs
    <2>2. ExecOK(exec[w]) /\ exec[w].key \in Keys
      BY <2>1, ExecNext
    <2>3. PICK k \in Keys : k = exec[w].key
      BY <2>2
    <2>4. job[k] \in JobOf /\ RowOK(k) /\ job \in [Keys -> JobOf]
      BY DEF SafetyInv, TypeOK, RowInv
    <2>5. CASE ~ Holds(w)
      <3>1. job' = job
        BY <1>6, <2>3, <2>4, <2>5 DEF Finish
      <3>2. QED
        BY <1>1, <1>3, <2>1, <3>1, NothingMoves DEF Free
    <2>6. CASE Holds(w) /\ exec[w].result = "throw"
      <3>1. job' = [job EXCEPT ![k] = Retried(k)]
        BY <1>6, <2>3, <2>6 DEF Finish
      <3>2. Retried(k).state # "done"
        BY <2>4 DEF Retried, NoJob, JobOf
      <3>3. QED
        BY <1>3, <1>4, <2>1, <3>1, <3>2 DEF Free
    <2>7. CASE Holds(w) /\ exec[w].result # "throw"
      <3> DEFINE j == [job[k] EXCEPT !.state = "done", !.holder = None,
                                     !.result = exec[w].result]
      <3>1. job' = [job EXCEPT ![k] = j]
        BY <1>6, <2>3, <2>7 DEF Finish
      <3>2. j.result = exec[w].result
        BY <2>4 DEF JobOf
      <3>3. j.result = "delivered" => Delivered(k)
        BY <2>1, <2>2, <2>3, <3>2 DEF ExecOK
      <3> HIDE DEF j
      <3>4. QED
        BY <1>3, <1>4, <2>1, <3>1, <3>3 DEF Free
    <2>8. QED
      BY <2>5, <2>6, <2>7
  <1>7. ASSUME NEW k \in Keys, Stall(k) \/ Evict(k)
        PROVE  ExecInv' /\ RowInv' /\ OneAttempt'
    <2>1. exec' = exec
      BY <1>7 DEF Stall, Evict
    <2>2. ExecInv' /\ OneAttempt'
      BY <1>1, <2>1 DEF SafetyInv, ExecInv, OneAttempt, ExecOK, Clean, Delivered, rowVars, chatVars
    <2>3. job' = [job EXCEPT ![k] = NoJob] \/ job' = [job EXCEPT ![k] = Stalled(k)]
      BY <1>7 DEF Stall, Evict
    <2>4. job[k] \in JobOf
      BY DEF SafetyInv, TypeOK
    <2>5. NoJob.state # "done" /\ Stalled(k).state # "done"
      BY <2>4 DEF Stalled, NoJob, JobOf
    <2>6. QED
      BY <1>4, <2>2, <2>3, <2>5
  <1>8. QED
    BY <1>2, <1>5, <1>6, <1>7

LEMMA SafetyStep == SafetyInv /\ [Next]_vars => SafetyInv'
  <1> SUFFICES ASSUME SafetyInv, [Next]_vars
               PROVE  ExecInv' /\ RowInv' /\ ReqInv' /\ OneAttempt'
    BY TypeStep DEF SafetyInv
  <1>1. ASSUME UNCHANGED vars \/ \E p \in Processes : Configure(p)
        PROVE  ExecInv' /\ RowInv' /\ ReqInv' /\ OneAttempt'
    BY <1>1, NothingMoves DEF vars, Configure
  <1>2. QED
    BY <1>1, HandlerSafe, EnqueueSafe, InsertSafe, ReadingSafe, WritingSafe, WaitingSafe,
       LateSafe, QueueSafe DEF Next, HandlerStep, WorkerStep

LEMMA SafetyInit == Init => SafetyInv
  <1> SUFFICES ASSUME Init
               PROVE  SafetyInv
    OBVIOUS
  <1>1. TypeOK
    BY DEF Init, TypeOK, Statuses, NoJob, JobOf, Results
  <1>2. QED
    BY <1>1 DEF Init, SafetyInv, ExecInv, ExecOK, RowInv, RowOK, ReqInv, ReqOK, OneAttempt,
       Clean, Delivered, Attempt, Free, NotStarted, NoJob

\* The invariant holds in every state of every behaviour.
THEOREM SafetyInvariant == Spec => []SafetyInv
  BY SafetyInit, SafetyStep, PTL DEF Spec

\* Every variable keeps its type.
THEOREM TypeCorrect == Spec => []TypeOK
  <1>1. SafetyInv => TypeOK
    BY DEF SafetyInv
  <1>2. QED
    BY <1>1, SafetyInvariant, PTL

\* The chat gets a request at most once.
THEOREM AtMostOnce == Spec => []DeliveredAtMostOnce
  <1>1. SafetyInv => DeliveredAtMostOnce
    BY DEF SafetyInv, TypeOK, RowInv, RowOK, Clean, Delivered, DeliveredAtMostOnce
  <1>2. QED
    BY <1>1, SafetyInvariant, PTL

\* A stored message id is the id of a message that is in the chat.
THEOREM EvidenceReal == Spec => []EvidenceIsReal
  <1>1. SafetyInv => EvidenceIsReal
    BY DEF SafetyInv, RowInv, RowOK, Delivered, EvidenceIsReal
  <1>2. QED
    BY <1>1, SafetyInvariant, PTL

\* FAILED means that the message is not in the chat and will not get there.
THEOREM FailedKnown == Spec => []FailedIsKnown
  <1>1. SafetyInv => FailedIsKnown
    BY DEF SafetyInv, RowInv, RowOK, ExecInv, ExecOK, Clean, Claimable, Attempt, FailedIsKnown
  <1>2. QED
    BY <1>1, SafetyInvariant, PTL

\* Who is told that a request was delivered sent the message in the chat.
THEOREM ToldIsMine == Spec => []ToldDeliveredIsMine
  <1>1. SafetyInv => ToldDeliveredIsMine
    BY DEF SafetyInv, ReqInv, ReqOK, Delivered, ToldDeliveredIsMine
  <1>2. QED
    BY <1>1, SafetyInvariant, PTL

\* SENT and UNCERTAIN are final, and a claimed row is never made claimable
\* again but by a refusal.
THEOREM SettledStays == Spec => SettledIsFinal
  <1>1. SafetyInv /\ [Next]_vars =>
          [\A k \in Keys :
             /\ status[k] \in {"SENT", "UNCERTAIN"} => status'[k] = status[k]
             /\ status[k] = "SENDING" => status'[k] \notin {"PENDING", "NOT_CONFIGURED"}]_vars
    <2> SUFFICES ASSUME SafetyInv, Next, NEW k \in Keys
                 PROVE  /\ status[k] \in {"SENT", "UNCERTAIN"} => status'[k] = status[k]
                        /\ status[k] = "SENDING" =>
                             status'[k] \notin {"PENDING", "NOT_CONFIGURED"}
      OBVIOUS
    <2>1. status \in [Keys -> Statuses]
      BY DEF SafetyInv, TypeOK
    <2>2. CASE status' = status
      BY <2>2
    <2>3. ASSUME NEW r \in Requests, Insert(r)
          PROVE  status'[k] = status[k] \/ ~ Exists(k)
      BY <2>1, <2>3 DEF Insert, rowVars
    <2>4. ASSUME NEW w \in Workers, MarkUnconfigured(w)
          PROVE  status'[k] = status[k] \/ status[k] \in Claimable
      BY <2>1, <2>4 DEF MarkUnconfigured
    <2>5. ASSUME NEW w \in Workers, Claim(w)
          PROVE  status'[k] = status[k] \/ status[k] \in Claimable
      BY <2>1, <2>5 DEF Claim, CanClaim
    <2>6. ASSUME NEW w \in Workers, Confirm(w) \/ Settle(w)
          PROVE  status'[k] = status[k] \/
                   (status[k] = "SENDING" /\ status'[k] \in {"SENT", "FAILED", "UNCERTAIN"})
      BY <2>1, <2>6 DEF Confirm, Settle, Claimed, Outcome
    <2>7. QED
      BY <2>2, <2>3, <2>4, <2>5, <2>6 DEF Next, HandlerStep, WorkerStep, Submit, Lookup, Before,
         Enqueue, Wait, Reread, HandlerDies, Take, Load, Recheck, Post, Await, Finish, WorkerDies,
         TelegramAnswers, Stall, Evict, TelegramServesLate, Configure, rowVars, Exists, Claimable
  <1>2. QED
    BY <1>1, SafetyInvariant, PTL DEF Spec, SettledIsFinal

-----------------------------------------------------------------------------
(* Refinement of OneDelivery *)

Shown == [k \in Keys |-> Known(k)]
Chat  == {k \in Keys : posted[k] > 0}

\* What is known of a row depends on its status only.
LEMMA KnownByStatus ==
  ASSUME TypeOK, TypeOK', NEW k \in Keys
  PROVE  /\ status[k] = "ABSENT" => Known(k) = "none"
         /\ status[k] \in {"PENDING", "NOT_CONFIGURED"} => Known(k) = "open"
         /\ status[k] = "FAILED" => Known(k) = "refused"
         /\ status[k] = "SENDING" => Known(k) = "attempted"
         /\ status[k] = "SENT" => Known(k) = "delivered"
         /\ status[k] = "UNCERTAIN" => Known(k) = "unknown"
         /\ status'[k] = "ABSENT" => Known(k)' = "none"
         /\ status'[k] \in {"PENDING", "NOT_CONFIGURED"} => Known(k)' = "open"
         /\ status'[k] = "FAILED" => Known(k)' = "refused"
         /\ status'[k] = "SENDING" => Known(k)' = "attempted"
         /\ status'[k] = "SENT" => Known(k)' = "delivered"
         /\ status'[k] = "UNCERTAIN" => Known(k)' = "unknown"
         /\ status[k] \in Statuses
  BY DEF Known, TypeOK

\* The status of one row changes, and nothing in the chat: the outcome of that
\* request takes a turn.
LEMMA OneTurn ==
  ASSUME TypeOK, TypeOK', NEW k \in Keys, NEW s,
         status' = [status EXCEPT ![k] = s], posted' = posted
  PROVE  /\ status'[k] = s
         /\ Chat' = Chat
         /\ Known(k)' = Known(k) => Shown' = Shown
         /\ \A from, to : Known(k) \in from /\ Known(k)' = to => Delivery!Turn(k, from, to)
  <1>1. status \in [Keys -> Statuses]
    BY DEF TypeOK
  <1>2. status'[k] = s
    BY <1>1
  <1>3. Chat' = Chat
    BY DEF Chat
  <1>4. ASSUME NEW j \in Keys \ {k}
        PROVE  Known(j)' = Known(j)
    <2>1. status'[j] = status[j]
      BY <1>1
    <2>2. QED
      BY <2>1 DEF Known
  <1>5. Shown' = [Shown EXCEPT ![k] = Known(k)']
    BY <1>4 DEF Shown
  <1>6. Known(k)' = Known(k) => Shown' = Shown
    BY <1>4 DEF Shown
  <1>7. \A from, to : Known(k) \in from /\ Known(k)' = to => Delivery!Turn(k, from, to)
    BY <1>3, <1>5 DEF Delivery!Turn, Shown, Chat
  <1>8. QED
    BY <1>2, <1>3, <1>6, <1>7

\* The message of one row gets into the chat.
LEMMA OneArrival ==
  ASSUME SafetyInv, SafetyInv', NEW k \in Keys, status' = status,
         posted' = [posted EXCEPT ![k] = @ + 1], posted[k] = 0,
         status[k] \in {"SENDING", "UNCERTAIN"}
  PROVE  Delivery!Arrive(k)
  <1>1. posted \in [Keys -> Nat] /\ TypeOK /\ TypeOK'
    BY DEF SafetyInv, TypeOK
  <1>2. Chat' = Chat \cup {k} /\ k \notin Chat
    BY <1>1 DEF Chat
  <1>3. Shown' = Shown
    BY DEF Shown, Known
  <1>4. Shown[k] \in {"attempted", "unknown"}
    BY <1>1, KnownByStatus DEF Shown
  <1>5. QED
    BY <1>2, <1>3, <1>4 DEF Delivery!Arrive, Shown, Chat

\* A row is stored by asking; Insert is the only step of a handler that
\* changes one.
LEMMA InsertAsks ==
  ASSUME TypeOK, TypeOK', NEW r \in Requests, Insert(r)
  PROVE  Delivery!DeliveryNext \/ (Shown' = Shown /\ Chat' = Chat)
  <1>1. CASE status' = status
    BY <1>1 DEF Insert, chatVars, Shown, Known, Chat
  <1>2. CASE ~ Exists(req[r].key)
    <2>1. PICK k \in Keys : k = req[r].key
      BY HandlerMoves DEF Insert, Asks, HandlerSteps, HandlerOf
    <2>2. posted' = posted
      BY DEF Insert, chatVars
    <2>3. PICK s \in {"PENDING", "NOT_CONFIGURED"} : status' = [status EXCEPT ![k] = s]
      BY <1>2, <2>1 DEF Insert
    <2>4. Known(k) = "none" /\ Known(k)' = "open"
      BY <1>2, <2>1, <2>2, <2>3, KnownByStatus, OneTurn DEF Exists
    <2>5. Delivery!Ask(k)
      BY <2>1, <2>2, <2>3, <2>4, OneTurn DEF Delivery!Ask
    <2>6. QED
      BY <2>1, <2>5 DEF Delivery!DeliveryNext
  <1>3. QED
    BY <1>1, <1>2 DEF Insert, rowVars

\* An execution turns the outcome of its row: a refused request is reopened,
\* a claim starts an attempt only where no message is or may come, and the
\* outcome that is stored is the one of the attempt.
LEMMA WritingTurns ==
  ASSUME SafetyInv, SafetyInv', NEW w \in Workers,
         MarkUnconfigured(w) \/ Claim(w) \/ Confirm(w) \/ Settle(w)
  PROVE  Delivery!DeliveryNext \/ (Shown' = Shown /\ Chat' = Chat)
  <1>1. TypeOK /\ TypeOK' /\ posted' = posted /\ ExecOK(exec[w])
    BY DEF SafetyInv, ExecInv, MarkUnconfigured, Claim, Confirm, Settle, chatVars
  <1>2. exec[w].pc # "free"
    BY DEF MarkUnconfigured, Claim, Confirm, Settle, Runs
  <1>3. PICK k \in Keys : k = exec[w].key
    BY <1>1, <1>2, ExecMoves DEF ExecOf
  <1>4. RowOK(k)
    BY <1>3 DEF SafetyInv, RowInv
  <1>5. CASE status' = status
    BY <1>1, <1>5 DEF Shown, Known, Chat
  <1>6. ASSUME MarkUnconfigured(w), status' # status
        PROVE  Delivery!DeliveryNext \/ (Shown' = Shown /\ Chat' = Chat)
    <2>1. status' = [status EXCEPT ![k] = "NOT_CONFIGURED"] /\ status[k] \in Claimable
      BY <1>3, <1>6 DEF MarkUnconfigured
    <2>2. Known(k)' = "open" /\ Chat' = Chat
      BY <1>1, <1>3, <2>1, KnownByStatus, OneTurn
    <2>3. CASE status[k] = "FAILED"
      <3>1. Known(k) = "refused"
        BY <1>1, <1>3, <2>3, KnownByStatus
      <3>2. Delivery!Reopen(k)
        BY <1>1, <1>3, <2>1, <2>2, <3>1, OneTurn DEF Delivery!Reopen
      <3>3. QED
        BY <1>3, <3>2 DEF Delivery!DeliveryNext
    <2>4. CASE status[k] \in {"PENDING", "NOT_CONFIGURED"}
      <3>1. Known(k) = "open"
        BY <1>1, <1>3, <2>4, KnownByStatus
      <3>2. QED
        BY <1>1, <1>3, <2>1, <2>2, <3>1, OneTurn
    <2>5. QED
      BY <2>1, <2>3, <2>4 DEF Claimable
  <1>7. ASSUME Claim(w), status' # status
        PROVE  Delivery!DeliveryNext
    <2>1. status' = [status EXCEPT ![k] = "SENDING"] /\ status[k] \in Claimable
      BY <1>3, <1>7 DEF Claim, CanClaim
    <2>2. k \notin Chat
      BY <1>4, <2>1 DEF RowOK, Clean, Chat
    <2>3. Known(k) \in {"open", "refused"} /\ Known(k)' = "attempted"
      BY <1>1, <1>3, <2>1, KnownByStatus, OneTurn DEF Claimable
    <2>4. Delivery!Attempt(k)
      BY <1>1, <1>3, <2>1, <2>2, <2>3, OneTurn DEF Delivery!Attempt, Chat
    <2>5. QED
      BY <1>3, <2>4 DEF Delivery!DeliveryNext
  <1>8. ASSUME Confirm(w), status' # status
        PROVE  Delivery!DeliveryNext
    <2>1. status' = [status EXCEPT ![k] = "SENT"] /\ status[k] = "SENDING"
      BY <1>3, <1>8 DEF Confirm, Claimed
    <2>2. k \in Chat
      BY <1>1, <1>3, <1>8 DEF ExecOK, Delivered, Chat, Confirm, Runs
    <2>3. Known(k) = "attempted" /\ Known(k)' = "delivered"
      BY <1>1, <1>3, <2>1, KnownByStatus, OneTurn
    <2>4. Delivery!Confirm(k)
      BY <1>1, <1>3, <2>1, <2>2, <2>3, OneTurn DEF Delivery!Confirm, Chat
    <2>5. QED
      BY <1>3, <2>4 DEF Delivery!DeliveryNext
  <1>9. ASSUME Settle(w), status' # status
        PROVE  Delivery!DeliveryNext
    <2>1. status' = [status EXCEPT ![k] = Outcome(w)] /\ status[k] = "SENDING"
      BY <1>3, <1>9 DEF Settle, Claimed
    <2>2. CASE exec[w].pc = "refusal"
      <3>1. k \notin Chat
        BY <1>1, <1>3, <2>2 DEF ExecOK, Clean, Chat
      <3>2. status' = [status EXCEPT ![k] = "FAILED"]
        BY <2>1, <2>2 DEF Outcome, Runs
      <3>3. Known(k) = "attempted" /\ Known(k)' = "refused"
        BY <1>1, <1>3, <2>1, <3>2, KnownByStatus, OneTurn
      <3>4. Delivery!Refuse(k)
        BY <1>1, <1>3, <3>1, <3>2, <3>3, OneTurn DEF Delivery!Refuse, Chat
      <3>5. QED
        BY <1>3, <3>4 DEF Delivery!DeliveryNext
    <2>3. CASE exec[w].pc = "unknown"
      <3>1. status' = [status EXCEPT ![k] = "UNCERTAIN"]
        BY <2>1, <2>3 DEF Outcome, Runs
      <3>2. Known(k) = "attempted" /\ Known(k)' = "unknown"
        BY <1>1, <1>3, <2>1, <3>1, KnownByStatus, OneTurn
      <3>3. Delivery!GiveUp(k)
        BY <1>1, <1>3, <3>1, <3>2, OneTurn DEF Delivery!GiveUp
      <3>4. QED
        BY <1>3, <3>3 DEF Delivery!DeliveryNext
    <2>4. QED
      BY <1>9, <2>2, <2>3 DEF Settle
  <1>10. QED
    BY <1>5, <1>6, <1>7, <1>8, <1>9

\* The chat gets a message in time or late, and only of an attempted request.
LEMMA TelegramArrives ==
  ASSUME SafetyInv, SafetyInv',
         \/ \E w \in Workers : TelegramAnswers(w)
         \/ \E k \in Keys : TelegramServesLate(k)
  PROVE  Delivery!DeliveryNext \/ (Shown' = Shown /\ Chat' = Chat)
  <1>1. status' = status
    BY DEF TelegramAnswers, TelegramServesLate, rowVars
  <1>2. CASE posted' = posted
    BY <1>1, <1>2 DEF Shown, Known, Chat
  <1>3. ASSUME NEW w \in Workers, TelegramAnswers(w), posted' # posted
        PROVE  Delivery!DeliveryNext
    <2>1. exec[w].wire = "sent" /\ exec[w].pc = "await" /\ ExecOK(exec[w])
      BY <1>3 DEF TelegramAnswers, SafetyInv, ExecInv, ExecOK
    <2>2. PICK k \in Keys : k = exec[w].key
      BY <2>1, ExecMoves DEF SafetyInv, ExecOf
    <2>3. posted' = [posted EXCEPT ![k] = @ + 1] /\ status[k] = "SENDING" /\ posted[k] = 0
      BY <1>3, <2>1, <2>2 DEF TelegramAnswers, ExecOK, Attempt, Clean
    <2>4. Delivery!Arrive(k)
      BY <1>1, <2>3, OneArrival
    <2>5. QED
      BY <2>4 DEF Delivery!DeliveryNext
  <1>4. ASSUME NEW k \in Keys, TelegramServesLate(k), posted' # posted
        PROVE  Delivery!DeliveryNext
    <2>1. late[k] > 0 /\ posted' = [posted EXCEPT ![k] = @ + 1]
      BY <1>4 DEF TelegramServesLate
    <2>2. RowOK(k) /\ late[k] \in Nat /\ status[k] \in Statuses
      BY DEF SafetyInv, RowInv, TypeOK
    <2>3. posted[k] = 0 /\ status[k] \in {"SENDING", "UNCERTAIN"}
      BY <2>1, <2>2 DEF RowOK, Clean, Delivered, Statuses
    <2>4. Delivery!Arrive(k)
      BY <1>1, <2>1, <2>3, OneArrival
    <2>5. QED
      BY <2>4 DEF Delivery!DeliveryNext
  <1>5. QED
    BY <1>2, <1>3, <1>4

LEMMA DeliveryStep ==
  SafetyInv /\ SafetyInv' /\ [Next]_vars => [Delivery!DeliveryNext]_(Delivery!deliveryVars)
  <1> SUFFICES ASSUME SafetyInv, SafetyInv', [Next]_vars
               PROVE  Delivery!DeliveryNext \/ (Shown' = Shown /\ Chat' = Chat)
    BY DEF Delivery!deliveryVars, Shown, Chat
  <1>1. TypeOK /\ TypeOK'
    BY DEF SafetyInv
  <1>2. CASE status' = status /\ posted' = posted
    BY <1>2 DEF Shown, Known, Chat
  <1>3. CASE \E r \in Requests : Insert(r)
    BY <1>1, <1>3, InsertAsks
  <1>4. CASE \E w \in Workers : MarkUnconfigured(w) \/ Claim(w) \/ Confirm(w) \/ Settle(w)
    BY <1>4, WritingTurns
  <1>5. CASE \/ \E w \in Workers : TelegramAnswers(w)
             \/ \E k \in Keys : TelegramServesLate(k)
    BY <1>5, TelegramArrives
  <1>6. QED
    BY <1>2, <1>3, <1>4, <1>5 DEF Next, HandlerStep, WorkerStep, Submit, Lookup, Before, Enqueue,
       Wait, Reread, HandlerDies, Take, Load, Recheck, Post, Await, Finish, WorkerDies, Stall,
       Evict, Configure, rowVars, chatVars, vars

\* Handlers, queue, executions and late answers implement one delivery: every
\* step is a step of OneDelivery about one request, or none.
THEOREM RefinesDelivery == Spec => ImplementsDelivery
  <1>1. Init => Delivery!DeliveryInit
    <2> SUFFICES ASSUME Init
                 PROVE  Shown = [k \in Keys |-> "none"] /\ Chat = {}
      BY DEF Delivery!DeliveryInit, Shown, Chat
    <2>1. QED
      BY DEF Init, Shown, Known, Chat
  <1>2. QED
    BY <1>1, DeliveryStep, SafetyInvariant, PTL
       DEF Spec, ImplementsDelivery, Delivery!DeliverySpec
=============================================================================
