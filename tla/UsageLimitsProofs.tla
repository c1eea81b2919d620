--------------------------- MODULE UsageLimitsProofs ---------------------------
(***************************************************************************)
(* Proofs about UsageLimits, for any number of requests and any finite set *)
(* of accounts.  The argument about selections: while the workspace has a  *)
(* limit every transaction reads all accounts, so of two that overlap and  *)
(* change something only one commits; what a transaction read of the rows  *)
(* it updates still holds when it commits, and what happened to the others *)
(* in the meantime only makes room or is support's doing.  The argument    *)
(* about the quota: the record is locked from its increment to the commit, *)
(* and its quantity never exceeds an offered limit.                        *)
(***************************************************************************)
EXTENDS UsageLimits, FiniteSetTheorems, TLAPS

\* Which kinds of request reach which step.
KindOK(q) ==
  /\ q.pc \in {"read", "write", "commit"} => q.kind \in {"enable", "select"}
  /\ q.pc \in {"reserve", "reserved", "record"} => q.kind = "consume"
  /\ q.pc = "limit" => q.kind \in {"enable", "select", "consume"}
  /\ q.pc = "update" => q.kind \in {"disable", "assist"}
  /\ q.pc # "done" => q.answer = "none"

KindInv == \A r \in Requests : KindOK(req[r])

\* The limit a request compares with was offered.
LimitOK(q) ==
  /\ q.pc \in {"read", "write", "commit", "reserve", "reserved"} => q.lim \in offered
  /\ q.pc = "record" => None \in offered

LimitInv == Limit(terms) \in offered /\ \A r \in Requests : LimitOK(req[r])

\* What is kept of a transaction that committed.
CommittedOK(s) ==
  At(s, "done") /\ req[s].kind \in {"enable", "select"} /\ req[s].lim \in offered

OrderInv ==
  /\ \A s \in Committed : CommittedOK(s)
  /\ \A r \in Requests : req[r].missed \subseteq Committed

\* The snapshot of a transaction still shows the rows nobody updated.
ViewOK(r) ==
  InTransaction(r) =>
    \A a \in Accounts \ req[r].stale : a \in enabled <=> a \in req[r].snap

\* Rows that were updated are held until the commit.
HoldInv ==
  /\ \A r \in Requests : At(r, "commit") => Rows(r) \cap req[r].stale = {}
  /\ \A r, s \in Requests :
       At(r, "commit") /\ At(s, "commit") /\ r # s => Rows(r) \cap Rows(s) = {}

\* The rows of r are as its snapshot shows them, and no transaction it has
\* not seen changed an account.
Undisturbed(r) ==
  Rows(r) \cap req[r].stale = {} /\ \A s \in req[r].missed : Changes(s) = {}

\* The accounts enabled once r commits.
After(r) == (enabled \ Rows(r)) \cup req[r].arg

RoomOK(r) ==
  InTransaction(r) /\ Undisturbed(r) /\ None \notin offered
  => Fits(Cardinality(After(r) \ assisted), req[r].lim)

AccountInv ==
  (\A r \in Requests : ViewOK(r) /\ RoomOK(r)) /\ HoldInv /\ SelectionWithinLimit

\* One request at a time has incremented the record, and sees what it left.
ReservedInv ==
  \A r, s \in Requests :
    At(r, "reserved") => req[r].count = used + 1 /\ (At(s, "reserved") => r = s)

CountInv ==
  IsFiniteSet(Admitted) /\ Cardinality(Admitted) <= used /\ Within(used)

SafetyInv ==
  TypeOK /\ KindInv /\ LimitInv /\ OrderInv /\ AccountInv /\ ReservedInv /\ CountInv
-----------------------------------------------------------------------------
(* How a request moves *)

\* Request r alone changes, and is of the kind it was.
Alone(r) ==
  /\ req' \in [Requests -> Request]
  /\ \A s \in Requests \ {r} : req'[s] = req[s]

rowVars == <<terms, offered, enabled, assisted, used, before>>

\* Request r ends with this answer.
Settles(r, answer) ==
  /\ Alone(r)
  /\ req'[r].pc = "done" /\ req'[r].kind = req[r].kind /\ req'[r].answer = answer
  /\ req'[r].missed = {}

LEMMA IdleIsRequest == Idle \in Request
  BY DEF Idle, Request, Steps, Limits, Answers

LEMMA AnswerSettles ==
  ASSUME TypeOK, NEW r \in Requests, NEW answer \in Answers, Answer(r, answer)
  PROVE  Settles(r, answer)
  <1> DEFINE q == Ended(r, answer)
  <1>1. req \in [Requests -> Request] /\ req[r] \in Request
    BY DEF TypeOK
  <1>2. q \in Request /\ q.pc = "done" /\ q.kind = req[r].kind /\ q.answer = answer
        /\ q.missed = {}
    BY <1>1 DEF Ended, Idle, Request, Steps, Limits, Answers
  <1>3. req' = [req EXCEPT ![r] = q]
    BY DEF Answer
  <1> HIDE DEF q
  <1> QED BY <1>1, <1>2, <1>3 DEF Settles, Alone

LEMMA GoMoves ==
  ASSUME TypeOK, NEW r \in Requests, NEW step \in Steps, Go(r, step)
  PROVE  Alone(r) /\ req'[r] = [req[r] EXCEPT !.pc = step]
  <1>1. req \in [Requests -> Request] /\ req[r] \in Request
    BY DEF TypeOK
  <1>2. [req[r] EXCEPT !.pc = step] \in Request
    BY <1>1 DEF Request
  <1> QED BY <1>1, <1>2 DEF Go, Alone

\* A request that begins.
Begins(r) ==
  /\ Alone(r) /\ UNCHANGED rowVars
  /\ At(r, "idle") /\ req'[r].pc \in {"limit", "update"}
  /\ KindOK(req'[r])
  /\ req'[r].missed = {}

LEMMA StartBegins ==
  ASSUME TypeOK, NEW r \in Requests, Start(r)
  PROVE  Begins(r)
  <1> DEFINE Q(kind, step, arg, conn) ==
        [Idle EXCEPT !.pc = step, !.kind = kind, !.arg = arg, !.conn = conn]
  <1>1. req \in [Requests -> Request]
    BY DEF TypeOK
  <1>2. ASSUME NEW kind \in Kinds, NEW step \in Steps, NEW arg \in SUBSET Accounts,
               NEW conn \in Connections \cup {None}
        PROVE  Q(kind, step, arg, conn) \in Request
    BY IdleIsRequest DEF Idle, Request, Kinds
  <1>3. ASSUME NEW kind \in Kinds, NEW step \in Steps, NEW arg \in SUBSET Accounts,
               NEW conn \in Connections \cup {None}, Begin(r, kind, step, arg, conn),
               \/ step = "limit" /\ kind \in {"enable", "select", "consume"}
               \/ step = "update" /\ kind \in {"disable", "assist"}
        PROVE  Begins(r)
    <2> DEFINE q == Q(kind, step, arg, conn)
    <2>1. q \in Request
      BY <1>2
    <2>2. q.pc = step /\ q.kind = kind /\ q.missed = {} /\ q.answer = "none"
      BY DEF Idle
    <2>3. req' = [req EXCEPT ![r] = q] /\ At(r, "idle") /\ UNCHANGED rowVars
      BY <1>3 DEF Begin, rowVars
    <2> HIDE DEF q, Q
    <2>4. KindOK(q)
      BY <1>3, <2>2 DEF KindOK
    <2> QED BY <1>1, <1>3, <2>1, <2>2, <2>3, <2>4 DEF Begins, Alone
  <1> HIDE DEF Q
  <1>4. ASSUME NEW a \in Accounts, Begin(r, "enable", "limit", {a}, None) PROVE Begins(r)
    BY <1>3, <1>4 DEF Kinds, Steps
  <1>5. ASSUME NEW a \in Accounts, Begin(r, "disable", "update", {a}, None) PROVE Begins(r)
    BY <1>3, <1>5 DEF Kinds, Steps
  <1>6. ASSUME NEW a \in Accounts, Begin(r, "assist", "update", {a}, None) PROVE Begins(r)
    BY <1>3, <1>6 DEF Kinds, Steps
  <1>7. ASSUME NEW k \in Connections, NEW S \in SUBSET Of(k), Begin(r, "select", "limit", S, k)
        PROVE  Begins(r)
    <2>1. S \in SUBSET Accounts
      BY DEF Of
    <2> QED BY <1>3, <1>7, <2>1 DEF Kinds, Steps
  <1>8. ASSUME Begin(r, "consume", "limit", {}, None) PROVE Begins(r)
    BY <1>3, <1>8 DEF Kinds, Steps
  <1> QED BY <1>4, <1>5, <1>6, <1>7, <1>8 DEF Start

\* A request that has read its limit.
Limited(r) ==
  /\ Alone(r) /\ UNCHANGED rowVars
  /\ At(r, "limit") /\ req'[r].pc \in {"read", "reserve", "record"}
  /\ req'[r].kind = req[r].kind /\ req'[r].answer = req[r].answer
  /\ req'[r].lim = Limit(terms) /\ req'[r].missed = req[r].missed
  /\ req'[r].pc = "read" <=> req[r].kind # "consume"
  /\ req'[r].pc = "record" => Limit(terms) = None

LEMMA LimitIsLimit ==
  ASSUME NEW t \in Terms
  PROVE  Limit(t) \in Limits
  BY UsageLimitsAssumption DEF Limit, Limits

LEMMA ReadLimitLimits ==
  ASSUME TypeOK, NEW r \in Requests, ReadLimit(r)
  PROVE  Limited(r)
  <1> DEFINE next == IF req[r].kind # "consume" THEN "read"
                     ELSE IF Limit(terms) = None THEN "record" ELSE "reserve"
             q == [req[r] EXCEPT !.pc = next, !.lim = Limit(terms)]
  <1>1. req \in [Requests -> Request] /\ req[r] \in Request
    BY DEF TypeOK
  <1>2. Limit(terms) \in Limits
    BY LimitIsLimit DEF TypeOK
  <1>3. q \in Request /\ q.pc = next /\ q.kind = req[r].kind /\ q.lim = Limit(terms)
        /\ q.answer = req[r].answer /\ q.missed = req[r].missed
    BY <1>1, <1>2 DEF Request, Steps
  <1>4. req' = [req EXCEPT ![r] = q] /\ At(r, "limit") /\ UNCHANGED rowVars
    BY <1>1 DEF ReadLimit, rowVars
  <1> HIDE DEF q
  <1> QED BY <1>1, <1>3, <1>4 DEF Limited, Alone

\* A transaction that has counted the accounts, and its request does not end.
Counts(r) ==
  /\ Alone(r) /\ UNCHANGED rowVars
  /\ At(r, "read")
  /\ req'[r] = [req[r] EXCEPT !.pc = "write", !.snap = enabled]
  /\ Fits(Cardinality(Wanted(r)), req[r].lim)

\* A request that ends without changing anything.
Gives(r) ==
  /\ UNCHANGED rowVars
  /\ \E answer \in Answers :
       Settles(r, answer) /\ (req[r].kind = "consume" => answer # "ok")
  /\ ~ At(r, "idle") /\ ~ At(r, "done")

LEMMA ReadCounts ==
  ASSUME TypeOK, KindInv, NEW r \in Requests, Read(r)
  PROVE  Counts(r) \/ Gives(r)
  <1>1. req \in [Requests -> Request] /\ req[r] \in Request /\ enabled \in SUBSET Accounts
    BY DEF TypeOK
  <1>2. UNCHANGED rowVars /\ At(r, "read")
    BY DEF Read, rowVars
  <1>3. req[r].kind # "consume"
    BY <1>2 DEF KindInv, KindOK, At
  <1>4. ASSUME NEW answer \in {"ok", "limit"}, Answer(r, answer) PROVE Gives(r)
    <2>1. Settles(r, answer)
      BY <1>4, AnswerSettles DEF Answers
    <2> QED BY <1>2, <1>3, <2>1 DEF Gives, At, Answers
  <1>5. ASSUME req' = [req EXCEPT ![r].pc = "write", ![r].snap = enabled],
               Fits(Cardinality(Wanted(r)), req[r].lim)
        PROVE  Counts(r)
    <2> DEFINE q == [req[r] EXCEPT !.pc = "write", !.snap = enabled]
    <2>1. q \in Request
      BY <1>1 DEF Request, Steps
    <2>2. req' = [req EXCEPT ![r] = q]
      BY <1>1, <1>5
    <2>3. Alone(r) /\ req'[r] = q
      BY <1>1, <2>1, <2>2 DEF Alone
    <2> QED BY <1>2, <1>5, <2>3 DEF Counts
  <1> QED BY <1>4, <1>5 DEF Read

\* A transaction that has updated its rows.
Updates(r) ==
  /\ Alone(r) /\ UNCHANGED rowVars
  /\ At(r, "write") /\ req'[r] = [req[r] EXCEPT !.pc = "commit"]
  /\ Rows(r) \cap req[r].stale = {} /\ \A a \in Rows(r) : ~ Held(a)

LEMMA WriteUpdates ==
  ASSUME TypeOK, KindInv, NEW r \in Requests, Write(r)
  PROVE  Updates(r) \/ Gives(r)
  <1>1. UNCHANGED rowVars /\ At(r, "write")
    BY DEF Write, rowVars
  <1>2. CASE Rows(r) \cap req[r].stale = {}
    <2>1. Go(r, "commit")
      BY <1>2 DEF Write
    <2> QED BY <1>1, <1>2, <2>1, GoMoves DEF Write, Updates, Steps
  <1>3. CASE ~ (Rows(r) \cap req[r].stale = {})
    <2>1. Answer(r, "error")
      BY <1>3 DEF Write
    <2>2. Settles(r, "error")
      BY <2>1, AnswerSettles DEF Answers
    <2> QED BY <1>1, <2>2 DEF Gives, At, Answers
  <1> QED BY <1>2, <1>3

\* A request that has incremented the usage record.
Reserves(r) ==
  /\ Alone(r) /\ UNCHANGED rowVars
  /\ At(r, "reserve") /\ Unreserved
  /\ req'[r] = [req[r] EXCEPT !.pc = "reserved", !.count = used + 1]

LEMMA ReserveReserves ==
  ASSUME TypeOK, NEW r \in Requests, Reserve(r)
  PROVE  Reserves(r)
  <1> DEFINE q == [req[r] EXCEPT !.pc = "reserved", !.count = used + 1]
  <1>1. req \in [Requests -> Request] /\ req[r] \in Request /\ used + 1 \in Nat
    BY DEF TypeOK
  <1>2. q \in Request
    BY <1>1 DEF Request, Steps
  <1>3. req' = [req EXCEPT ![r] = q] /\ At(r, "reserve") /\ Unreserved /\ UNCHANGED rowVars
    BY <1>1 DEF Reserve, rowVars
  <1>4. Alone(r) /\ req'[r] = q
    BY <1>1, <1>2, <1>3 DEF Alone
  <1> QED BY <1>3, <1>4 DEF Reserves

LEMMA RefusalGives ==
  ASSUME TypeOK, NEW r \in Requests, ReserveConflicts(r) \/ Dies(r)
  PROVE  Gives(r)
  <1>1. Answer(r, "error") /\ UNCHANGED rowVars /\ ~ At(r, "idle") /\ ~ At(r, "done")
    BY DEF ReserveConflicts, Dies, rowVars, At
  <1>2. Settles(r, "error")
    BY <1>1, AnswerSettles DEF Answers
  <1> QED BY <1>1, <1>2 DEF Gives, Answers

\* A step of one request that changes no row.
Quiet(r) == Begins(r) \/ Limited(r) \/ Counts(r) \/ Updates(r) \/ Reserves(r) \/ Gives(r)

-----------------------------------------------------------------------------
(* Steps that change rows *)

\* What a request keeps while others commit.
Keeps(s) ==
  /\ req'[s].pc = req[s].pc /\ req'[s].kind = req[s].kind /\ req'[s].arg = req[s].arg
  /\ req'[s].conn = req[s].conn /\ req'[s].lim = req[s].lim /\ req'[s].snap = req[s].snap
  /\ req'[s].count = req[s].count /\ req'[s].answer = req[s].answer

\* A request other than the one that commits, and what it learns.
Passed(s, rows, by) ==
  /\ Keeps(s)
  /\ InTransaction(s) =>
       req'[s].stale = req[s].stale \cup rows /\ req'[s].missed = req[s].missed \cup by
  /\ ~ InTransaction(s) => req'[s].stale = req[s].stale /\ req'[s].missed = req[s].missed

LEMMA OvertakenPasses ==
  ASSUME TypeOK, NEW r \in Requests, NEW rows \in SUBSET Accounts, NEW by \in SUBSET {r},
         NEW q \in Request, req' = [Overtaken(rows, by) EXCEPT ![r] = q]
  PROVE  /\ req' \in [Requests -> Request] /\ req'[r] = q
         /\ \A s \in Requests \ {r} : Passed(s, rows, by)
  <1> DEFINE o == Overtaken(rows, by)
  <1>1. req \in [Requests -> Request]
    BY DEF TypeOK
  <1>2. ASSUME NEW s \in Requests
        PROVE  [req[s] EXCEPT !.stale = @ \cup rows, !.missed = @ \cup by] \in Request
    BY <1>1 DEF Request
  <1>3. o \in [Requests -> Request]
    BY <1>1, <1>2 DEF Overtaken
  <1>4. ASSUME NEW s \in Requests \ {r}
        PROVE  Passed(s, rows, by)
    <2>1. req'[s] = o[s] /\ req[s] \in Request
      BY <1>1, <1>3
    <2>2. CASE InTransaction(s)
      <3>1. o[s] = [req[s] EXCEPT !.stale = @ \cup rows, !.missed = @ \cup by]
        BY <2>2 DEF Overtaken
      <3> QED BY <2>1, <2>2, <3>1 DEF Passed, Keeps, Request
    <2>3. CASE ~ InTransaction(s)
      <3>1. o[s] = req[s]
        BY <2>3 DEF Overtaken
      <3> QED BY <2>1, <2>3, <3>1 DEF Passed, Keeps
    <2> QED BY <2>2, <2>3
  <1>5. req' = [o EXCEPT ![r] = q]
    OBVIOUS
  <1> HIDE DEF o
  <1> QED BY <1>3, <1>4, <1>5

\* A serializable transaction commits.
Commits(r) ==
  /\ At(r, "commit") /\ Serializable(r)
  /\ req' \in [Requests -> Request]
  /\ \A s \in Requests \ {r} : Passed(s, Rows(r), {r})
  /\ req'[r].pc = "done" /\ req'[r].kind = req[r].kind /\ req'[r].arg = req[r].arg
  /\ req'[r].conn = req[r].conn /\ req'[r].lim = req[r].lim /\ req'[r].snap = req[r].snap
  /\ req'[r].missed = {}
  /\ enabled' = After(r)
  /\ assisted' = assisted \cap enabled'
  /\ before' = before \cup {<<r, r>>}
                \cup (AndBefore(Earlier(r)) \X ({r} \cup AndAfter(Later(r))))
                \cup ({r} \X AndAfter(Later(r)))
  /\ UNCHANGED <<terms, offered, used>>

LEMMA RowsAreAccounts ==
  ASSUME TypeOK, NEW r \in Requests
  PROVE  Rows(r) \in SUBSET Accounts /\ req[r].arg \in SUBSET Rows(r)
  BY DEF TypeOK, Request, Rows, Of

LEMMA CommitCommits ==
  ASSUME TypeOK, KindInv, NEW r \in Requests, Commit(r)
  PROVE  Commits(r) \/ Gives(r)
  <1>1. At(r, "commit") /\ req[r] \in Request
    BY DEF Commit, TypeOK
  <1>2. CASE Serializable(r)
    <2>1. PICK answer \in {"ok", "error"} :
            req' = [Overtaken(Rows(r), {r}) EXCEPT ![r] =
                      [req[r] EXCEPT !.pc = "done", !.answer = answer, !.stale = {}, !.missed = {}]]
      BY <1>2 DEF Commit
    <2> DEFINE q == [req[r] EXCEPT !.pc = "done", !.answer = answer, !.stale = {}, !.missed = {}]
    <2>2. q \in Request /\ q.pc = "done" /\ q.kind = req[r].kind /\ q.arg = req[r].arg
          /\ q.conn = req[r].conn /\ q.lim = req[r].lim /\ q.snap = req[r].snap /\ q.missed = {}
      BY <1>1 DEF Request, Steps, Answers
    <2>3. req' = [Overtaken(Rows(r), {r}) EXCEPT ![r] = q]
      BY <2>1
    <2> HIDE DEF q
    <2>4. req' \in [Requests -> Request] /\ req'[r] = q
          /\ \A s \in Requests \ {r} : Passed(s, Rows(r), {r})
      BY <2>2, <2>3, OvertakenPasses, RowsAreAccounts
    <2> QED BY <1>1, <1>2, <2>2, <2>4 DEF Commit, Commits, After
  <1>3. CASE ~ Serializable(r)
    <2>1. Answer(r, "error") /\ UNCHANGED rowVars
      BY <1>3 DEF Commit, rowVars
    <2>2. Settles(r, "error")
      BY <2>1, AnswerSettles DEF Answers
    <2> QED BY <1>1, <2>1, <2>2 DEF Gives, At, Answers
  <1> QED BY <1>2, <1>3

\* A single statement disables an account, or support enables one.
Sets(r) ==
  /\ At(r, "update") /\ \A a \in req[r].arg : ~ Held(a)
  /\ req' \in [Requests -> Request]
  /\ \A s \in Requests \ {r} : Passed(s, req[r].arg, {})
  /\ req'[r].pc = "done" /\ req'[r].kind = req[r].kind /\ req'[r].answer = "ok"
  /\ req'[r].missed = {}
  /\ \/ enabled' = enabled \ req[r].arg /\ assisted' = assisted \ req[r].arg
     \/ /\ enabled' = enabled \cup req[r].arg
        /\ assisted' = assisted \cup (req[r].arg \ enabled)
  /\ UNCHANGED <<terms, offered, used, before>>

LEMMA UpdateSets ==
  ASSUME TypeOK, NEW r \in Requests, Update(r)
  PROVE  Sets(r)
  <1> DEFINE q == Ended(r, "ok")
  <1>1. req[r] \in Request /\ req[r].arg \in SUBSET Accounts
    BY DEF TypeOK, Request
  <1>2. q \in Request /\ q.pc = "done" /\ q.kind = req[r].kind /\ q.answer = "ok" /\ q.missed = {}
    BY <1>1 DEF Ended, Idle, Request, Steps, Limits, Answers
  <1>3. req' = [Overtaken(req[r].arg, {}) EXCEPT ![r] = q]
    BY DEF Update
  <1> HIDE DEF q
  <1>4. req' \in [Requests -> Request] /\ req'[r] = q
        /\ \A s \in Requests \ {r} : Passed(s, req[r].arg, {})
    BY <1>1, <1>2, <1>3, OvertakenPasses
  <1> QED BY <1>2, <1>4 DEF Update, Sets

\* The usage record is counted up, by an admitted request or a recorded one.
CountsUp(r) ==
  /\ \/ At(r, "reserved") /\ used' = req[r].count /\ Fits(req[r].count, req[r].lim)
     \/ At(r, "record") /\ used' = used + 1 /\ \A s \in Requests : ~ At(s, "reserved")
  /\ \E answer \in {"ok", "error"} : Settles(r, answer)
  /\ UNCHANGED <<terms, offered, enabled, assisted, before>>

LEMMA AdmitCountsUp ==
  ASSUME TypeOK, NEW r \in Requests, Admit(r)
  PROVE  CountsUp(r) \/ Gives(r)
  <1>1. CASE Fits(req[r].count, req[r].lim)
    <2>1. Answer(r, "ok") \/ Answer(r, "error")
      BY <1>1 DEF Admit
    <2>2. \E answer \in {"ok", "error"} : Settles(r, answer)
      BY <2>1, AnswerSettles DEF Answers
    <2> QED BY <1>1, <2>2 DEF Admit, CountsUp
  <1>2. CASE ~ Fits(req[r].count, req[r].lim)
    <2>1. Answer(r, "limit") /\ UNCHANGED rowVars /\ At(r, "reserved")
      BY <1>2 DEF Admit, rowVars
    <2>2. Settles(r, "limit")
      BY <2>1, AnswerSettles DEF Answers
    <2> QED BY <2>1, <2>2 DEF Gives, At, Answers
  <1> QED BY <1>1, <1>2

LEMMA RecordCountsUp ==
  ASSUME TypeOK, NEW r \in Requests, Record(r)
  PROVE  CountsUp(r)
  <1>1. Answer(r, "ok") \/ Answer(r, "error")
    BY DEF Record
  <1>2. \E answer \in {"ok", "error"} : Settles(r, answer)
    BY <1>1, AnswerSettles DEF Answers
  <1> QED BY <1>2 DEF Record, CountsUp

Stands == UNCHANGED vars \/ TermsChange

LEMMA NextSteps ==
  ASSUME TypeOK, KindInv, [Next]_vars
  PROVE  \/ Stands
         \/ \E r \in Requests : Quiet(r) \/ Commits(r) \/ Sets(r) \/ CountsUp(r)
  <1>1. ASSUME NEW r \in Requests,
               \/ Start(r) \/ ReadLimit(r) \/ Read(r) \/ Write(r) \/ Commit(r) \/ Update(r)
               \/ Reserve(r) \/ ReserveConflicts(r) \/ Admit(r) \/ Record(r) \/ Dies(r)
        PROVE  Quiet(r) \/ Commits(r) \/ Sets(r) \/ CountsUp(r)
    BY <1>1, StartBegins, ReadLimitLimits, ReadCounts, WriteUpdates, CommitCommits, UpdateSets,
       ReserveReserves, RefusalGives, AdmitCountsUp, RecordCountsUp DEF Quiet
  <1> QED BY <1>1 DEF Next, Stands

-----------------------------------------------------------------------------
(* Types, kinds, limits and the committed transactions *)

LEMMA TypeStep ==
  ASSUME TypeOK, KindInv, [Next]_vars
  PROVE  TypeOK'
  <1>1. ASSUME NEW r \in Requests, Quiet(r) PROVE TypeOK'
    BY <1>1 DEF Quiet, Begins, Limited, Counts, Updates, Reserves, Gives, Settles, Alone,
                rowVars, TypeOK
  <1>2. ASSUME NEW r \in Requests, Commits(r) PROVE TypeOK'
    <2>1. enabled' \in SUBSET Accounts
      BY <1>2, RowsAreAccounts DEF Commits, After, TypeOK
    <2>2. before' \in SUBSET (Requests \X Requests)
      <3>1. Earlier(r) \subseteq Requests /\ Later(r) \subseteq Requests
        BY DEF Earlier, Later, Committed, TypeOK, Request
      <3>2. AndBefore(Earlier(r)) \subseteq Requests /\ AndAfter(Later(r)) \subseteq Requests
        BY <3>1 DEF AndBefore, AndAfter
      <3> QED BY <1>2, <3>2 DEF Commits, TypeOK
    <2> QED BY <1>2, <2>1, <2>2 DEF Commits, TypeOK
  <1>3. ASSUME NEW r \in Requests, Sets(r) PROVE TypeOK'
    <2>1. req[r].arg \in SUBSET Accounts
      BY DEF TypeOK, Request
    <2> QED BY <1>3, <2>1 DEF Sets, TypeOK
  <1>4. ASSUME NEW r \in Requests, CountsUp(r) PROVE TypeOK'
    <2>1. used' \in Nat
      BY <1>4 DEF CountsUp, TypeOK, Request
    <2> QED BY <1>4, <2>1 DEF CountsUp, Settles, Alone, TypeOK
  <1>5. CASE Stands
    <2>1. terms' \in Terms => Limit(terms') \in Limits
      BY LimitIsLimit
    <2> QED BY <1>5, <2>1 DEF Stands, TermsChange, vars, TypeOK
  <1> QED BY <1>1, <1>2, <1>3, <1>4, <1>5, NextSteps

LEMMA KindStep ==
  ASSUME TypeOK, KindInv, [Next]_vars
  PROVE  KindInv'
  <1>1. ASSUME NEW r \in Requests, Alone(r), KindOK(req'[r]) PROVE KindInv'
    BY <1>1 DEF Alone, KindInv
  <1>2. ASSUME NEW r \in Requests, Quiet(r) PROVE KindInv'
    <2>1. KindOK(req[r]) /\ req[r] \in Request
      BY DEF KindInv, TypeOK
    <2>2. CASE Begins(r)
      BY <1>1, <2>2 DEF Begins
    <2>3. CASE Limited(r)
      BY <1>1, <2>1, <2>3 DEF Limited, KindOK, At
    <2>4. CASE Counts(r)
      BY <1>1, <2>1, <2>4 DEF Counts, KindOK, At, Request
    <2>5. CASE Updates(r)
      BY <1>1, <2>1, <2>5 DEF Updates, KindOK, At, Request
    <2>6. CASE Reserves(r)
      BY <1>1, <2>1, <2>6 DEF Reserves, KindOK, At, Request
    <2>7. CASE Gives(r)
      BY <1>1, <2>7 DEF Gives, Settles, KindOK
    <2> QED BY <1>2, <2>2, <2>3, <2>4, <2>5, <2>6, <2>7 DEF Quiet
  <1>3. ASSUME NEW r \in Requests, Commits(r) \/ Sets(r) PROVE KindInv'
    <2>1. \A s \in Requests \ {r} : Keeps(s)
      BY <1>3 DEF Commits, Sets, Passed
    <2>2. req'[r].pc = "done"
      BY <1>3 DEF Commits, Sets
    <2> QED BY <2>1, <2>2 DEF KindInv, KindOK, Keeps
  <1>4. ASSUME NEW r \in Requests, CountsUp(r) PROVE KindInv'
    BY <1>1, <1>4 DEF CountsUp, Settles, KindOK
  <1>5. CASE Stands
    BY <1>5 DEF Stands, TermsChange, vars, KindInv
  <1> QED BY <1>2, <1>3, <1>4, <1>5, NextSteps

\* No limit is withdrawn from those that were offered.
LEMMA OfferedGrows ==
  ASSUME TypeOK, KindInv, [Next]_vars
  PROVE  offered \subseteq offered'
  BY NextSteps DEF Quiet, Begins, Limited, Counts, Updates, Reserves, Gives, rowVars,
                   Commits, Sets, CountsUp, Stands, TermsChange, vars

LEMMA LimitStep ==
  ASSUME TypeOK, KindInv, LimitInv, [Next]_vars
  PROVE  LimitInv'
  <1>1. offered \subseteq offered'
    BY OfferedGrows
  <1>2. ASSUME NEW r \in Requests, Quiet(r) PROVE LimitInv'
    <2>1. LimitOK(req[r]) /\ req[r] \in Request /\ Limit(terms) \in offered
      BY DEF LimitInv, TypeOK
    <2>2. UNCHANGED <<terms, offered>> /\ Alone(r)
      BY <1>2 DEF Quiet, Begins, Limited, Counts, Updates, Reserves, Gives, Settles, rowVars
    <2>3. CASE Begins(r)
      BY <2>1, <2>2, <2>3 DEF Begins, LimitInv, LimitOK, Alone
    <2>4. CASE Limited(r)
      BY <2>1, <2>2, <2>4 DEF Limited, LimitInv, LimitOK, Alone
    <2>5. CASE Counts(r)
      BY <2>1, <2>2, <2>5 DEF Counts, LimitInv, LimitOK, Alone, At, Request
    <2>6. CASE Updates(r)
      BY <2>1, <2>2, <2>6 DEF Updates, LimitInv, LimitOK, Alone, At, Request
    <2>7. CASE Reserves(r)
      BY <2>1, <2>2, <2>7 DEF Reserves, LimitInv, LimitOK, Alone, At, Request
    <2>8. CASE Gives(r)
      BY <2>1, <2>2, <2>8 DEF Gives, Settles, LimitInv, LimitOK, Alone
    <2> QED BY <1>2, <2>3, <2>4, <2>5, <2>6, <2>7, <2>8 DEF Quiet
  <1>3. ASSUME NEW r \in Requests, Commits(r) \/ Sets(r) PROVE LimitInv'
    <2>1. \A s \in Requests \ {r} : Keeps(s)
      BY <1>3 DEF Commits, Sets, Passed
    <2>2. req'[r].pc = "done" /\ UNCHANGED <<terms, offered>>
      BY <1>3 DEF Commits, Sets
    <2> QED BY <2>1, <2>2 DEF LimitInv, LimitOK, Keeps
  <1>4. ASSUME NEW r \in Requests, CountsUp(r) PROVE LimitInv'
    BY <1>4 DEF CountsUp, Settles, Alone, LimitInv, LimitOK
  <1>5. CASE Stands
    BY <1>1, <1>5 DEF Stands, TermsChange, vars, LimitInv, LimitOK
  <1> QED BY <1>2, <1>3, <1>4, <1>5, NextSteps

LEMMA ClosuresAreCommitted ==
  ASSUME TypeOK, OrderInv, NEW r \in Requests
  PROVE  /\ Earlier(r) \subseteq Committed /\ Later(r) \subseteq Committed
         /\ AndBefore(Earlier(r)) \subseteq Committed /\ AndAfter(Later(r)) \subseteq Committed
  <1>1. Earlier(r) \subseteq Committed /\ Later(r) \subseteq Committed
    BY DEF Earlier, Later, OrderInv
  <1>2. ASSUME NEW s \in Requests, NEW t \in Requests, <<s, t>> \in before \/ <<t, s>> \in before
        PROVE  s \in Committed
    <2>1. \E p \in before : s \in {p[1], p[2]}
      <3>1. CASE <<s, t>> \in before
        <4> DEFINE p == <<s, t>>
        <4>1. p \in before /\ s = p[1]
          BY <3>1
        <4> QED BY <4>1
      <3>2. CASE <<t, s>> \in before
        <4> DEFINE p == <<t, s>>
        <4>1. p \in before /\ s = p[2]
          BY <3>2
        <4> QED BY <4>1
      <3> QED BY <1>2, <3>1, <3>2
    <2> QED BY <2>1 DEF Committed
  <1>3. Committed \subseteq Requests
    BY DEF Committed
  <1> QED BY <1>1, <1>2, <1>3 DEF AndBefore, AndAfter

LEMMA CommittedGrows ==
  ASSUME TypeOK, OrderInv, NEW r \in Requests, Commits(r)
  PROVE  Committed' = Committed \cup {r}
  <1>1. AndBefore(Earlier(r)) \subseteq Committed /\ AndAfter(Later(r)) \subseteq Committed
    BY ClosuresAreCommitted
  <1> DEFINE new == (AndBefore(Earlier(r)) \X ({r} \cup AndAfter(Later(r))))
                      \cup ({r} \X AndAfter(Later(r)))
  <1>2. before' = before \cup {<<r, r>>} \cup new
    BY DEF Commits
  <1>3. \A p \in new : p[1] \in Committed \cup {r} /\ p[2] \in Committed \cup {r}
    BY <1>1
  <1>4. \A p \in before : p[1] \in Committed /\ p[2] \in Committed
    BY DEF Committed, TypeOK
  <1> HIDE DEF new
  <1>5. ASSUME NEW s \in Committed' PROVE s \in Committed \cup {r}
    <2>1. PICK p \in before' : s \in {p[1], p[2]}
      BY DEF Committed
    <2> QED BY <1>2, <1>3, <1>4, <2>1
  <1>6. ASSUME NEW s \in Committed PROVE s \in Committed'
    <2>1. PICK p \in before : s \in {p[1], p[2]}
      BY DEF Committed
    <2> QED BY <1>2, <2>1 DEF Committed
  <1>7. r \in Committed'
    <2> DEFINE p == <<r, r>>
    <2>1. p \in before' /\ r = p[1]
      BY <1>2
    <2> HIDE DEF p
    <2> QED BY <2>1 DEF Committed
  <1> QED BY <1>5, <1>6, <1>7

LEMMA OrderStep ==
  ASSUME TypeOK, KindInv, LimitInv, OrderInv, [Next]_vars
  PROVE  OrderInv'
  <1>1. offered \subseteq offered'
    BY OfferedGrows
  <1>2. ASSUME before' = before PROVE Committed' = Committed
    BY <1>2 DEF Committed
  <1>3. ASSUME NEW r \in Requests, Alone(r), ~ At(r, "done"), before' = before,
               req'[r].missed \subseteq req[r].missed
        PROVE  OrderInv'
    BY <1>1, <1>2, <1>3 DEF OrderInv, CommittedOK, Alone, At, Committed
  <1>4. ASSUME NEW r \in Requests, Quiet(r) PROVE OrderInv'
    <2>1. Alone(r) /\ before' = before
      BY <1>4 DEF Quiet, Begins, Limited, Counts, Updates, Reserves, Gives, Settles, rowVars
    <2>2. req'[r].missed \subseteq req[r].missed /\ ~ At(r, "done")
      BY <1>4 DEF Quiet, Begins, Limited, Counts, Updates, Reserves, Gives, Settles, At, TypeOK, Request
    <2> QED BY <1>3, <2>1, <2>2
  <1>5. ASSUME NEW r \in Requests, Commits(r) PROVE OrderInv'
    <2>1. Committed' = Committed \cup {r} /\ Committed \subseteq Requests
      BY <1>5, CommittedGrows DEF Committed
    <2>2. req[r].lim \in offered /\ req[r].kind \in {"enable", "select"}
      BY <1>5 DEF Commits, LimitInv, LimitOK, KindInv, KindOK, At
    <2>3. \A s \in Committed \ {r} : CommittedOK(s)'
      BY <1>1, <1>5, <2>1 DEF Commits, Passed, Keeps, OrderInv, CommittedOK, At
    <2>4. CommittedOK(r)'
      BY <1>1, <1>5, <2>2 DEF Commits, CommittedOK, At
    <2>5. \A s \in Requests : req'[s].missed \subseteq Committed \cup {r}
      BY <1>5 DEF Commits, Passed, OrderInv
    <2> QED BY <2>1, <2>3, <2>4, <2>5 DEF OrderInv
  <1>6. ASSUME NEW r \in Requests, Sets(r) PROVE OrderInv'
    <2>1. Committed' = Committed /\ Committed \subseteq Requests \ {r}
      BY <1>2, <1>6 DEF Sets, Committed, OrderInv, CommittedOK, At
    <2>2. \A s \in Requests : req'[s].missed \subseteq Committed
      BY <1>6 DEF Sets, Passed, OrderInv
    <2>3. \A s \in Committed : CommittedOK(s)'
      BY <1>1, <1>6, <2>1 DEF Sets, Passed, Keeps, OrderInv, CommittedOK, At
    <2> QED BY <2>1, <2>2, <2>3 DEF OrderInv
  <1>7. ASSUME NEW r \in Requests, CountsUp(r) PROVE OrderInv'
    <2>1. Alone(r) /\ before' = before /\ ~ At(r, "done") /\ req'[r].missed = {}
      BY <1>7 DEF CountsUp, Settles, At
    <2> QED BY <1>3, <2>1
  <1>8. CASE Stands
    BY <1>1, <1>2, <1>8 DEF Stands, TermsChange, vars, OrderInv, CommittedOK, At
  <1> QED BY <1>4, <1>5, <1>6, <1>7, <1>8, NextSteps

-----------------------------------------------------------------------------
(* Accounts *)

LEMMA FewerFit ==
  ASSUME NEW T \in SUBSET Accounts, NEW S \in SUBSET T, NEW limit \in Limits,
         Fits(Cardinality(T), limit)
  PROVE  Fits(Cardinality(S), limit)
  <1>1. IsFiniteSet(T) /\ IsFiniteSet(S) /\ Cardinality(S) <= Cardinality(T)
    BY UsageLimitsAssumption, FS_Subset
  <1>2. Cardinality(S) \in Nat /\ Cardinality(T) \in Nat
    BY <1>1, FS_CardinalityType
  <1> QED BY <1>1, <1>2 DEF Fits, Limits

LEMMA SameRows ==
  ASSUME NEW s, req'[s].kind = req[s].kind, req'[s].arg = req[s].arg,
         req'[s].conn = req[s].conn, req'[s].snap = req[s].snap
  PROVE  Rows(s)' = Rows(s) /\ Changes(s)' = Changes(s)
  <1>1. Rows(s)' = Rows(s)
    BY DEF Rows, Of
  <1> QED BY <1>1 DEF Changes

LEMMA ChangesAreAccounts ==
  ASSUME TypeOK, NEW s \in Requests
  PROVE  Changes(s) \subseteq Accounts
  BY RowsAreAccounts DEF Changes, TypeOK, Request

\* A transaction finds its place in the order unchanged by steps of others
\* that are not done.
LEMMA MissedSame ==
  ASSUME TypeOK, OrderInv, NEW r \in Requests, ~ At(r, "done"),
         \A s \in Requests \ {r} : Keeps(s), NEW s \in Requests
  PROVE  \A t \in req[s].missed : t \in Requests \ {r} /\ Changes(t)' = Changes(t)
  <1>1. \A t \in req[s].missed : t \in Requests \ {r}
    BY DEF OrderInv, CommittedOK, Committed
  <1> QED BY <1>1, SameRows DEF Keeps

\* The step of a request that changes no row of an account and sends nobody
\* into a transaction.
LEMMA AccountsLeft ==
  ASSUME TypeOK, OrderInv, AccountInv, NEW r \in Requests, ~ At(r, "done"), Alone(r),
         UNCHANGED <<offered, enabled, assisted>>,
         InTransaction(r)' => ViewOK(r)' /\ RoomOK(r)',
         At(r, "commit")' => Rows(r)' \cap req'[r].stale = {} /\ \A a \in Rows(r)' : ~ Held(a)
  PROVE  AccountInv'
  <1>1. \A s \in Requests \ {r} : req'[s] = req[s] /\ Keeps(s)
    BY DEF Alone, Keeps
  <1>2. ASSUME NEW s \in Requests \ {r}
        PROVE  Rows(s)' = Rows(s) /\ Changes(s)' = Changes(s)
    BY <1>1, SameRows DEF Keeps
  <1>3. ASSUME NEW s \in Requests \ {r}
        PROVE  ViewOK(s)' /\ RoomOK(s)'
    <2>1. ViewOK(s) /\ RoomOK(s)
      BY DEF AccountInv
    <2>2. Undisturbed(s)' => Undisturbed(s)
      BY <1>1, <1>2, MissedSame DEF Undisturbed
    <2>3. After(s)' = After(s)
      BY <1>1, <1>2 DEF After
    <2> QED BY <1>1, <2>1, <2>2, <2>3 DEF ViewOK, RoomOK, InTransaction
  <1>4. ViewOK(r)' /\ RoomOK(r)'
    BY DEF ViewOK, RoomOK
  <1>5. HoldInv'
    <2>1. ASSUME NEW s \in Requests \ {r}, At(s, "commit"), At(r, "commit")'
          PROVE  Rows(r)' \cap Rows(s) = {}
      BY <2>1 DEF Held
    <2>2. \A s \in Requests \ {r} : At(s, "commit")' <=> At(s, "commit")
      BY <1>1 DEF At
    <2> QED BY <1>1, <1>2, <2>1, <2>2 DEF HoldInv, AccountInv
  <1>6. SelectionWithinLimit'
    BY DEF AccountInv, SelectionWithinLimit, Within
  <1> QED BY <1>3, <1>4, <1>5, <1>6 DEF AccountInv

LEMMA QuietAccounts ==
  ASSUME TypeOK, KindInv, LimitInv, OrderInv, AccountInv, NEW r \in Requests, Quiet(r)
  PROVE  AccountInv'
  <1>1. Alone(r) /\ UNCHANGED <<offered, enabled, assisted>> /\ ~ At(r, "done")
    BY DEF Quiet, Begins, Limited, Counts, Updates, Reserves, Gives, Settles, rowVars, At
  <1>2. req[r] \in Request
    BY DEF TypeOK
  <1>3. CASE Begins(r) \/ Limited(r) \/ Reserves(r) \/ Gives(r)
    <2>1. ~ InTransaction(r)' /\ ~ At(r, "commit")'
      BY <1>2, <1>3 DEF Begins, Limited, Reserves, Gives, Settles, InTransaction, At, Request
    <2> QED BY <1>1, <2>1, AccountsLeft
  <1>4. CASE Counts(r)
    <2>1. req'[r].pc = "write" /\ req'[r].snap = enabled /\ req'[r].kind = req[r].kind
          /\ req'[r].arg = req[r].arg /\ req'[r].conn = req[r].conn /\ req'[r].lim = req[r].lim
      BY <1>2, <1>4 DEF Counts, Request
    <2>2. req[r].kind \in {"enable", "select"} /\ req[r].lim \in Limits
      BY <1>2, <1>4 DEF Counts, KindInv, KindOK, At, Request
    <2>3. After(r)' = Wanted(r)
      <3>1. CASE req[r].kind = "enable"
        BY <1>1, <2>1, <3>1 DEF After, Rows, Wanted
      <3>2. CASE req[r].kind = "select"
        BY <1>1, <2>1, <3>2 DEF After, Rows, Wanted, Of
      <3> QED BY <2>2, <3>1, <3>2
    <2>4. Wanted(r) \subseteq Accounts
      BY <1>2 DEF Wanted, TypeOK, Request
    <2>5. Fits(Cardinality(Wanted(r) \ assisted), req[r].lim)
      BY <1>4, <2>2, <2>4, FewerFit DEF Counts
    <2>6. ViewOK(r)' /\ RoomOK(r)'
      BY <1>1, <2>1, <2>3, <2>5 DEF ViewOK, RoomOK
    <2> QED BY <1>1, <2>1, <2>6, AccountsLeft DEF At
  <1>5. CASE Updates(r)
    <2>1. req'[r].pc = "commit" /\ req'[r].snap = req[r].snap /\ req'[r].kind = req[r].kind
          /\ req'[r].arg = req[r].arg /\ req'[r].conn = req[r].conn /\ req'[r].lim = req[r].lim
          /\ req'[r].stale = req[r].stale /\ req'[r].missed = req[r].missed
      BY <1>2, <1>5 DEF Updates, Request
    <2>2. Rows(r)' = Rows(r) /\ After(r)' = After(r)
      BY <1>1, <2>1, SameRows DEF After
    <2>3. InTransaction(r)
      BY <1>5 DEF Updates, InTransaction, At
    <2>4. ViewOK(r)'
      BY <1>1, <2>1, <2>3 DEF AccountInv, ViewOK
    <2>5. Undisturbed(r)' => Undisturbed(r)
      <3>1. \A s \in Requests \ {r} : Keeps(s)
        BY <1>1 DEF Alone, Keeps
      <3> QED BY <1>1, <2>1, <2>2, <3>1, MissedSame DEF Undisturbed
    <2>6. RoomOK(r)'
      BY <1>1, <2>1, <2>2, <2>3, <2>5 DEF AccountInv, RoomOK
    <2>7. Rows(r)' \cap req'[r].stale = {} /\ \A a \in Rows(r)' : ~ Held(a)
      BY <1>5, <2>1, <2>2 DEF Updates
    <2> QED BY <1>1, <2>4, <2>6, <2>7, AccountsLeft
  <1> QED BY <1>3, <1>4, <1>5 DEF Quiet

\* Transactions that commit one after the other in the order PostgreSQL
\* found: of two that did not see each other one changed nothing.
LEMMA NobodyMissed ==
  ASSUME TypeOK, LimitInv, OrderInv, HoldInv, NEW r \in Requests, Commits(r),
         None \notin offered, Changes(r) # {}
  PROVE  Undisturbed(r)
  <1>1. Rows(r) \cap req[r].stale = {}
    BY DEF Commits, HoldInv
  <1>2. ASSUME NEW s \in req[r].missed, Changes(s) # {} PROVE FALSE
    <2>1. s \in Committed /\ s \in Requests \ {r}
      BY DEF OrderInv, CommittedOK, Committed, Commits, At
    <2>2. Reads(r) = Accounts
      BY DEF Reads, Commits, LimitInv, LimitOK, At
    <2>3. Reads(s) = Accounts
      BY <2>1 DEF Reads, OrderInv, CommittedOK
    <2>4. Changes(s) \subseteq Accounts /\ Changes(r) \subseteq Accounts
      BY <2>1, ChangesAreAccounts
    <2>5. s \in Later(r)
      BY <1>2, <2>2, <2>4 DEF Later
    <2>6. s \in Earlier(r)
      BY <2>1, <2>3, <2>4 DEF Earlier
    <2> QED BY <2>5, <2>6 DEF Commits, Serializable, AndBefore, AndAfter
  <1> QED BY <1>1, <1>2 DEF Undisturbed

\* A transaction that changes nothing writes what is there.
LEMMA NothingChanged ==
  ASSUME TypeOK, KindInv, AccountInv, NEW r \in Requests, At(r, "commit"), Changes(r) = {}
  PROVE  After(r) = enabled
  <1>1. req[r].kind \in {"enable", "select"} /\ req[r] \in Request
    BY DEF KindInv, KindOK, At, TypeOK
  <1>2. CASE req[r].kind = "enable"
    BY <1>2 DEF Changes, After, Rows
  <1>3. CASE req[r].kind = "select"
    <2>1. Rows(r) = req[r].arg /\ req[r].arg \subseteq req[r].snap
      BY <1>1, <1>3, RowsAreAccounts DEF Changes
    <2>2. req[r].arg \cap req[r].stale = {} /\ req[r].arg \subseteq Accounts
      BY <1>1, <2>1 DEF AccountInv, HoldInv, Request
    <2>3. req[r].arg \subseteq enabled
      BY <2>1, <2>2 DEF AccountInv, ViewOK, InTransaction, At
    <2> QED BY <2>1, <2>3 DEF After
  <1> QED BY <1>1, <1>2, <1>3

LEMMA CommitAccounts ==
  ASSUME TypeOK, KindInv, LimitInv, OrderInv, AccountInv, NEW r \in Requests, Commits(r)
  PROVE  AccountInv'
  <1>1. At(r, "commit") /\ ~ At(r, "done") /\ InTransaction(r) /\ req[r] \in Request
    BY DEF Commits, At, InTransaction, TypeOK
  <1>2. \A s \in Requests \ {r} : Keeps(s)
    BY DEF Commits, Passed
  <1>3. \A s \in Requests : Rows(s)' = Rows(s) /\ Changes(s)' = Changes(s)
    BY <1>2, SameRows DEF Keeps, Commits
  <1>4. req[r].arg \subseteq Rows(r) /\ enabled' = After(r)
        /\ assisted' = assisted \cap enabled' /\ offered' = offered
    BY RowsAreAccounts DEF Commits
  <1>5. ASSUME NEW s \in Requests PROVE ViewOK(s)'
    <2>1. CASE s = r
      BY <2>1 DEF Commits, ViewOK, InTransaction
    <2>2. CASE s # r
      <3>1. ViewOK(s) /\ Passed(s, Rows(r), {r})
        BY <2>2 DEF AccountInv, Commits
      <3> QED BY <1>4, <3>1 DEF Passed, Keeps, ViewOK, InTransaction, After
    <2> QED BY <2>1, <2>2
  <1>6. HoldInv'
    <2>1. ASSUME NEW s \in Requests, At(s, "commit")'
          PROVE  s # r /\ At(s, "commit") /\ req'[s].stale = req[s].stale \cup Rows(r)
      BY <2>1 DEF Commits, Passed, Keeps, At, InTransaction
    <2>2. HoldInv
      BY DEF AccountInv
    <2> QED BY <1>1, <1>3, <2>1, <2>2 DEF HoldInv
  <1>7. CASE Changes(r) = {}
    <2>1. enabled' = enabled /\ assisted' = assisted
      BY <1>1, <1>4, <1>7, NothingChanged DEF TypeOK
    <2>2. ASSUME NEW s \in Requests PROVE RoomOK(s)'
      <3>1. CASE s = r
        BY <3>1 DEF Commits, RoomOK, InTransaction
      <3>2. CASE s # r /\ InTransaction(s)
        <4>1. RoomOK(s) /\ Passed(s, Rows(r), {r})
          BY <3>2 DEF AccountInv, Commits
        <4>2. Undisturbed(s)' => Undisturbed(s)
          BY <1>1, <1>2, <1>3, <3>2, <4>1, MissedSame DEF Undisturbed, Passed
        <4>3. After(s)' = After(s)
          BY <1>2, <1>3, <2>1, <3>2 DEF After, Keeps
        <4> QED BY <1>4, <2>1, <4>1, <4>2, <4>3 DEF RoomOK, Passed, Keeps, InTransaction
      <3>3. CASE s # r /\ ~ InTransaction(s)
        BY <1>2, <3>3 DEF RoomOK, InTransaction, Keeps
      <3> QED BY <3>1, <3>2, <3>3
    <2>3. SelectionWithinLimit'
      BY <1>4, <2>1 DEF AccountInv, SelectionWithinLimit, Within
    <2> QED BY <1>5, <1>6, <2>2, <2>3 DEF AccountInv
  <1>8. CASE Changes(r) # {}
    <2>1. ASSUME NEW s \in Requests PROVE RoomOK(s)'
      <3>1. CASE ~ InTransaction(s)'
        BY <3>1 DEF RoomOK
      <3>2. CASE InTransaction(s)'
        <4>1. s # r /\ InTransaction(s) /\ req'[s].missed = req[s].missed \cup {r}
          BY <3>2 DEF Commits, Passed, Keeps, InTransaction
        <4> QED BY <1>3, <1>8, <4>1 DEF RoomOK, Undisturbed
      <3> QED BY <3>1, <3>2
    <2>2. SelectionWithinLimit'
      <3>1. CASE None \in offered
        BY <1>4, <3>1 DEF SelectionWithinLimit, Within, Fits
      <3>2. CASE None \notin offered
        <4>1. Undisturbed(r)
          BY <1>8, <3>2, NobodyMissed DEF AccountInv
        <4>2. Fits(Cardinality(After(r) \ assisted), req[r].lim)
          BY <1>1, <3>2, <4>1 DEF AccountInv, RoomOK
        <4>3. enabled' \ assisted' = After(r) \ assisted
          BY <1>4
        <4>4. req[r].lim \in offered'
          BY <1>1, <1>4 DEF LimitInv, LimitOK, At
        <4> QED BY <4>2, <4>3, <4>4 DEF SelectionWithinLimit, Within
      <3> QED BY <3>1, <3>2
    <2> QED BY <1>5, <1>6, <2>1, <2>2 DEF AccountInv
  <1> QED BY <1>7, <1>8

LEMMA SetAccounts ==
  ASSUME TypeOK, KindInv, LimitInv, OrderInv, AccountInv, NEW r \in Requests, Sets(r)
  PROVE  AccountInv'
  <1> DEFINE rows == req[r].arg
  <1>1. ~ At(r, "done") /\ rows \subseteq Accounts /\ offered' = offered
    BY DEF Sets, At, TypeOK, Request
  <1>2. \A s \in Requests \ {r} : Keeps(s) /\ Passed(s, rows, {})
    BY DEF Sets, Passed
  <1>3. \A s \in Requests \ {r} : Rows(s)' = Rows(s) /\ Changes(s)' = Changes(s)
    BY <1>2, SameRows DEF Keeps
  <1>4. \A s \in Requests : InTransaction(s)' => s # r /\ InTransaction(s)
    BY <1>2 DEF Sets, InTransaction, Keeps
  <1>5. \A a \in Accounts \ rows : a \in enabled' <=> a \in enabled
    BY DEF Sets
  <1>6. ASSUME NEW s \in Requests PROVE ViewOK(s)'
    BY <1>2, <1>4, <1>5 DEF AccountInv, ViewOK, Passed, Keeps
  <1>7. ASSUME NEW s \in Requests, InTransaction(s)' PROVE RoomOK(s)'
    <2>1. s # r /\ InTransaction(s) /\ RoomOK(s) /\ Passed(s, rows, {})
      BY <1>2, <1>4, <1>7 DEF AccountInv
    <2>2. Undisturbed(s)' => Undisturbed(s) /\ Rows(s) \cap rows = {}
      BY <1>1, <1>2, <1>3, <2>1, MissedSame DEF Undisturbed, Passed
    <2>3. ASSUME Rows(s) \cap rows = {}
          PROVE  After(s)' \ assisted' \subseteq After(s) \ assisted
      <3>1. After(s)' = (enabled' \ Rows(s)) \cup req[s].arg
        BY <1>3, <2>1 DEF After, Passed, Keeps
      <3>2. req[s].arg \subseteq Rows(s)
        BY RowsAreAccounts
      <3>3. CASE enabled' = enabled \ rows /\ assisted' = assisted \ rows
        BY <2>3, <3>1, <3>2, <3>3 DEF After
      <3>4. CASE enabled' = enabled \cup rows /\ assisted' = assisted \cup (rows \ enabled)
        BY <2>3, <3>1, <3>2, <3>4 DEF After
      <3> QED BY <3>3, <3>4 DEF Sets
    <2>4. After(s) \ assisted \subseteq Accounts /\ req[s].lim \in Limits
      BY RowsAreAccounts DEF After, TypeOK, Request
    <2>5. Fits(Cardinality(After(s) \ assisted), req[s].lim) /\ Rows(s) \cap rows = {}
          => Fits(Cardinality(After(s)' \ assisted'), req[s].lim)
      BY <2>3, <2>4, FewerFit
    <2> QED BY <1>1, <2>1, <2>2, <2>5 DEF RoomOK, Passed, Keeps
  <1>8. HoldInv'
    <2>1. ASSUME NEW s \in Requests, At(s, "commit")'
          PROVE  s # r /\ At(s, "commit") /\ req'[s].stale = req[s].stale \cup rows
      BY <1>2, <2>1 DEF Sets, Passed, Keeps, At, InTransaction
    <2>2. \A s \in Requests : At(s, "commit") => Rows(s) \cap rows = {}
      BY DEF Sets, Held
    <2>3. HoldInv
      BY DEF AccountInv
    <2> QED BY <1>3, <2>1, <2>2, <2>3 DEF HoldInv
  <1>9. SelectionWithinLimit'
    <2>1. PICK limit \in offered : Fits(Cardinality(enabled \ assisted), limit)
      BY DEF AccountInv, SelectionWithinLimit, Within
    <2>2. enabled' \ assisted' \subseteq enabled \ assisted
      BY DEF Sets
    <2>3. limit \in Limits /\ enabled \ assisted \subseteq Accounts
      BY DEF TypeOK
    <2>4. Fits(Cardinality(enabled' \ assisted'), limit)
      BY <2>1, <2>2, <2>3, FewerFit
    <2> QED BY <1>1, <2>4 DEF SelectionWithinLimit, Within
  <1>10. \A s \in Requests : RoomOK(s)'
    BY <1>7 DEF RoomOK
  <1> QED BY <1>6, <1>8, <1>9, <1>10 DEF AccountInv

LEMMA AccountStep ==
  ASSUME TypeOK, KindInv, LimitInv, OrderInv, AccountInv, [Next]_vars
  PROVE  AccountInv'
  <1>1. ASSUME NEW r \in Requests, CountsUp(r) PROVE AccountInv'
    <2>1. Alone(r) /\ UNCHANGED <<offered, enabled, assisted>> /\ ~ At(r, "done")
          /\ ~ InTransaction(r)' /\ ~ At(r, "commit")'
      BY <1>1 DEF CountsUp, Settles, At, InTransaction
    <2> QED BY <2>1, AccountsLeft
  <1>2. CASE Stands
    <2>1. UNCHANGED <<enabled, assisted, req>> /\ offered \subseteq offered'
      BY <1>2 DEF Stands, TermsChange, vars
    <2>2. \A s \in Requests : Rows(s)' = Rows(s) /\ Changes(s)' = Changes(s)
      BY <2>1, SameRows
    <2>3. ASSUME NEW s \in Requests PROVE ViewOK(s)' /\ RoomOK(s)'
      <3>1. ViewOK(s) /\ RoomOK(s)
        BY DEF AccountInv
      <3>2. \A t \in req[s].missed : t \in Requests
        BY DEF TypeOK, Request
      <3>3. Undisturbed(s)' => Undisturbed(s)
        BY <2>1, <2>2, <3>2 DEF Undisturbed
      <3>4. After(s)' = After(s)
        BY <2>1, <2>2 DEF After
      <3> QED BY <2>1, <3>1, <3>3, <3>4 DEF ViewOK, RoomOK, InTransaction
    <2>4. HoldInv'
      BY <2>1, <2>2 DEF AccountInv, HoldInv, At
    <2>5. SelectionWithinLimit'
      BY <2>1 DEF AccountInv, SelectionWithinLimit, Within
    <2> QED BY <2>3, <2>4, <2>5 DEF AccountInv
  <1> QED BY <1>1, <1>2, QuietAccounts, CommitAccounts, SetAccounts, NextSteps

-----------------------------------------------------------------------------
(* MCP requests *)

\* Who is neither an MCP request nor answered "ok" is not admitted.
LEMMA AdmittedStays ==
  ASSUME KindInv, NEW r \in Requests, \A s \in Requests \ {r} : Keeps(s),
         req'[r].kind # "consume" \/ req'[r].answer # "ok",
         req[r].answer = "none"
  PROVE  Admitted' = Admitted
  BY DEF Admitted, Keeps

LEMMA ReservedStep ==
  ASSUME TypeOK, KindInv, ReservedInv, [Next]_vars
  PROVE  ReservedInv'
  <1>1. ASSUME NEW r \in Requests, \A s \in Requests \ {r} : Keeps(s), used' = used,
               req'[r].pc # "reserved"
        PROVE  ReservedInv'
    BY <1>1 DEF ReservedInv, Keeps, At
  <1>2. ASSUME NEW r \in Requests, Quiet(r) PROVE ReservedInv'
    <2>1. \A s \in Requests \ {r} : Keeps(s)
      BY <1>2 DEF Quiet, Begins, Limited, Counts, Updates, Reserves, Gives, Settles, Alone, Keeps
    <2>2. used' = used
      BY <1>2 DEF Quiet, Begins, Limited, Counts, Updates, Reserves, Gives, rowVars
    <2>3. CASE Reserves(r)
      <3>1. req'[r].pc = "reserved" /\ req'[r].count = used + 1
        BY <2>3 DEF Reserves, TypeOK, Request
      <3>2. \A s \in Requests \ {r} : ~ At(s, "reserved")'
        BY <2>1, <2>3 DEF Reserves, Unreserved, Keeps, At
      <3> QED BY <2>2, <3>1, <3>2 DEF ReservedInv, At
    <2>4. CASE ~ Reserves(r)
      <3>1. req'[r].pc # "reserved"
        BY <1>2, <2>4 DEF Quiet, Begins, Limited, Counts, Updates, Gives, Settles, TypeOK, Request
      <3> QED BY <1>1, <2>1, <2>2, <3>1
    <2> QED BY <2>3, <2>4
  <1>3. ASSUME NEW r \in Requests, Commits(r) \/ Sets(r) PROVE ReservedInv'
    BY <1>1, <1>3 DEF Commits, Sets, Passed
  <1>4. ASSUME NEW r \in Requests, CountsUp(r) PROVE ReservedInv'
    <2>1. Alone(r) /\ req'[r].pc = "done"
      BY <1>4 DEF CountsUp, Settles
    <2>2. \A s \in Requests \ {r} : ~ At(s, "reserved")
      BY <1>4 DEF CountsUp, ReservedInv
    <2> QED BY <2>1, <2>2 DEF ReservedInv, Alone, At
  <1>5. CASE Stands
    BY <1>5 DEF Stands, TermsChange, vars, ReservedInv, At
  <1> QED BY <1>2, <1>3, <1>4, <1>5, NextSteps

LEMMA CountStep ==
  ASSUME TypeOK, KindInv, LimitInv, ReservedInv, CountInv, [Next]_vars
  PROVE  CountInv'
  <1>1. offered \subseteq offered'
    BY OfferedGrows
  <1>2. ASSUME used' = used, Admitted' = Admitted PROVE CountInv'
    BY <1>1, <1>2 DEF CountInv, Within
  <1>3. ASSUME NEW r \in Requests, Quiet(r) PROVE CountInv'
    <2>1. \A s \in Requests \ {r} : Keeps(s)
      BY <1>3 DEF Quiet, Begins, Limited, Counts, Updates, Reserves, Gives, Settles, Alone, Keeps
    <2>2. used' = used /\ ~ At(r, "done")
      BY <1>3 DEF Quiet, Begins, Limited, Counts, Updates, Reserves, Gives, rowVars, At
    <2>3. req[r].answer = "none"
      BY <2>2 DEF KindInv, KindOK, At
    <2>4. KindInv'
      BY KindStep
    <2>5. req'[r].kind # "consume" \/ req'[r].answer # "ok"
      <3>1. CASE Gives(r)
        BY <3>1 DEF Gives, Settles
      <3>2. CASE ~ Gives(r)
        <4>1. req'[r].pc # "done"
          BY <1>3, <3>2 DEF Quiet, Begins, Limited, Counts, Updates, Reserves, TypeOK, Request
        <4> QED BY <2>4, <4>1 DEF KindInv, KindOK
      <3> QED BY <3>1, <3>2
    <2> QED BY <1>2, <2>1, <2>2, <2>3, <2>5, AdmittedStays
  <1>4. ASSUME NEW r \in Requests, Commits(r) \/ Sets(r) PROVE CountInv'
    <2>1. \A s \in Requests \ {r} : Keeps(s)
      BY <1>4 DEF Commits, Sets, Passed
    <2>2. used' = used /\ req[r].answer = "none" /\ req'[r].kind # "consume"
      BY <1>4 DEF Commits, Sets, KindInv, KindOK, At
    <2> QED BY <1>2, <2>1, <2>2, AdmittedStays
  <1>5. ASSUME NEW r \in Requests, CountsUp(r) PROVE CountInv'
    <2>1. used' = used + 1 /\ used \in Nat
      BY <1>5 DEF CountsUp, ReservedInv, TypeOK
    <2>2. Within(used)'
      <3>1. CASE At(r, "reserved")
        <4>1. req[r].lim \in offered' /\ Fits(used', req[r].lim)
          BY <1>1, <1>5, <3>1 DEF CountsUp, LimitInv, LimitOK, At
        <4> QED BY <4>1 DEF Within
      <3>2. CASE At(r, "record")
        <4>1. None \in offered'
          BY <1>1, <3>2 DEF LimitInv, LimitOK, At
        <4> QED BY <4>1 DEF Within, Fits
      <3> QED BY <1>5, <3>1, <3>2 DEF CountsUp
    <2>3. Alone(r)
      BY <1>5 DEF CountsUp, Settles
    <2>4. Admitted' \subseteq Admitted \cup {r} /\ Admitted \subseteq Admitted' \cup {r}
      BY <2>3 DEF Admitted, Alone
    <2>5. r \notin Admitted
      BY <1>5 DEF CountsUp, KindInv, KindOK, At, Admitted
    <2>6. Admitted' = Admitted \/ Admitted' = Admitted \cup {r}
      BY <2>4, <2>5
    <2>7. IsFiniteSet(Admitted) /\ Cardinality(Admitted) <= used
      BY DEF CountInv
    <2>8. IsFiniteSet(Admitted \cup {r}) /\ Cardinality(Admitted \cup {r}) = Cardinality(Admitted) + 1
          /\ Cardinality(Admitted) \in Nat
      BY <2>5, <2>7, FS_AddElement, FS_CardinalityType
    <2>9. IsFiniteSet(Admitted') /\ Cardinality(Admitted') <= used'
      <3>1. CASE Admitted' = Admitted
        BY <2>1, <2>7, <2>8, <3>1
      <3>2. CASE Admitted' = Admitted \cup {r}
        BY <2>1, <2>7, <2>8, <3>2
      <3> QED BY <2>6, <3>1, <3>2
    <2> QED BY <2>2, <2>9 DEF CountInv
  <1>6. CASE Stands
    BY <1>2, <1>6 DEF Stands, TermsChange, vars, Admitted
  <1> QED BY <1>3, <1>4, <1>5, <1>6, NextSteps
-----------------------------------------------------------------------------
(* The theorems *)

LEMMA SafetyInit == Init => SafetyInv
  <1> SUFFICES ASSUME Init PROVE SafetyInv
    OBVIOUS
  <1>1. Limit(terms) \in Limits
    BY LimitIsLimit DEF Init
  <1>2. TypeOK
    BY <1>1, IdleIsRequest DEF Init, TypeOK
  <1>3. KindInv /\ LimitInv
    BY DEF Init, KindInv, KindOK, LimitInv, LimitOK, Idle
  <1>4. OrderInv
    BY DEF Init, OrderInv, Committed, Idle
  <1>5. Cardinality({}) = 0 /\ IsFiniteSet({})
    BY FS_EmptySet
  <1>6. Within(0)
    BY <1>1 DEF Init, Within, Fits, Limits
  <1>7. AccountInv
    <2>1. \A r \in Requests : ~ InTransaction(r) /\ ~ At(r, "commit")
      BY DEF Init, InTransaction, At, Idle
    <2>2. enabled \ assisted = {}
      BY DEF Init
    <2> QED BY <1>5, <1>6, <2>1, <2>2 DEF AccountInv, ViewOK, RoomOK, HoldInv, SelectionWithinLimit
  <1>8. ReservedInv
    BY DEF Init, ReservedInv, At, Idle
  <1>9. CountInv
    <2>1. Admitted = {} /\ used = 0
      BY DEF Init, Admitted, Idle
    <2> QED BY <1>5, <1>6, <2>1 DEF CountInv
  <1> QED BY <1>2, <1>3, <1>4, <1>7, <1>8, <1>9 DEF SafetyInv

\* The strengthening of the two properties below: what a request in a
\* transaction has read of accounts and limits, and who holds which row.
THEOREM SafetyInvariant == Spec => []SafetyInv
  <1>1. SafetyInv /\ [Next]_vars => SafetyInv'
    BY TypeStep, KindStep, LimitStep, OrderStep, AccountStep, ReservedStep, CountStep
       DEF SafetyInv
  <1> QED BY <1>1, SafetyInit, PTL DEF Spec

\* Every variable keeps its type (billing.service.ts).
THEOREM TypeCorrect == Spec => []TypeOK
  <1>1. SafetyInv => TypeOK
    BY DEF SafetyInv
  <1> QED BY <1>1, SafetyInvariant, PTL

\* The accounts that the dashboard enabled fit a limit the workspace was
\* offered, in any interleaving of selections (setProviderAccountEnabled and
\* setProviderAccountsEnabled: the count and the updates are one serializable
\* transaction).
THEOREM SelectionsFit == Spec => []SelectionWithinLimit
  <1>1. SafetyInv => SelectionWithinLimit
    BY DEF SafetyInv, AccountInv
  <1> QED BY <1>1, SafetyInvariant, PTL

\* The usage record never passes every offered limit, and each admitted MCP
\* request is in it (consumeMcpRequest: the upsert holds the record while its
\* quantity is compared).
THEOREM QuotaIsKept == Spec => []QuotaHolds
  <1>1. SafetyInv => QuotaHolds
    <2> SUFFICES ASSUME SafetyInv PROVE QuotaHolds
      OBVIOUS
    <2>1. used \in Nat /\ offered \subseteq Limits
      BY DEF SafetyInv, TypeOK
    <2>2. IsFiniteSet(Admitted) /\ Cardinality(Admitted) <= used /\ Within(used)
      BY DEF SafetyInv, CountInv
    <2>3. Cardinality(Admitted) \in Nat
      BY <2>2, FS_CardinalityType
    <2>4. Within(Cardinality(Admitted))
      BY <2>1, <2>2, <2>3 DEF Within, Fits, Limits
    <2> QED BY <2>2, <2>4 DEF QuotaHolds
  <1> QED BY <1>1, SafetyInvariant, PTL
=============================================================================
