--------------------------- MODULE MembershipProofs ---------------------------
(***************************************************************************)
(* Proofs about Membership, for any number of users and requests.  The     *)
(* argument about owners: nobody ever becomes an owner, the row that a     *)
(* statement has locked does not change before its commit, and one         *)
(* statement at a time is past the trigger.  The argument about            *)
(* invitations: an invitation that is being accepted is pending until the  *)
(* membership is inserted.                                                 *)
(***************************************************************************)
EXTENDS Membership, TLAPS

USE DEF Roles, Editable, Allowed

\* Which kinds of request reach which step, and what they name.
KindOK(q) ==
  /\ q.pc \in {"actor", "target", "count", "write", "commit"} =>
       q.kind \in {"role", "remove"} /\ q.target \in Users /\ q.actor \in Users
  /\ q.pc \in {"retire", "existing", "insert"} =>
       q.kind \in {"invite", "resend"} /\ q.target \in Users
  /\ q.pc = "retire" => q.kind = "resend"
  /\ q.pc = "withdraw" => q.kind = "revoke"
  /\ q.pc \in {"claim", "join"} => q.kind = "accept" /\ q.actor \in Users
  /\ q.kind \in {"resend", "revoke", "accept"} => q.invite \in Requests /\ Sent(q.invite)
  /\ q.pc # "done" => q.answer = "none"
  /\ q.role # "OWNER"

KindInv == \A r \in Requests : KindOK(req[r])

\* A request inserts its invitation with its last step.
FreshInv == \A r \in Requests : req[r].pc # "done" => ~ Sent(r)

\* The statement past the trigger holds the lock; what the trigger saw holds.
CommitInv ==
  \A r \in Requests : At(r, "commit") =>
    guarding = r /\ IsMember(req[r].target) /\ Retains(req[r].target)

\* Who changes an owner was read as an owner.
TouchInv ==
  \A r \in Requests :
    req[r].pc \in {"count", "write", "commit"} /\ Role(req[r].target) = "OWNER"
    => req[r].acting = "OWNER"

\* An invitation being accepted is pending, and accepted by one request.
JoinInv ==
  /\ \A r \in Requests : At(r, "join") => Pending(req[r].invite)
  /\ \A r, s \in Requests :
       At(r, "join") /\ At(s, "join") /\ req[r].invite = req[s].invite => r = s

\* What was answered of an invitation stays true.
AnswerInv ==
  /\ \A r \in Requests : Joined(r) => invite[req[r].invite].accepted
  /\ \A r \in Requests : req[r].kind = "revoke" /\ req[r].answer = "ok" =>
       invite[req[r].invite].revoked /\ ~ invite[req[r].invite].accepted

\* Who accepts is whom the invitation names, and gets the role it names; no
\* request gives a role that is not offered.
OfferOK(q) ==
  /\ q.kind \in {"role", "invite", "resend"} => q.role \in Editable
  /\ q.kind = "accept" =>
       q.actor = invite[q.invite].email /\ q.role = invite[q.invite].role

OfferInv ==
  /\ \A i \in Requests : Sent(i) => invite[i].role \in Editable
  /\ \A r \in Requests : OfferOK(req[r])

OwnerInv  == AlwaysAnOwner /\ CommitInv /\ TouchInv
InviteInv == FreshInv /\ JoinInv /\ AnswerInv /\ InvitationUsedOnce
SafetyInv == TypeOK /\ KindInv /\ OfferInv /\ OwnerInv /\ InviteInv
-----------------------------------------------------------------------------
(* How a request moves *)

\* Request r alone moves, and keeps what it was asked.
OneMoves(r) ==
  /\ req' \in [Requests -> Request]
  /\ \A s \in Requests \ {r} : req'[s] = req[s]
  /\ req'[r].kind = req[r].kind /\ req'[r].actor = req[r].actor
  /\ req'[r].target = req[r].target /\ req'[r].role = req[r].role
  /\ req'[r].invite = req[r].invite

\* How a step of r can go, by where it came from and where it gets.
Refuses(r) ==
  /\ req[r].pc \notin {"idle", "done"}
  /\ req'[r].pc = "done" /\ req'[r].answer = "refused"
  /\ guarding' = Unlocked(r) \/ (guarding' = guarding /\ req[r].pc # "commit")
  /\ UNCHANGED <<member, invite>>

Passes(r) ==
  /\ <<req[r].pc, req'[r].pc>> \in
       {<<"actor", "target">>, <<"target", "count">>, <<"target", "write">>, <<"count", "write">>,
        <<"existing", "insert">>, <<"claim", "join">>}
  /\ req[r].pc = "target" /\ Role(req[r].target) = "OWNER" => req'[r].acting = "OWNER"
  /\ req[r].pc = "count" => req'[r].acting = req[r].acting
  /\ req[r].pc = "claim" => Pending(req[r].invite) /\ ~ Claimed(req[r].invite)
  /\ req'[r].answer = req[r].answer
  /\ UNCHANGED <<member, invite, guarding>>

Locks(r) ==
  /\ req[r].pc = "write" /\ req'[r].pc = "commit" /\ req'[r].acting = req[r].acting
  /\ req'[r].answer = req[r].answer
  /\ guarding = None /\ guarding' = r
  /\ IsMember(req[r].target) /\ Retains(req[r].target)
  /\ UNCHANGED <<member, invite>>

Commits(r) ==
  /\ req[r].pc = "commit" /\ req'[r].pc = "done" /\ req'[r].answer = "ok"
  /\ req'[r].acting = req[r].acting
  /\ guarding' = Unlocked(r)
  /\ member' = [member EXCEPT ![req[r].target] =
       IF req[r].kind = "remove" THEN NoRow ELSE [@ EXCEPT !.role = req[r].role]]
  /\ UNCHANGED invite

Revokes(r) ==
  /\ ~ Claimed(req[r].invite)
  /\ \/ /\ req[r].pc = "retire" /\ req'[r].pc = "existing" /\ req'[r].answer = req[r].answer
     \/ /\ req[r].pc = "withdraw" /\ req'[r].pc = "done" /\ req'[r].answer = "ok"
        /\ Pending(req[r].invite)
  /\ invite' = [invite EXCEPT ![req[r].invite].revoked = TRUE]
  /\ UNCHANGED <<member, guarding>>

Inserts(r) ==
  /\ req[r].pc = "insert" /\ req'[r].pc = "done" /\ req'[r].answer = "ok"
  /\ invite' = [invite EXCEPT ![r] =
       [NoInvite EXCEPT !.email = req[r].target, !.role = req[r].role]]
  /\ UNCHANGED <<member, guarding>>

Joins(r) ==
  /\ req[r].pc = "join" /\ req'[r].pc = "done" /\ req'[r].answer = "ok"
  /\ ~ IsMember(req[r].actor)
  /\ member' = [member EXCEPT ![req[r].actor] = [id |-> r, role |-> req[r].role]]
  /\ invite' = [invite EXCEPT ![req[r].invite].accepted = TRUE]
  /\ UNCHANGED guarding

LEMMA Moves ==
  ASSUME TypeOK, NEW r \in Requests
  PROVE  /\ \A step \in Steps : Go(r, step) =>
              /\ OneMoves(r) /\ req'[r].pc = step /\ req'[r].answer = req[r].answer
              /\ req'[r].acting = req[r].acting
         /\ \A a \in {"ok", "refused"} : Answer(r, a) =>
              /\ OneMoves(r) /\ req'[r].pc = "done" /\ req'[r].answer = a
              /\ req'[r].acting = req[r].acting
  <1>1. req \in [Requests -> Request] /\ req[r] \in Request
    BY DEF TypeOK
  <1>2. ASSUME NEW step \in Steps, Go(r, step)
        PROVE  /\ OneMoves(r) /\ req'[r].pc = step /\ req'[r].answer = req[r].answer
               /\ req'[r].acting = req[r].acting
    <2> DEFINE q == [req[r] EXCEPT !.pc = step]
    <2>1. q \in Request
      BY <1>1 DEF Request
    <2>2. req' = [req EXCEPT ![r] = q]
      BY <1>1, <1>2 DEF Go
    <2>3. /\ q.kind = req[r].kind /\ q.actor = req[r].actor /\ q.target = req[r].target
          /\ q.role = req[r].role /\ q.invite = req[r].invite
          /\ q.pc = step /\ q.answer = req[r].answer /\ q.acting = req[r].acting
      BY <1>1 DEF Request
    <2> HIDE DEF q
    <2> QED BY <1>1, <2>1, <2>2, <2>3 DEF OneMoves
  <1>3. ASSUME NEW a \in {"ok", "refused"}, Answer(r, a)
        PROVE  /\ OneMoves(r) /\ req'[r].pc = "done" /\ req'[r].answer = a
               /\ req'[r].acting = req[r].acting
    <2> DEFINE q == [req[r] EXCEPT !.pc = "done", !.answer = a]
    <2>1. q \in Request
      BY <1>1 DEF Request, Steps
    <2>2. req' = [req EXCEPT ![r] = q]
      BY <1>1, <1>3 DEF Answer
    <2>3. /\ q.kind = req[r].kind /\ q.actor = req[r].actor /\ q.target = req[r].target
          /\ q.role = req[r].role /\ q.invite = req[r].invite
          /\ q.pc = "done" /\ q.answer = a /\ q.acting = req[r].acting
      BY <1>1 DEF Request
    <2> HIDE DEF q
    <2> QED BY <1>1, <2>1, <2>2, <2>3 DEF OneMoves
  <1> QED BY <1>2, <1>3

LEMMA ReadsMove ==
  ASSUME TypeOK, KindInv, NEW r \in Requests
  PROVE  /\ ReadActor(r) => OneMoves(r) /\ (Refuses(r) \/ Passes(r))
         /\ ReadTarget(r) => OneMoves(r) /\ (Refuses(r) \/ Passes(r))
  <1>1. req \in [Requests -> Request] /\ req[r] \in Request /\ KindOK(req[r])
    BY DEF TypeOK, KindInv
  <1>2. ASSUME ReadActor(r) PROVE OneMoves(r) /\ (Refuses(r) \/ Passes(r))
    <2>1. CASE ~ IsMember(req[r].actor)
      BY <1>2, <2>1, Moves DEF ReadActor, At, Refuses
    <2>2. CASE IsMember(req[r].actor)
      <3> DEFINE role == Role(req[r].actor)
                 q == [req[r] EXCEPT !.pc = "target", !.acting = role]
      <3>1. role \in Roles \cup {None}
        BY <1>1, <1>2 DEF KindOK, ReadActor, At, Role, TypeOK, Row
      <3>2. req' = [req EXCEPT ![r] = q]
        BY <1>1, <1>2, <2>2 DEF ReadActor
      <3> HIDE DEF role
      <3>3. q \in Request
        BY <1>1, <3>1 DEF Request, Steps
      <3>4. /\ q.kind = req[r].kind /\ q.actor = req[r].actor /\ q.target = req[r].target
            /\ q.role = req[r].role /\ q.invite = req[r].invite
            /\ q.pc = "target" /\ q.answer = req[r].answer
        BY <1>1 DEF Request
      <3> HIDE DEF q
      <3> QED BY <1>1, <1>2, <3>2, <3>3, <3>4 DEF OneMoves, Passes, ReadActor, At
    <2> QED BY <2>1, <2>2
  <1>3. ASSUME ReadTarget(r) PROVE OneMoves(r) /\ (Refuses(r) \/ Passes(r))
    <2> DEFINE t == req[r].target
    <2>1. CASE ~ (IsMember(t) /\ MayTouch(req[r].acting, Role(t)))
      BY <1>3, <2>1, Moves DEF ReadTarget, At, Refuses
    <2>2. CASE IsMember(t) /\ MayTouch(req[r].acting, Role(t))
      <3> DEFINE row  == member[t]
                 step == IF Role(t) = "OWNER" THEN "count" ELSE "write"
                 q    == [req[r] EXCEPT !.row = row, !.pc = step]
      <3>1. row \in Row
        BY <1>1, <1>3 DEF KindOK, ReadTarget, At, TypeOK
      <3>2. req' = [req EXCEPT ![r] = q]
        BY <1>1, <1>3, <2>2 DEF ReadTarget
      <3>3. step \in {"count", "write"}
        OBVIOUS
      <3> HIDE DEF row, step
      <3>4. q \in Request
        BY <1>1, <3>1, <3>3 DEF Request, Steps
      <3>5. /\ q.kind = req[r].kind /\ q.actor = req[r].actor /\ q.target = req[r].target
            /\ q.role = req[r].role /\ q.invite = req[r].invite
            /\ q.pc = step /\ q.answer = req[r].answer /\ q.acting = req[r].acting
        BY <1>1 DEF Request
      <3> HIDE DEF q
      <3>6. OneMoves(r) /\ req'[r] = q
        BY <1>1, <3>2, <3>4, <3>5 DEF OneMoves
      <3> QED BY <1>3, <2>2, <3>3, <3>5, <3>6 DEF Passes, ReadTarget, At, MayTouch
    <2> QED BY <2>1, <2>2
  <1> QED BY <1>2, <1>3

Runs(r) == Step(r) \/ Dies(r)

Went(r) == \/ Refuses(r) \/ Passes(r) \/ Locks(r) \/ Commits(r)
           \/ Revokes(r) \/ Inserts(r) \/ Joins(r)

LEMMA RunsWent ==
  ASSUME TypeOK, KindInv, NEW r \in Requests, Runs(r)
  PROVE  OneMoves(r) /\ Went(r)
  <1>1. CASE ReadActor(r) \/ ReadTarget(r)
    BY <1>1, ReadsMove DEF Went
  <1>2. CASE CountOwners(r)
    BY <1>2, Moves DEF CountOwners, At, Went, Refuses, Passes, Steps
  <1>3. CASE Write(r)
    BY <1>3, Moves DEF Write, At, Went, Refuses, Locks, Steps, LockFree
  <1>4. CASE CommitWrite(r)
    BY <1>4, Moves DEF CommitWrite, At, Went, Commits
  <1>5. CASE Retire(r)
    BY <1>5, Moves DEF Retire, At, Went, Revokes, Steps
  <1>6. CASE ReadExisting(r)
    BY <1>6, Moves DEF ReadExisting, At, Went, Refuses, Passes, Steps
  <1>7. CASE Insert(r)
    BY <1>7, Moves DEF Insert, At, Went, Inserts
  <1>8. CASE Withdraw(r)
    BY <1>8, Moves DEF Withdraw, At, Went, Refuses, Revokes, Revocable
  <1>9. CASE Claim(r)
    BY <1>9, Moves DEF Claim, At, Went, Refuses, Passes, Claimable, Acceptable, Steps
  <1>10. CASE Join(r)
    BY <1>10, Moves DEF Join, At, Went, Refuses, Joins
  <1>11. CASE Dies(r)
    BY <1>11, Moves DEF Dies, At, Went, Refuses
  <1> QED BY <1>1, <1>2, <1>3, <1>4, <1>5, <1>6, <1>7, <1>8, <1>9, <1>10, <1>11 DEF Runs, Step
-----------------------------------------------------------------------------
(* How a request begins *)

Starts(r) ==
  \/ \E u, t \in Users, role \in Allowed : StartChange(r, u, t, role) \/ StartInvite(r, u, t, role)
  \/ \E u, t \in Users : StartRemove(r, u, t)
  \/ \E u \in Users, i \in Requests : StartResend(r, u, i) \/ StartRevoke(r, u, i) \/ StartAccept(r, u, i)

\* What a request may begin with.
Asks(kind, step, t, role, i) ==
  /\ <<kind, step>> \in {<<"role", "actor">>, <<"remove", "actor">>, <<"invite", "existing">>,
                         <<"resend", "retire">>, <<"revoke", "withdraw">>, <<"accept", "claim">>}
  /\ t \in Users \cup {None} /\ role \in Editable \cup {None} /\ i \in Requests \cup {None}
  /\ kind \in {"role", "remove", "invite", "resend"} => t \in Users
  /\ kind \in {"resend", "revoke", "accept"} => i \in Requests /\ Sent(i)

\* Request r begins.
Begins(r) ==
  /\ req' \in [Requests -> Request]
  /\ \A s \in Requests \ {r} : req'[s] = req[s]
  /\ req[r].pc = "idle"
  /\ Asks(req'[r].kind, req'[r].pc, req'[r].target, req'[r].role, req'[r].invite)
  /\ req'[r].actor \in Users /\ req'[r].answer = "none"
  /\ UNCHANGED <<member, invite, guarding>>

LEMMA BeginBegins ==
  ASSUME TypeOK, NEW r \in Requests, NEW kind, NEW u \in Users, NEW step, NEW t, NEW role, NEW i,
         Begin(r, kind, u, step, t, role, i), Asks(kind, step, t, role, i)
  PROVE  Begins(r)
  <1> DEFINE q == [Idle EXCEPT !.pc = step, !.kind = kind, !.actor = u, !.target = t,
                               !.role = role, !.invite = i]
  <1>1. Idle \in Request /\ Idle.answer = "none"
    BY DEF Idle, Request, Row, NoRow, Steps
  <1>2. step \in Steps /\ kind \in Kinds
    BY DEF Asks, Steps, Kinds
  <1>3. /\ t \in Users \cup {None} /\ role \in Roles \cup {None} /\ i \in Requests \cup {None}
    BY DEF Asks
  <1>4. /\ q \in Request
        /\ q.kind = kind /\ q.pc = step /\ q.target = t /\ q.role = role /\ q.invite = i
        /\ q.actor = u /\ q.answer = "none"
    BY <1>1, <1>2, <1>3 DEF Request
  <1>5. req' = [req EXCEPT ![r] = q] /\ req[r].pc = "idle" /\ UNCHANGED <<member, invite, guarding>>
    BY DEF Begin, At
  <1> HIDE DEF q
  <1>6. req \in [Requests -> Request]
    BY DEF TypeOK
  <1>7. /\ req' \in [Requests -> Request] /\ req'[r] = q
        /\ \A s \in Requests \ {r} : req'[s] = req[s]
    BY <1>4, <1>5, <1>6
  <1> QED BY <1>4, <1>5, <1>7 DEF Begins

LEMMA StartsBegin ==
  ASSUME TypeOK, NEW r \in Requests, Starts(r)
  PROVE  Begins(r)
  <1>1. ASSUME NEW u \in Users, NEW t \in Users, NEW role \in Allowed,
               StartChange(r, u, t, role) \/ StartInvite(r, u, t, role)
        PROVE  Begins(r)
    BY <1>1, BeginBegins DEF StartChange, StartInvite, Asks
  <1>2. ASSUME NEW u \in Users, NEW t \in Users, StartRemove(r, u, t)
        PROVE  Begins(r)
    BY <1>2, BeginBegins DEF StartRemove, Asks
  <1>3. ASSUME NEW u \in Users, NEW i \in Requests,
               StartResend(r, u, i) \/ StartRevoke(r, u, i) \/ StartAccept(r, u, i)
        PROVE  Begins(r)
    <2>1. /\ Sent(i) /\ invite[i].email \in Users \cup {None}
          /\ invite[i].role \in Editable \cup {None}
      BY <1>3 DEF StartResend, StartRevoke, StartAccept, Acceptable, Pending, TypeOK, Invite
    <2>2. invite[i].email \in Users
      BY <2>1 DEF Sent
    <2> QED BY <1>3, <2>1, <2>2, BeginBegins DEF StartResend, StartRevoke, StartAccept, Asks
  <1> QED BY <1>1, <1>2, <1>3 DEF Starts

\* A step of the specification, by what it does.
Does ==
  \/ \E r \in Requests : Begins(r)
  \/ \E r \in Requests : OneMoves(r) /\ Went(r)
  \/ \E i \in Requests : Expire(i)
  \/ UNCHANGED vars

LEMMA NextIs ==
  ASSUME Next
  PROVE  \/ \E r \in Requests : Starts(r)
         \/ \E r \in Requests : Runs(r)
         \/ \E i \in Requests : Expire(i)
  BY DEF Next, Starts, Runs

LEMMA NextDoes ==
  ASSUME TypeOK, KindInv, [Next]_vars
  PROVE  Does
  BY NextIs, StartsBegin, RunsWent DEF Does
-----------------------------------------------------------------------------
(* What the steps do to members and invitations *)

LEMMA MemberMoves ==
  ASSUME TypeOK, KindInv, NEW r \in Requests, Went(r)
  PROVE  /\ member' \in [Users -> Row]
         /\ \A u \in Users : member'[u].role = "OWNER" => Role(u) = "OWNER"
         /\ member' = member \/ Commits(r) \/ Joins(r)
  <1>1. member \in [Users -> Row] /\ req[r] \in Request /\ KindOK(req[r])
    BY DEF TypeOK, KindInv
  <1>2. CASE member' = member
    BY <1>1, <1>2 DEF Role
  <1>3. CASE Commits(r)
    <2> DEFINE t   == req[r].target
               row == IF req[r].kind = "remove" THEN NoRow ELSE [member[t] EXCEPT !.role = req[r].role]
    <2>1. t \in Users
      BY <1>1, <1>3 DEF Commits, KindOK
    <2>2. member' = [member EXCEPT ![t] = row]
      BY <1>1, <1>3, <2>1 DEF Commits
    <2>3. NoRow \in Row /\ NoRow.role # "OWNER"
      BY MembershipAssumption DEF NoRow, Row
    <2>4. req[r].role \in Roles \cup {None} /\ req[r].role # "OWNER"
      BY <1>1 DEF Request, KindOK
    <2>5. [member[t] EXCEPT !.role = req[r].role] \in Row
          /\ [member[t] EXCEPT !.role = req[r].role].role # "OWNER"
      BY <1>1, <2>1, <2>4 DEF Row
    <2>6. row \in Row /\ row.role # "OWNER"
      BY <2>3, <2>5
    <2> HIDE DEF row
    <2> QED BY <1>1, <1>3, <2>1, <2>2, <2>6 DEF Role
  <1>4. CASE Joins(r)
    <2> DEFINE row == [id |-> r, role |-> req[r].role]
    <2>1. row \in Row /\ row.role # "OWNER"
      BY <1>1 DEF Request, Row, KindOK
    <2>2. member' = [member EXCEPT ![req[r].actor] = row] /\ req[r].actor \in Users
      BY <1>1, <1>4 DEF Joins, KindOK
    <2> HIDE DEF row
    <2> QED BY <1>1, <1>4, <2>1, <2>2 DEF Role
  <1> QED BY <1>2, <1>3, <1>4 DEF Went, Refuses, Passes, Locks, Revokes, Inserts

\* What was done to an invitation stays done, and a request inserts its own.
Kept(i) ==
  /\ Sent(i) => invite'[i].email = invite[i].email /\ invite'[i].role = invite[i].role
  /\ Sent(i) /\ invite[i].accepted => invite'[i].accepted
  /\ Sent(i) /\ invite[i].revoked => invite'[i].revoked

LEMMA InviteMoves ==
  ASSUME TypeOK, KindInv, FreshInv, NEW r \in Requests, Went(r)
  PROVE  /\ invite' \in [Requests -> Invite]
         /\ \A i \in Requests : Kept(i)
         /\ \A i \in Requests : invite'[i].email # None => Sent(i) \/ (i = r /\ req'[r].pc = "done")
         /\ \A i \in Requests :
              Sent(i) /\ Pending(i) /\ ~ (invite'[i].email # None /\ ~ invite'[i].accepted /\ ~ invite'[i].revoked)
              => req[r].invite = i /\ (Joins(r) \/ ~ Claimed(i))
         /\ \A i \in Requests : Sent(i) /\ invite'[i].accepted => invite[i].accepted \/ (Joins(r) /\ i = req[r].invite)
  <1>1. invite \in [Requests -> Invite] /\ req[r] \in Request /\ KindOK(req[r])
    BY DEF TypeOK, KindInv
  <1>2. CASE invite' = invite
    BY <1>1, <1>2 DEF Kept, Sent, Pending
  <1>3. CASE Revokes(r)
    <2> DEFINE i == req[r].invite
               n == [invite[i] EXCEPT !.revoked = TRUE]
    <2>1. i \in Requests /\ Sent(i)
      BY <1>1, <1>3 DEF Revokes, KindOK
    <2>2. invite' = [invite EXCEPT ![i] = n]
      BY <1>1, <1>3, <2>1 DEF Revokes
    <2>3. n \in Invite /\ n.email = invite[i].email /\ n.role = invite[i].role
        /\ n.accepted = invite[i].accepted /\ n.revoked
      BY <1>1, <2>1 DEF Invite
    <2>4. ~ Claimed(i)
      BY <1>3 DEF Revokes
    <2> HIDE DEF n
    <2> QED BY <1>1, <2>1, <2>2, <2>3, <2>4 DEF Kept, Sent, Pending
  <1>4. CASE Inserts(r)
    <2> DEFINE n == [NoInvite EXCEPT !.email = req[r].target, !.role = req[r].role]
    <2>1. NoInvite \in Invite
      BY DEF NoInvite, Invite
    <2>2. req[r].target \in Users /\ req[r].role \in Editable \cup {None}
      BY <1>1, <1>4 DEF Inserts, KindOK, Request
    <2>3. n \in Invite
      BY <2>1, <2>2 DEF Invite
    <2>4. invite' = [invite EXCEPT ![r] = n] /\ req'[r].pc = "done"
      BY <1>4 DEF Inserts
    <2>5. ~ Sent(r)
      BY <1>4 DEF Inserts, FreshInv
    <2> HIDE DEF n
    <2> QED BY <1>1, <2>3, <2>4, <2>5 DEF Kept, Sent, Pending
  <1>5. CASE Joins(r)
    <2> DEFINE i == req[r].invite
               n == [invite[i] EXCEPT !.accepted = TRUE]
    <2>1. i \in Requests /\ Sent(i)
      BY <1>1, <1>5 DEF Joins, KindOK
    <2>2. invite' = [invite EXCEPT ![i] = n]
      BY <1>1, <1>5, <2>1 DEF Joins
    <2>3. n \in Invite /\ n.email = invite[i].email /\ n.role = invite[i].role
        /\ n.revoked = invite[i].revoked /\ n.accepted
      BY <1>1, <2>1 DEF Invite
    <2> HIDE DEF n
    <2> QED BY <1>1, <1>5, <2>1, <2>2, <2>3 DEF Kept, Sent, Pending
  <1> QED BY <1>2, <1>3, <1>4, <1>5 DEF Went, Refuses, Passes, Locks, Commits

-----------------------------------------------------------------------------
(* The invariant is kept *)

LEMMA ExpireMoves ==
  ASSUME TypeOK, NEW i \in Requests, Expire(i)
  PROVE  /\ invite' \in [Requests -> Invite] /\ UNCHANGED <<member, guarding, req>>
         /\ \A j \in Requests : /\ invite'[j].email = invite[j].email /\ invite'[j].role = invite[j].role
                                /\ invite'[j].accepted = invite[j].accepted
                                /\ invite'[j].revoked = invite[j].revoked
  <1> DEFINE n == [invite[i] EXCEPT !.expired = TRUE]
  <1>1. invite \in [Requests -> Invite]
    BY DEF TypeOK
  <1>2. invite' = [invite EXCEPT ![i] = n] /\ UNCHANGED <<member, guarding, req>>
    BY <1>1 DEF Expire
  <1>3. n \in Invite /\ n.email = invite[i].email /\ n.role = invite[i].role
        /\ n.accepted = invite[i].accepted /\ n.revoked = invite[i].revoked
    BY <1>1 DEF Invite
  <1> HIDE DEF n
  <1> QED BY <1>1, <1>2, <1>3

LEMMA TypeStep ==
  ASSUME TypeOK, KindInv, FreshInv, Does
  PROVE  TypeOK'
  <1>1. CASE \E r \in Requests : Begins(r)
    BY <1>1 DEF Begins, TypeOK
  <1>2. ASSUME NEW r \in Requests, OneMoves(r), Went(r) PROVE TypeOK'
    <2>1. guarding' \in Requests \cup {None}
      BY <1>2 DEF TypeOK, Went, Refuses, Passes, Locks, Commits, Revokes, Inserts, Joins, Unlocked
    <2> QED BY <1>2, <2>1, MemberMoves, InviteMoves DEF TypeOK, OneMoves
  <1>3. ASSUME NEW i \in Requests, Expire(i) PROVE TypeOK'
    BY <1>3, ExpireMoves DEF TypeOK
  <1>4. CASE UNCHANGED vars
    BY <1>4 DEF TypeOK, vars
  <1> QED BY <1>1, <1>2, <1>3, <1>4 DEF Does

\* A sent invitation stays sent.
LEMMA SentStays ==
  ASSUME TypeOK, KindInv, FreshInv, Does
  PROVE  \A i \in Requests : Sent(i) => Sent(i)'
  <1>1. CASE \E r \in Requests : Begins(r)
    BY <1>1 DEF Begins, Sent
  <1>2. ASSUME NEW r \in Requests, Went(r) PROVE \A i \in Requests : Sent(i) => Sent(i)'
    BY <1>2, InviteMoves DEF Kept, Sent
  <1>3. ASSUME NEW i \in Requests, Expire(i) PROVE \A j \in Requests : Sent(j) => Sent(j)'
    BY <1>3, ExpireMoves DEF Sent
  <1>4. CASE UNCHANGED vars
    BY <1>4 DEF Sent, vars
  <1> QED BY <1>1, <1>2, <1>3, <1>4 DEF Does

LEMMA KindStep ==
  ASSUME TypeOK, KindInv, FreshInv, Does
  PROVE  KindInv'
  <1> SUFFICES ASSUME NEW s \in Requests
               PROVE  KindOK(req[s])'
    BY DEF KindInv
  <1>1. KindOK(req[s]) /\ req[s] \in Request
    BY DEF KindInv, TypeOK
  <1>3. CASE req'[s] = req[s]
    BY <1>1, <1>3, SentStays DEF KindOK, Request
  <1>4. ASSUME NEW r \in Requests, Begins(r), s = r PROVE KindOK(req[s])'
    <2>1. \A i \in Requests : Sent(i)' <=> Sent(i)
      BY <1>4 DEF Begins, Sent
    <2> QED BY <1>4, <2>1, MembershipAssumption DEF Begins, Asks, KindOK
  <1>5. ASSUME NEW r \in Requests, OneMoves(r), Went(r), s = r PROVE KindOK(req[s])'
    <2>1. CASE Refuses(r)
      BY <1>1, <1>5, <2>1, SentStays DEF Refuses, OneMoves, KindOK, Request
    <2>2. CASE Passes(r)
      BY <1>1, <1>5, <2>2, SentStays DEF Passes, OneMoves, KindOK, Request
    <2>3. CASE Locks(r)
      BY <1>1, <1>5, <2>3, SentStays DEF Locks, OneMoves, KindOK, Request
    <2>4. CASE Commits(r)
      BY <1>1, <1>5, <2>4, SentStays DEF Commits, OneMoves, KindOK, Request
    <2>5. CASE Revokes(r)
      BY <1>1, <1>5, <2>5, SentStays DEF Revokes, OneMoves, KindOK, Request
    <2>6. CASE Inserts(r)
      BY <1>1, <1>5, <2>6, SentStays DEF Inserts, OneMoves, KindOK, Request
    <2>7. CASE Joins(r)
      BY <1>1, <1>5, <2>7, SentStays DEF Joins, OneMoves, KindOK, Request
    <2> QED BY <1>5, <2>1, <2>2, <2>3, <2>4, <2>5, <2>6, <2>7 DEF Went
  <1>6. CASE req' = req
    BY <1>3, <1>6
  <1> QED
    BY <1>3, <1>4, <1>5, <1>6, ExpireMoves DEF Does, Begins, OneMoves, vars

LEMMA StartsOffer ==
  ASSUME TypeOK, OfferInv, NEW r \in Requests, Starts(r)
  PROVE  OfferOK(req'[r])
  <1>1. req \in [Requests -> Request]
    BY DEF TypeOK
  <1>2. ASSUME NEW kind, NEW u \in Users, NEW step, NEW t, NEW role, NEW i,
               Begin(r, kind, u, step, t, role, i)
        PROVE  req'[r].kind = kind /\ req'[r].actor = u /\ req'[r].role = role /\ req'[r].invite = i
    BY <1>1, <1>2 DEF Begin, Idle
  <1>3. ASSUME NEW u \in Users, NEW t \in Users, NEW role \in Allowed,
               StartChange(r, u, t, role) \/ StartInvite(r, u, t, role)
        PROVE  OfferOK(req'[r])
    BY <1>2, <1>3 DEF StartChange, StartInvite, OfferOK
  <1>4. ASSUME NEW u \in Users, NEW t \in Users, StartRemove(r, u, t)
        PROVE  OfferOK(req'[r])
    BY <1>2, <1>4 DEF StartRemove, OfferOK
  <1>5. ASSUME NEW u \in Users, NEW i \in Requests, StartResend(r, u, i)
        PROVE  OfferOK(req'[r])
    BY <1>2, <1>5 DEF StartResend, OfferOK, OfferInv, Pending
  <1>6. ASSUME NEW u \in Users, NEW i \in Requests, StartRevoke(r, u, i)
        PROVE  OfferOK(req'[r])
    BY <1>2, <1>6 DEF StartRevoke, OfferOK
  <1>7. ASSUME NEW u \in Users, NEW i \in Requests, StartAccept(r, u, i)
        PROVE  OfferOK(req'[r])
    BY <1>2, <1>7 DEF StartAccept, OfferOK
  <1> QED BY <1>3, <1>4, <1>5, <1>6, <1>7 DEF Starts

LEMMA OfferStep ==
  ASSUME TypeOK, KindInv, FreshInv, OfferInv, [Next]_vars
  PROVE  OfferInv'
  <1>1. ASSUME \A i \in Requests : Sent(i) => Kept(i),
               NEW s \in Requests, OfferOK(req[s]), req'[s].kind = req[s].kind,
               req'[s].actor = req[s].actor, req'[s].role = req[s].role, req'[s].invite = req[s].invite
        PROVE  OfferOK(req[s])'
    BY <1>1 DEF OfferOK, KindInv, KindOK, Kept
  <1>2. ASSUME NEW r \in Requests, Starts(r) PROVE OfferInv'
    <2>1. Begins(r) /\ OfferOK(req'[r])
      BY <1>2, StartsBegin, StartsOffer
    <2> QED BY <2>1 DEF Begins, OfferInv, OfferOK, Sent
  <1>3. ASSUME NEW r \in Requests, Runs(r) PROVE OfferInv'
    <2>1. OneMoves(r) /\ Went(r)
      BY <1>3, RunsWent
    <2>2. \A i \in Requests : Kept(i)
      BY <2>1, InviteMoves
    <2>3. ASSUME NEW s \in Requests PROVE OfferOK(req[s])'
      BY <1>1, <2>1, <2>2 DEF OneMoves, OfferInv
    <2>4. ASSUME NEW i \in Requests, invite'[i].email # None, ~ Sent(i)
          PROVE  invite'[i].role \in Editable
      <3>1. Inserts(r) /\ i = r
        <4>1. invite \in [Requests -> Invite] /\ KindOK(req[r])
          BY DEF TypeOK, KindInv
        <4>2. invite' # invite
          BY <2>4 DEF Sent
        <4>3. ~ Revokes(r)
          BY <2>4, <4>1 DEF Revokes, KindOK, Sent
        <4>4. ~ Joins(r)
          BY <2>4, <4>1 DEF Joins, KindOK, Sent
        <4> QED BY <2>1, <2>4, <4>2, <4>3, <4>4, InviteMoves
                DEF Went, Refuses, Passes, Locks, Commits
      <3>2. invite \in [Requests -> Invite] /\ req[r].kind \in {"invite", "resend"}
        BY <3>1 DEF Inserts, TypeOK, KindInv, KindOK
      <3>3. invite'[r].role = req[r].role
        BY <3>1, <3>2 DEF Inserts, NoInvite
      <3> QED BY <3>1, <3>2, <3>3 DEF OfferInv, OfferOK
    <2>5. ASSUME NEW i \in Requests, invite'[i].email # None PROVE invite'[i].role \in Editable
      BY <2>2, <2>4, <2>5 DEF OfferInv, Kept
    <2> QED BY <2>3, <2>5 DEF OfferInv, Sent
  <1>4. ASSUME NEW i \in Requests, Expire(i) PROVE OfferInv'
    BY <1>4, ExpireMoves DEF OfferInv, OfferOK, Sent, KindInv, KindOK
  <1>5. CASE UNCHANGED vars
    BY <1>5 DEF vars, OfferInv, OfferOK, Sent
  <1> QED BY <1>2, <1>3, <1>4, <1>5, NextIs

LEMMA FreshStep ==
  ASSUME TypeOK, KindInv, FreshInv, Does
  PROVE  FreshInv'
  <1> SUFFICES ASSUME NEW s \in Requests, req'[s].pc # "done"
               PROVE  ~ Sent(s)'
    BY DEF FreshInv
  <1>1. ASSUME NEW r \in Requests, Begins(r) PROVE ~ Sent(s)'
    BY <1>1 DEF Begins, FreshInv, Sent
  <1>2. ASSUME NEW r \in Requests, OneMoves(r), Went(r) PROVE ~ Sent(s)'
    <2>1. req[s].pc # "done"
      BY <1>2 DEF OneMoves, Went, Refuses, Passes, Locks, Commits, Revokes, Inserts, Joins
    <2>2. ~ Sent(s)
      BY <2>1 DEF FreshInv
    <2> QED BY <1>2, <2>2, InviteMoves DEF Sent
  <1>3. ASSUME NEW i \in Requests, Expire(i) PROVE ~ Sent(s)'
    BY <1>3, ExpireMoves DEF FreshInv, Sent
  <1>4. CASE UNCHANGED vars
    BY <1>4 DEF vars, FreshInv, Sent
  <1> QED BY <1>1, <1>2, <1>3, <1>4 DEF Does

LEMMA OwnersStay ==
  ASSUME TypeOK, KindInv, AlwaysAnOwner, CommitInv, Does
  PROVE  AlwaysAnOwner'
  <1> SUFFICES \E u \in Users : member'[u].role = "OWNER"
    BY DEF AlwaysAnOwner, Owners, Role
  <1>1. member \in [Users -> Row] /\ \E u \in Users : Role(u) = "OWNER"
    BY DEF TypeOK, AlwaysAnOwner, Owners
  <1>2. CASE member' = member
    BY <1>1, <1>2 DEF Role
  <1>3. ASSUME NEW r \in Requests, Commits(r) PROVE \E u \in Users : member'[u].role = "OWNER"
    <2>1. Retains(req[r].target)
      BY <1>3 DEF Commits, CommitInv, At
    <2>2. PICK u \in Users : Role(u) = "OWNER" /\ u # req[r].target
      BY <1>1, <2>1 DEF Retains, Owners
    <2> QED BY <1>1, <1>3, <2>2 DEF Commits, Role
  <1>4. ASSUME NEW r \in Requests, Joins(r) PROVE \E u \in Users : member'[u].role = "OWNER"
    <2>1. PICK u \in Users : Role(u) = "OWNER"
      BY <1>1
    <2>2. u # req[r].actor
      BY <1>4, <2>1, MembershipAssumption DEF Joins, IsMember
    <2> QED BY <1>1, <1>4, <2>1, <2>2 DEF Joins, Role
  <1>5. ASSUME NEW r \in Requests, Went(r) PROVE \E u \in Users : member'[u].role = "OWNER"
    BY <1>2, <1>3, <1>4, <1>5, MemberMoves
  <1> QED BY <1>2, <1>5, ExpireMoves DEF Does, Begins, vars

LEMMA CommitStep ==
  ASSUME TypeOK, KindInv, CommitInv, Does
  PROVE  CommitInv'
  <1> SUFFICES ASSUME NEW s \in Requests, req'[s].pc = "commit"
               PROVE  /\ guarding' = s
                      /\ IsMember(req[s].target)' /\ Retains(req[s].target)'
    BY DEF CommitInv, At
  <1> DEFINE Goal == /\ guarding' = s
                     /\ IsMember(req[s].target)' /\ Retains(req[s].target)'
  <1>1. ASSUME req'[s] = req[s], guarding' = guarding, member' = member PROVE Goal
    BY <1>1 DEF CommitInv, At, IsMember, Retains, Owners, Role
  <1>2. ASSUME NEW r \in Requests, Begins(r) PROVE Goal
    <2>1. s # r
      BY <1>2 DEF Begins, Asks
    <2> QED BY <1>1, <1>2, <2>1 DEF Begins
  <1>3. ASSUME NEW r \in Requests, OneMoves(r), Went(r), s = r PROVE Goal
    <2>1. Locks(r)
      BY <1>3 DEF Went, Refuses, Passes, Commits, Revokes, Inserts, Joins
    <2>2. req'[s].target = req[s].target
      BY <1>3 DEF OneMoves
    <2> QED BY <1>3, <2>1, <2>2 DEF Locks, IsMember, Retains, Owners, Role
  <1>4. ASSUME NEW r \in Requests, OneMoves(r), Went(r), s # r PROVE Goal
    <2>1. req'[s] = req[s]
      BY <1>4 DEF OneMoves
    <2>2. guarding = s /\ IsMember(req[s].target) /\ Retains(req[s].target)
      BY <2>1 DEF CommitInv, At
    <2>3. ~ Locks(r)
      BY <2>2, MembershipAssumption DEF Locks
    <2>4. ~ Commits(r)
      BY <1>4, <2>2 DEF Commits, CommitInv, At
    <2>5. guarding' = guarding
      BY <1>4, <2>2, <2>3, <2>4 DEF Went, Refuses, Passes, Revokes, Inserts, Joins, Unlocked
    <2>6. CASE member' = member
      BY <1>1, <2>1, <2>5, <2>6
    <2>7. CASE Joins(r)
      <3>1. member \in [Users -> Row] /\ req[s].target \in Users /\ ~ IsMember(req[r].actor)
        BY <2>1, <2>7 DEF TypeOK, KindInv, KindOK, Joins
      <3>2. \A u \in Users : IsMember(u) => member'[u] = member[u]
        BY <2>7, <3>1 DEF Joins, IsMember
      <3>3. \A u \in Users : Role(u) = "OWNER" => member'[u].role = "OWNER"
        BY <3>2, MembershipAssumption DEF IsMember, Role
      <3>4. IsMember(req[s].target)'
        BY <2>1, <2>2, <3>1, <3>2 DEF IsMember, Role
      <3>5. Retains(req[s].target)'
        BY <2>1, <2>2, <3>1, <3>2, <3>3 DEF Retains, Owners, Role, IsMember
      <3> QED BY <2>2, <2>5, <3>4, <3>5
    <2> QED BY <1>4, <2>4, <2>6, <2>7, MemberMoves
  <1>5. ASSUME NEW i \in Requests, Expire(i) PROVE Goal
    BY <1>1, <1>5, ExpireMoves
  <1>6. CASE UNCHANGED vars
    BY <1>1, <1>6 DEF vars
  <1> QED BY <1>2, <1>3, <1>4, <1>5, <1>6 DEF Does

LEMMA TouchStep ==
  ASSUME TypeOK, KindInv, TouchInv, Does
  PROVE  TouchInv'
  <1> SUFFICES ASSUME NEW s \in Requests, req'[s].pc \in {"count", "write", "commit"},
                      member'[req'[s].target].role = "OWNER"
               PROVE  req'[s].acting = "OWNER"
    BY DEF TouchInv, Role
  <1>1. ASSUME req'[s] = req[s], \A u \in Users : member'[u].role = "OWNER" => Role(u) = "OWNER"
        PROVE  req'[s].acting = "OWNER"
    BY <1>1 DEF TouchInv, Role, KindInv, KindOK
  <1>2. ASSUME NEW r \in Requests, Begins(r) PROVE req'[s].acting = "OWNER"
    <2>1. s # r
      BY <1>2 DEF Begins, Asks
    <2> QED BY <1>1, <1>2, <2>1 DEF Begins, Role
  <1>3. ASSUME NEW r \in Requests, OneMoves(r), Went(r), s # r PROVE req'[s].acting = "OWNER"
    BY <1>1, <1>3, MemberMoves DEF OneMoves
  <1>4. ASSUME NEW r \in Requests, OneMoves(r), Went(r), s = r PROVE req'[s].acting = "OWNER"
    <2>1. req'[r].target = req[r].target
      BY <1>4 DEF OneMoves
    <2>2. Passes(r) \/ Locks(r)
      BY <1>4 DEF Went, Refuses, Commits, Revokes, Inserts, Joins
    <2>3. CASE Passes(r)
      BY <1>4, <2>1, <2>3 DEF Passes, TouchInv, Role
    <2>4. CASE Locks(r)
      BY <1>4, <2>1, <2>4 DEF Locks, TouchInv, Role
    <2> QED BY <2>2, <2>3, <2>4
  <1>5. CASE member' = member /\ req' = req
    BY <1>1, <1>5 DEF Role
  <1> QED BY <1>2, <1>3, <1>4, <1>5, ExpireMoves DEF Does, vars

LEMMA JoinStep ==
  ASSUME TypeOK, KindInv, FreshInv, JoinInv, Does
  PROVE  JoinInv'
  <1>1. ASSUME NEW s \in Requests, req'[s].pc = "join"
        PROVE  Pending(req[s].invite)'
    <2>1. ASSUME req'[s] = req[s], invite' = invite PROVE Pending(req[s].invite)'
      BY <1>1, <2>1 DEF JoinInv, At, Pending, Sent
    <2>2. ASSUME NEW r \in Requests, Begins(r) PROVE Pending(req[s].invite)'
      <3>1. s # r
        BY <1>1, <2>2 DEF Begins, Asks
      <3> QED BY <2>1, <2>2, <3>1 DEF Begins
    <2>3. ASSUME NEW r \in Requests, OneMoves(r), Went(r), s # r PROVE Pending(req[s].invite)'
      <3>1. req'[s] = req[s] /\ At(s, "join")
        BY <1>1, <2>3 DEF OneMoves, At
      <3>2. Pending(req[s].invite) /\ Sent(req[s].invite) /\ req[s].invite \in Requests
            /\ Claimed(req[s].invite)
        BY <3>1 DEF JoinInv, Pending, KindInv, KindOK, At, Claimed
      <3>3. ~ (req[r].invite = req[s].invite /\ Joins(r))
        BY <2>3, <3>1 DEF Joins, JoinInv, At
      <3> QED BY <2>3, <3>1, <3>2, <3>3, InviteMoves DEF Pending, Sent
    <2>4. ASSUME NEW r \in Requests, OneMoves(r), Went(r), s = r PROVE Pending(req[s].invite)'
      BY <1>1, <2>4 DEF OneMoves, Went, Refuses, Passes, Locks, Commits, Revokes, Inserts, Joins, Pending, Sent
    <2>5. ASSUME NEW i \in Requests, Expire(i) PROVE Pending(req[s].invite)'
      BY <1>1, <2>5, ExpireMoves DEF JoinInv, At, KindInv, KindOK, Pending, Sent
    <2>6. CASE UNCHANGED vars
      BY <2>1, <2>6 DEF vars
    <2> QED BY <2>2, <2>3, <2>4, <2>5, <2>6 DEF Does
  <1>2. ASSUME NEW s \in Requests, NEW o \in Requests, req'[s].pc = "join", req'[o].pc = "join",
               req'[s].invite = req'[o].invite
        PROVE  s = o
    <2>1. CASE req'[s] = req[s] /\ req'[o] = req[o]
      BY <1>2, <2>1 DEF JoinInv, At
    <2>2. ASSUME NEW r \in Requests, Begins(r) PROVE s = o
      BY <1>2, <2>1, <2>2 DEF Begins, Asks
    <2>3. ASSUME NEW r \in Requests, OneMoves(r), Went(r), req'[r].pc = "join"
          PROVE  \A x \in Requests \ {r} : req'[x].pc = "join" => req'[x].invite # req'[r].invite
      <3>1. ~ Claimed(req[r].invite)
        BY <2>3 DEF Went, Refuses, Passes, Locks, Commits, Revokes, Inserts, Joins
      <3> QED BY <2>3, <3>1 DEF OneMoves, Claimed, At
    <2>4. ASSUME NEW r \in Requests, OneMoves(r), Went(r) PROVE s = o
      BY <1>2, <2>1, <2>3, <2>4 DEF OneMoves
    <2> QED BY <2>1, <2>2, <2>4, ExpireMoves DEF Does, vars
  <1> QED BY <1>1, <1>2 DEF JoinInv, At

LEMMA AnswerStep ==
  ASSUME TypeOK, KindInv, FreshInv, JoinInv, AnswerInv, Does
  PROVE  AnswerInv'
  <1> SUFFICES ASSUME NEW s \in Requests
               PROVE  /\ Joined(s)' => invite'[req'[s].invite].accepted
                      /\ req'[s].kind = "revoke" /\ req'[s].answer = "ok" =>
                           invite'[req'[s].invite].revoked /\ ~ invite'[req'[s].invite].accepted
    BY DEF AnswerInv
  <1> DEFINE Goal == /\ Joined(s)' => invite'[req'[s].invite].accepted
                     /\ req'[s].kind = "revoke" /\ req'[s].answer = "ok" =>
                          invite'[req'[s].invite].revoked /\ ~ invite'[req'[s].invite].accepted
  <1>1. req[s] \in Request /\ KindOK(req[s])
    BY DEF TypeOK, KindInv
  <1>2. ASSUME req'[s] = req[s], invite' = invite PROVE Goal
    BY <1>2 DEF AnswerInv, Joined
  <1>3. ASSUME NEW r \in Requests, Begins(r) PROVE Goal
    BY <1>2, <1>3 DEF Begins, Joined
  <1>4. ASSUME NEW r \in Requests, OneMoves(r), Went(r), s # r PROVE Goal
    <2>1. req'[s] = req[s]
      BY <1>4 DEF OneMoves
    <2>2. ASSUME Joined(s) PROVE invite'[req[s].invite].accepted
      BY <1>1, <1>4, <2>2, InviteMoves DEF Joined, AnswerInv, KindOK, Kept
    <2>3. ASSUME req[s].kind = "revoke", req[s].answer = "ok"
          PROVE  invite'[req[s].invite].revoked /\ ~ invite'[req[s].invite].accepted
      <3>1. invite[req[s].invite].revoked /\ ~ invite[req[s].invite].accepted
            /\ Sent(req[s].invite) /\ req[s].invite \in Requests
        BY <1>1, <2>3 DEF AnswerInv, KindOK
      <3>2. ~ (Joins(r) /\ req[s].invite = req[r].invite)
        BY <3>1 DEF Joins, JoinInv, At, Pending
      <3> QED BY <1>4, <3>1, <3>2, InviteMoves DEF Kept
    <2> QED BY <2>1, <2>2, <2>3 DEF Joined
  <1>5. ASSUME NEW r \in Requests, OneMoves(r), Went(r), s = r PROVE Goal
    <2>1. CASE Refuses(r)
      BY <1>5, <2>1 DEF Refuses, Joined
    <2>2. CASE Passes(r) \/ Locks(r)
      BY <1>1, <1>5, <2>2 DEF Passes, Locks, Joined, KindOK
    <2>3. CASE Commits(r)
      BY <1>1, <1>5, <2>3 DEF Commits, OneMoves, Joined, KindOK
    <2>4. CASE Revokes(r)
      <3>1. CASE req[r].pc = "retire"
        BY <1>1, <1>5, <2>4, <3>1 DEF Revokes, OneMoves, Joined, KindOK
      <3>2. CASE req[r].pc = "withdraw"
        <4> DEFINE i == req[r].invite
                   n == [invite[i] EXCEPT !.revoked = TRUE]
        <4>1. i \in Requests /\ Pending(i) /\ req[r].kind = "revoke" /\ invite \in [Requests -> Invite]
          BY <1>1, <1>5, <2>4, <3>2 DEF Revokes, KindOK, TypeOK
        <4>2. invite' = [invite EXCEPT ![i] = n] /\ req'[r].invite = i /\ req'[r].kind = "revoke"
          BY <1>5, <2>4, <4>1 DEF Revokes, OneMoves
        <4>3. n.revoked /\ n.accepted = invite[i].accepted
          BY <4>1 DEF Invite
        <4> HIDE DEF n, i
        <4> QED BY <1>5, <4>1, <4>2, <4>3 DEF Joined, Pending
      <3> QED BY <2>4, <3>1, <3>2 DEF Revokes
    <2>5. CASE Inserts(r)
      BY <1>1, <1>5, <2>5 DEF Inserts, OneMoves, Joined, KindOK
    <2>6. CASE Joins(r)
      <3> DEFINE i == req[r].invite
                 n == [invite[i] EXCEPT !.accepted = TRUE]
      <3>1. i \in Requests /\ req[r].kind = "accept" /\ invite \in [Requests -> Invite]
        BY <1>1, <1>5, <2>6 DEF Joins, KindOK, TypeOK
      <3>2. invite' = [invite EXCEPT ![i] = n] /\ req'[r].invite = i /\ req'[r].kind = "accept"
        BY <1>5, <2>6, <3>1 DEF Joins, OneMoves
      <3>3. n.accepted
        BY <3>1 DEF Invite
      <3> HIDE DEF n, i
      <3> QED BY <1>5, <3>1, <3>2, <3>3 DEF Joined
    <2> QED BY <1>5, <2>1, <2>2, <2>3, <2>4, <2>5, <2>6 DEF Went
  <1>6. ASSUME NEW i \in Requests, Expire(i) PROVE Goal
    BY <1>1, <1>6, ExpireMoves DEF AnswerInv, Joined, KindOK
  <1>7. CASE UNCHANGED vars
    BY <1>2, <1>7 DEF vars
  <1> QED BY <1>3, <1>4, <1>5, <1>6, <1>7 DEF Does

LEMMA OnceStep ==
  ASSUME TypeOK, KindInv, FreshInv, JoinInv, AnswerInv, InvitationUsedOnce, Does
  PROVE  InvitationUsedOnce'
  <1> SUFFICES ASSUME NEW s \in Requests, NEW o \in Requests, Joined(s)', Joined(o)',
                      req'[s].invite = req'[o].invite
               PROVE  s = o
    BY DEF InvitationUsedOnce
  <1>1. CASE req'[s] = req[s] /\ req'[o] = req[o]
    BY <1>1 DEF InvitationUsedOnce, Joined
  <1>2. ASSUME NEW r \in Requests, Begins(r) PROVE s = o
    BY <1>1, <1>2 DEF Begins, Joined
  <1>3. ASSUME NEW r \in Requests, OneMoves(r), Went(r), NEW x \in Requests \ {r},
               Joined(r)', Joined(x)', req'[r].invite = req'[x].invite
        PROVE  FALSE
    <2>1. Joins(r)
      BY <1>3 DEF Went, Refuses, Passes, Locks, Commits, Revokes, Inserts, OneMoves, Joined,
         KindInv, KindOK
    <2>2. Joined(x) /\ req[x].invite = req[r].invite
      BY <1>3 DEF OneMoves, Joined
    <2>3. invite[req[x].invite].accepted
      BY <2>2 DEF AnswerInv
    <2> QED BY <2>1, <2>2, <2>3 DEF Joins, JoinInv, At, Pending
  <1>4. ASSUME NEW r \in Requests, OneMoves(r), Went(r) PROVE s = o
    BY <1>1, <1>3, <1>4 DEF OneMoves
  <1> QED BY <1>1, <1>2, <1>4, ExpireMoves DEF Does, vars
-----------------------------------------------------------------------------
(* The theorems *)

\* The strengthening of the invariants below: who is past which read, what
\* the lock holder saw, who an owner's change came from, and what has been
\* answered of an invitation.
THEOREM SafetyInvariant == Spec => []SafetyInv
  <1> USE DEF SafetyInv, OwnerInv, InviteInv
  <1>1. Init => SafetyInv
    <2> SUFFICES ASSUME Init PROVE SafetyInv
      OBVIOUS
    <2>1. TypeOK
      BY MembershipAssumption DEF Init, TypeOK, Row, Invite, NoInvite, Idle, NoRow, Request, Steps
    <2>2. \A r \in Requests : req[r] = Idle /\ invite[r] = NoInvite
      BY DEF Init
    <2>3. KindInv /\ OfferInv /\ FreshInv /\ CommitInv /\ TouchInv
      BY <2>2, MembershipAssumption
         DEF OfferInv, OfferOK, KindInv, KindOK, FreshInv, CommitInv, TouchInv, At, Idle, Sent, NoInvite
    <2>4. AlwaysAnOwner
      BY MembershipAssumption DEF Init, AlwaysAnOwner, Owners, Role
    <2>5. JoinInv /\ AnswerInv /\ InvitationUsedOnce
      BY <2>2 DEF JoinInv, AnswerInv, InvitationUsedOnce, Joined, At, Idle
    <2> QED BY <2>1, <2>3, <2>4, <2>5
  <1>2. SafetyInv /\ [Next]_vars => SafetyInv'
    <2> SUFFICES ASSUME SafetyInv, [Next]_vars PROVE SafetyInv'
      OBVIOUS
    <2>1. Does
      BY NextDoes
    <2> QED BY <2>1, TypeStep, KindStep, OfferStep, FreshStep, OwnersStay, CommitStep, TouchStep,
               JoinStep, AnswerStep, OnceStep
  <1> QED BY <1>1, <1>2, PTL DEF Spec

\* Every variable keeps its type (workspace.service.ts).
THEOREM TypeCorrect == Spec => []TypeOK
  <1>1. SafetyInv => TypeOK
    BY DEF SafetyInv
  <1> QED BY <1>1, SafetyInvariant, PTL

\* The workspace has an owner whatever changes of roles and removals
\* interleave: the trigger checks under a lock held until the commit
\* (migration 0003).
THEOREM OwnerKept == Spec => []AlwaysAnOwner
  <1>1. SafetyInv => AlwaysAnOwner
    BY DEF SafetyInv, OwnerInv
  <1> QED BY <1>1, SafetyInvariant, PTL

\* An invitation makes at most one membership (acceptInvitation).
THEOREM UsedOnce == Spec => []InvitationUsedOnce
  <1>1. SafetyInv => InvitationUsedOnce
    BY DEF SafetyInv, InviteInv
  <1> QED BY <1>1, SafetyInvariant, PTL

\* Whom a withdrawn invitation named does not join by it (revokeInvitation,
\* acceptInvitation).
THEOREM StaysOut == Spec => []RevokedStaysOut
  <1>1. SafetyInv => RevokedStaysOut
    BY DEF SafetyInv, InviteInv, AnswerInv, RevokedStaysOut
  <1> QED BY <1>1, SafetyInvariant, PTL

\* An owner loses the role only to a request that read its actor as an owner
\* (memberRole and the check of changeRole and removeMember).
THEOREM OwnersChange == Spec => OwnersByOwners
  <1> DEFINE Step1 == \A u \in Users : Role(u) = "OWNER" /\ Role(u)' # "OWNER" =>
       \E r \in Requests : At(r, "commit") /\ At(r, "done")' /\ req[r].acting = "OWNER"
  <1>1. SafetyInv /\ [Next]_vars => [Step1]_vars
    <2> SUFFICES ASSUME SafetyInv, [Next]_vars,
                        NEW u \in Users, Role(u) = "OWNER", Role(u)' # "OWNER"
                 PROVE  \E r \in Requests : At(r, "commit") /\ At(r, "done")' /\ req[r].acting = "OWNER"
      OBVIOUS
    <2>1. TypeOK /\ KindInv /\ TouchInv /\ Does
      BY NextDoes DEF SafetyInv, OwnerInv
    <2>2. member' # member
      BY DEF Role
    <2>3. PICK r \in Requests : OneMoves(r) /\ Went(r)
      BY <2>1, <2>2, ExpireMoves DEF Does, Begins, vars
    <2>4. Commits(r) \/ Joins(r)
      BY <2>1, <2>2, <2>3, MemberMoves
    <2>5. ~ Joins(r)
      BY <2>1, MembershipAssumption DEF Joins, IsMember, Role, TypeOK
    <2>6. Commits(r) /\ req[r].target = u
      BY <2>1, <2>4, <2>5 DEF Commits, Role, TypeOK
    <2> QED BY <2>1, <2>3, <2>6 DEF Commits, TouchInv, At
  <1> QED BY <1>1, SafetyInvariant, PTL DEF Spec, OwnersByOwners

-----------------------------------------------------------------------------
(* The refinement of Team *)

\* The mapping, and the step of the abstract team that a step here is.
Teams  == [u \in Users |-> Role(u)]
Offers == [i \in Requests |-> <<invite[i].email, invite[i].role>>]
Seats  == [i \in Requests |-> Seat(i)]
Stays  == UNCHANGED <<Teams, Offers, Seats>>

USE DEF Teams, Offers, Seats

LEMMA SeatIs ==
  ASSUME TypeOK, NEW i \in Requests
  PROVE  /\ Seat(i) = "none" <=> ~ Sent(i)
         /\ Seat(i) = "open" <=> Pending(i)
         /\ Sent(i) /\ invite[i].accepted => Seat(i) = "taken"
         /\ Sent(i) /\ ~ invite[i].accepted /\ invite[i].revoked => Seat(i) = "withdrawn"
  BY DEF Seat, Pending, TypeOK, Invite

LEMMA InvitesStay ==
  ASSUME \A i \in Requests : /\ invite'[i].email = invite[i].email /\ invite'[i].role = invite[i].role
                             /\ invite'[i].accepted = invite[i].accepted
                             /\ invite'[i].revoked = invite[i].revoked
  PROVE  UNCHANGED <<Offers, Seats>>
  <1>1. \A i \in Requests : Seat(i)' = Seat(i)
    BY DEF Seat, Sent, Pending
  <1> QED BY <1>1

\* A commit changes the role of its target, who is still a member and not the
\* last owner.
LEMMA CommitBecomes ==
  ASSUME SafetyInv, NEW r \in Requests, Commits(r)
  PROVE  T!TeamNext
  <1> DEFINE t    == req[r].target
             role == IF req[r].kind = "remove" THEN None ELSE req[r].role
  <1>1. /\ member \in [Users -> Row] /\ KindOK(req[r]) /\ OfferOK(req[r])
        /\ IsMember(t) /\ Retains(t)
    BY DEF SafetyInv, TypeOK, KindInv, OfferInv, OwnerInv, CommitInv, Commits, At
  <1>2. t \in Users /\ role \in Editable \cup {None}
    BY <1>1 DEF Commits, KindOK, OfferOK
  <1>3. /\ member'[t].role = role
        /\ \A u \in Users \ {t} : member'[u].role = member[u].role
    BY <1>1, <1>2 DEF Commits, NoRow, Row
  <1>4. UNCHANGED <<Offers, Seats>>
    BY InvitesStay DEF Commits
  <1> HIDE DEF role
  <1>5. Teams' = [Teams EXCEPT ![t] = role]
    BY <1>2, <1>3 DEF Role
  <1>6. T!Dispensable(t)
    BY <1>1, <1>2 DEF T!Dispensable, Retains, Owners
  <1>7. T!Become(t, role)
    BY <1>1, <1>2, <1>4, <1>5, <1>6 DEF T!Become, IsMember
  <1> QED BY <1>2, <1>7 DEF T!TeamNext, T!GivenRoles

\* A revocation withdraws an open invitation, or one that is settled stays so.
LEMMA RevokeWithdraws ==
  ASSUME SafetyInv, NEW r \in Requests, Revokes(r)
  PROVE  T!TeamNext \/ Stays
  <1>1. PICK i \in Requests : i = req[r].invite /\ Sent(i)
    BY DEF SafetyInv, KindInv, KindOK, Revokes
  <1>2. TypeOK /\ invite \in [Requests -> Invite]
    BY DEF SafetyInv, TypeOK
  <1>3. /\ invite'[i].email = invite[i].email /\ invite'[i].role = invite[i].role
        /\ invite'[i].accepted = invite[i].accepted /\ invite'[i].revoked
        /\ \A j \in Requests \ {i} : invite'[j] = invite[j]
    BY <1>1, <1>2 DEF Revokes, Invite
  <1>4. UNCHANGED <<Teams, Offers>>
    BY <1>3 DEF Revokes, Role
  <1>5. \A j \in Requests \ {i} : Seat(j)' = Seat(j)
    BY <1>3 DEF Seat, Sent, Pending
  <1>6. CASE Pending(i)
    <2>1. Seat(i) = "open" /\ Seat(i)' = "withdrawn"
      BY <1>1, <1>2, <1>3, <1>6, SeatIs DEF Seat, Pending, Sent
    <2>2. T!Withdraw(i)
      BY <1>4, <1>5, <2>1 DEF T!Withdraw, T!Turn
    <2> QED BY <2>2 DEF T!TeamNext
  <1>7. CASE ~ Pending(i)
    <2>1. Seat(i)' = Seat(i)
      BY <1>1, <1>3, <1>7 DEF Seat, Pending, Sent
    <2> QED BY <1>4, <1>5, <2>1 DEF Stays
  <1> QED BY <1>6, <1>7

LEMMA InsertOffers ==
  ASSUME SafetyInv, NEW r \in Requests, Inserts(r)
  PROVE  T!TeamNext
  <1>1. /\ TypeOK /\ invite \in [Requests -> Invite] /\ KindOK(req[r]) /\ OfferOK(req[r])
        /\ ~ Sent(r)
    BY DEF SafetyInv, TypeOK, KindInv, OfferInv, InviteInv, FreshInv, Inserts
  <1>2. PICK u \in Users, role \in T!GivenRoles : u = req[r].target /\ role = req[r].role
    BY <1>1 DEF Inserts, KindOK, OfferOK, T!GivenRoles
  <1>3. /\ invite'[r].email = u /\ invite'[r].role = role
        /\ ~ invite'[r].accepted /\ ~ invite'[r].revoked
        /\ \A j \in Requests \ {r} : invite'[j] = invite[j]
    BY <1>1, <1>2 DEF Inserts, NoInvite
  <1>4. \A j \in Requests \ {r} : Seat(j)' = Seat(j)
    BY <1>3 DEF Seat, Sent, Pending
  <1>5. Seat(r) = "none" /\ Seat(r)' = "open"
    BY <1>1, <1>2, <1>3, MembershipAssumption DEF Seat, Pending, Sent
  <1>6. T!Offer(r, u, role)
    <2>1. Offers' = [Offers EXCEPT ![r] = <<u, role>>]
      BY <1>3
    <2>2. Seats' = [Seats EXCEPT ![r] = "open"] /\ Teams' = Teams
      BY <1>4, <1>5 DEF Inserts, Role
    <2> QED BY <1>5, <2>1, <2>2 DEF T!Offer, T!Turn
  <1> QED BY <1>6 DEF T!TeamNext

\* Who joins was not a member, and the invitation was open until now.
LEMMA JoinTakes ==
  ASSUME SafetyInv, NEW r \in Requests, Joins(r)
  PROVE  T!TeamNext
  <1>1. PICK i \in Requests : i = req[r].invite /\ Pending(i)
    BY DEF SafetyInv, KindInv, KindOK, InviteInv, JoinInv, Joins, At
  <1>2. PICK u \in Users : u = req[r].actor
    BY DEF SafetyInv, KindInv, KindOK, Joins
  <1>3. /\ TypeOK /\ invite \in [Requests -> Invite] /\ member \in [Users -> Row]
        /\ u = invite[i].email /\ req[r].role = invite[i].role
    BY <1>1, <1>2 DEF SafetyInv, TypeOK, KindInv, KindOK, OfferInv, OfferOK, Joins
  <1>4. /\ invite'[i].email = invite[i].email /\ invite'[i].role = invite[i].role
        /\ invite'[i].accepted
        /\ \A j \in Requests \ {i} : invite'[j] = invite[j]
    BY <1>1, <1>3 DEF Joins, Invite
  <1>5. \A j \in Requests \ {i} : Seat(j)' = Seat(j)
    BY <1>4 DEF Seat, Sent, Pending
  <1>6. Seat(i) = "open" /\ Seat(i)' = "taken"
    BY <1>1, <1>3, <1>4, SeatIs DEF Seat, Pending, Sent
  <1>7. Seats' = [Seats EXCEPT ![i] = "taken"] /\ Offers' = Offers
    BY <1>4, <1>5, <1>6
  <1>8. Teams' = [Teams EXCEPT ![u] = invite[i].role]
    BY <1>2, <1>3 DEF Joins, Role
  <1>9. T!Take(i)
    <2>1. Offers[i][1] = u /\ Offers[i][2] = invite[i].role /\ Teams[u] = None
      BY <1>2, <1>3 DEF Joins, IsMember
    <2> QED BY <1>6, <1>7, <1>8, <2>1 DEF T!Take, T!Turn
  <1> QED BY <1>9 DEF T!TeamNext

LEMMA TeamStep ==
  ASSUME SafetyInv, [Next]_vars
  PROVE  T!TeamNext \/ Stays
  <1>1. TypeOK /\ Does
    BY NextDoes DEF SafetyInv
  <1>2. ASSUME member' = member, invite' = invite PROVE Stays
    BY <1>2, InvitesStay DEF Stays, Role
  <1>3. ASSUME NEW r \in Requests, Went(r) PROVE T!TeamNext \/ Stays
    BY <1>2, <1>3, CommitBecomes, RevokeWithdraws, InsertOffers, JoinTakes
       DEF Went, Refuses, Passes, Locks
  <1>4. ASSUME NEW i \in Requests, Expire(i) PROVE Stays
    <2>1. UNCHANGED <<Offers, Seats>>
      BY <1>1, <1>4, ExpireMoves, InvitesStay
    <2> QED BY <1>1, <1>4, <2>1, ExpireMoves DEF Stays, Role
  <1> QED BY <1>1, <1>2, <1>3, <1>4 DEF Does, Begins, vars

\* To the members, requests about roles and invitations happen one at a time
\* (workspace.service.ts): nobody joins but by an open invitation that names
\* them and is then used up, and the last owner neither leaves nor is demoted.
THEOREM RefinesTeam == Spec => ImplementsTeam
  <1>1. Init => T!TeamInit
    <2> SUFFICES ASSUME Init PROVE T!TeamInit
      OBVIOUS
    <2>1. \A i \in Requests : invite[i] = NoInvite
      BY DEF Init
    <2>2. \A i \in Requests : Seat(i) = "none"
      <3>1. \A i \in Requests : ~ Sent(i)
        BY <2>1 DEF Sent, NoInvite
      <3> QED BY <3>1 DEF Seat, Pending
    <2>3. Teams = First
      BY MembershipAssumption DEF Init, Role
    <2>4. Offers = [i \in Requests |-> <<None, None>>]
      BY <2>1 DEF NoInvite
    <2> QED BY <2>2, <2>3, <2>4 DEF T!TeamInit
  <1>2. SafetyInv /\ [Next]_vars => [T!TeamNext]_T!teamVars
    BY TeamStep DEF Stays, T!teamVars
  <1> QED BY <1>1, <1>2, SafetyInvariant, PTL DEF Spec, ImplementsTeam, T!TeamSpec
=============================================================================
