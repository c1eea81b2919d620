------------------------------ MODULE Membership ------------------------------
(***************************************************************************)
(* The members and invitations of one workspace                            *)
(* (apps/api/src/workspaces/workspace.service.ts) and the trigger that     *)
(* keeps an owner (packages/database/prisma/migrations/0002 and 0003):     *)
(* roles are changed, members removed, people invited, invitations sent    *)
(* again, revoked and accepted, by requests that read first and write      *)
(* later.                                                                  *)
(*                                                                         *)
(* The application gives nobody the role OWNER; the import of the first    *)
(* version may bring several owners, and the guards count them.  A row of  *)
(* a member who left and came back is a new row.  An invitation is named   *)
(* by the request that inserted it, and belongs to the user with its email *)
(* address.  Rate limits only refuse, in createInvitation before its       *)
(* insert, which a request that dies there covers.                         *)
(***************************************************************************)
EXTENDS Naturals, FiniteSets

CONSTANTS
  Users, Requests,
  First,     \* First[u]: the role user u begins with, or None
  Faulty,    \* whether requests die
  None       \* null

Roles    == {"OWNER", "ADMIN", "MEMBER"}
Editable == Roles \ {"OWNER"}

\* allowedRoles; a viewer differs from a member in nothing that matters here.
Allowed == {"ADMIN", "MEMBER"}

ASSUME MembershipAssumption ==
  /\ None \notin Users \cup Requests \cup Roles
  /\ First \in [Users -> Roles \cup {None}]
  /\ \E u \in Users : First[u] = "OWNER"
  /\ Faulty \in BOOLEAN

VARIABLES
  member,   \* member[u]: the membership row of user u: its id and role
  invite,   \* invite[i]: the invitation that request i inserted
  guarding, \* the request whose statement holds the advisory lock
  req       \* req[r]: the next step of request r and what it has read

vars == <<member, invite, guarding, req>>

Kinds    == {"role", "remove", "invite", "resend", "revoke", "accept"}
Steps    == {"idle", "actor", "target", "count", "write", "commit",
             "retire", "existing", "insert", "withdraw", "claim", "join", "done"}
Row      == [id : Requests \cup {None}, role : Roles \cup {None}]
NoRow    == [id |-> None, role |-> None]
Invite   == [email : Users \cup {None}, role : Editable \cup {None},
             accepted : BOOLEAN, revoked : BOOLEAN, expired : BOOLEAN]
NoInvite == [email |-> None, role |-> None, accepted |-> FALSE, revoked |-> FALSE,
             expired |-> FALSE]
Request  == [pc : Steps, kind : Kinds \cup {"none"}, actor : Users \cup {None},
             acting : Roles \cup {None}, target : Users \cup {None}, row : Row,
             role : Roles \cup {None}, invite : Requests \cup {None},
             answer : {"none", "ok", "refused"}]
Idle     == [pc |-> "idle", kind |-> "none", actor |-> None, acting |-> None, target |-> None,
             row |-> NoRow, role |-> None, invite |-> None, answer |-> "none"]

TypeOK ==
  /\ member \in [Users -> Row]
  /\ invite \in [Requests -> Invite]
  /\ guarding \in Requests \cup {None}
  /\ req \in [Requests -> Request]

Init ==
  /\ member = [u \in Users |-> [id |-> None, role |-> First[u]]]
  /\ invite = [r \in Requests |-> NoInvite]
  /\ guarding = None
  /\ req = [r \in Requests |-> Idle]

Role(u)    == member[u].role
IsMember(u) == Role(u) # None
Owners     == {u \in Users : Role(u) = "OWNER"}
\* members.manage
Manages(u) == Role(u) \in {"OWNER", "ADMIN"}
Sent(i)    == invite[i].email # None

At(r, step)       == req[r].pc = step
Go(r, step)       == req' = [req EXCEPT ![r].pc = step]
Answer(r, answer) == req' = [req EXCEPT ![r].pc = "done", ![r].answer = answer]

\* A request passes WorkspaceAuthorizationGuard, or is an accepting user's.
Begin(r, kind, u, step, t, role, i) ==
  /\ At(r, "idle")
  /\ kind # "accept" => Manages(u)
  /\ req' = [req EXCEPT ![r] = [Idle EXCEPT !.pc = step, !.kind = kind, !.actor = u,
                                  !.target = t, !.role = role, !.invite = i]]
  /\ UNCHANGED <<member, invite, guarding>>

-----------------------------------------------------------------------------
(* changeRole and removeMember *)

StartChange(r, u, t, role) == Begin(r, "role", u, "actor", t, role, None)
StartRemove(r, u, t)       == Begin(r, "remove", u, "actor", t, None, None)

\* memberRole
ReadActor(r) ==
  /\ At(r, "actor")
  /\ IF IsMember(req[r].actor)
       THEN req' = [req EXCEPT ![r].pc = "target", ![r].acting = Role(req[r].actor)]
       ELSE Answer(r, "refused")
  /\ UNCHANGED <<member, invite, guarding>>

\* Mutant: whoever manages members may change owners too.
MayTouch_Anyone(acting, role) == TRUE

MayTouch(acting, role) == role = "OWNER" => acting = "OWNER"

ReadTarget(r) ==
  LET t == req[r].target IN
  /\ At(r, "target")
  /\ IF IsMember(t) /\ MayTouch(req[r].acting, Role(t))
       THEN req' = [req EXCEPT ![r].row = member[t],
                      ![r].pc = IF Role(t) = "OWNER" THEN "count" ELSE "write"]
       ELSE Answer(r, "refused")
  /\ UNCHANGED <<member, invite, guarding>>

\* The count of owners; an owner does not remove themselves.
CountOwners(r) ==
  /\ At(r, "count")
  /\ IF \/ Cardinality(Owners) < 2
        \/ req[r].kind = "remove" /\ req[r].target = req[r].actor
       THEN Answer(r, "refused") ELSE Go(r, "write")
  /\ UNCHANGED <<member, invite, guarding>>

\* Mutant: the trigger does not take the advisory lock.
LockFree_Always(r) == TRUE

LockFree(r) == guarding = None

\* ensure_workspace_has_owner, on the row as it is now.
Retains(t) == Role(t) = "OWNER" => Owners \ {t} # {}

\* The UPDATE or DELETE by the row's id: it takes the row and, in the
\* trigger, the workspace's advisory lock until it commits.
Write(r) ==
  LET t == req[r].target IN
  /\ At(r, "write") /\ LockFree(r)
  /\ IF IsMember(t) /\ member[t].id = req[r].row.id /\ Retains(t)
       THEN guarding' = r /\ Go(r, "commit")
       ELSE UNCHANGED guarding /\ Answer(r, "refused")
  /\ UNCHANGED <<member, invite>>

\* The lock goes with the transaction.
Unlocked(r) == IF guarding = r THEN None ELSE guarding

CommitWrite(r) ==
  /\ At(r, "commit")
  /\ member' = [member EXCEPT ![req[r].target] =
       IF req[r].kind = "remove" THEN NoRow ELSE [@ EXCEPT !.role = req[r].role]]
  /\ guarding' = Unlocked(r)
  /\ Answer(r, "ok")
  /\ UNCHANGED invite

-----------------------------------------------------------------------------
(* createInvitation, resendInvitation, revokeInvitation *)

StartInvite(r, u, t, role) == Begin(r, "invite", u, "existing", t, role, None)

Pending(i) == Sent(i) /\ ~ invite[i].accepted /\ ~ invite[i].revoked

\* A transaction that accepts i has updated its row.
Claimed(i) == \E o \in Requests : At(o, "join") /\ req[o].invite = i

StartResend(r, u, i) ==
  /\ Pending(i)
  /\ Begin(r, "resend", u, "retire", invite[i].email, invite[i].role, i)

\* The old invitation is revoked by its id, whatever it is by now.
Retire(r) ==
  /\ At(r, "retire") /\ ~ Claimed(req[r].invite)
  /\ invite' = [invite EXCEPT ![req[r].invite].revoked = TRUE]
  /\ Go(r, "existing")
  /\ UNCHANGED <<member, guarding>>

ReadExisting(r) ==
  /\ At(r, "existing")
  /\ IF IsMember(req[r].target) THEN Answer(r, "refused") ELSE Go(r, "insert")
  /\ UNCHANGED <<member, invite, guarding>>

Insert(r) ==
  /\ At(r, "insert")
  /\ invite' = [invite EXCEPT ![r] =
       [NoInvite EXCEPT !.email = req[r].target, !.role = req[r].role]]
  /\ Answer(r, "ok")
  /\ UNCHANGED <<member, guarding>>

StartRevoke(r, u, i) == Sent(i) /\ Begin(r, "revoke", u, "withdraw", None, None, i)

\* Mutant: an accepted invitation may still be revoked.
Revocable_Accepted(i) == ~ invite[i].revoked

\* The WHERE clause of revokeInvitation.
Revocable(i) == Pending(i)

Withdraw(r) ==
  LET i == req[r].invite IN
  /\ At(r, "withdraw") /\ ~ Claimed(i)
  /\ IF Revocable(i)
       THEN invite' = [invite EXCEPT ![i].revoked = TRUE] /\ Answer(r, "ok")
       ELSE UNCHANGED invite /\ Answer(r, "refused")
  /\ UNCHANGED <<member, guarding>>

-----------------------------------------------------------------------------
(* acceptInvitation *)

Acceptable(i) == Pending(i) /\ ~ invite[i].expired

\* The row and the user's email address are read.
StartAccept(r, u, i) ==
  /\ Acceptable(i) /\ invite[i].email = u
  /\ Begin(r, "accept", u, "claim", u, invite[i].role, i)

Claimable(i) == Acceptable(i)

Claim(r) ==
  LET i == req[r].invite IN
  /\ At(r, "claim") /\ ~ Claimed(i)
  /\ IF Claimable(i) THEN Go(r, "join") ELSE Answer(r, "refused")
  /\ UNCHANGED <<member, invite, guarding>>

\* The membership is inserted and the transaction commits; a user has one
\* row, so a second membership rolls the claim back.
Join(r) ==
  LET u == req[r].actor IN
  /\ At(r, "join")
  /\ IF IsMember(u)
       THEN UNCHANGED <<member, invite>> /\ Answer(r, "refused")
       ELSE /\ member' = [member EXCEPT ![u] = [id |-> r, role |-> req[r].role]]
            /\ invite' = [invite EXCEPT ![req[r].invite].accepted = TRUE]
            /\ Answer(r, "ok")
  /\ UNCHANGED guarding

-----------------------------------------------------------------------------
Expire(i) ==
  /\ Sent(i) /\ ~ invite[i].expired
  /\ invite' = [invite EXCEPT ![i].expired = TRUE]
  /\ UNCHANGED <<member, guarding, req>>

\* The process dies, or a statement fails: a transaction is rolled back.
Dies(r) ==
  /\ Faulty /\ ~ At(r, "idle") /\ ~ At(r, "done")
  /\ guarding' = Unlocked(r)
  /\ Answer(r, "refused")
  /\ UNCHANGED <<member, invite>>

Step(r) ==
  \/ ReadActor(r) \/ ReadTarget(r) \/ CountOwners(r) \/ Write(r) \/ CommitWrite(r)
  \/ Retire(r) \/ ReadExisting(r) \/ Insert(r) \/ Withdraw(r) \/ Claim(r) \/ Join(r)

Next ==
  \/ \E r \in Requests, u, t \in Users, role \in Allowed :
       StartChange(r, u, t, role) \/ StartInvite(r, u, t, role)
  \/ \E r \in Requests, u, t \in Users : StartRemove(r, u, t)
  \/ \E r \in Requests, u \in Users, i \in Requests :
       StartResend(r, u, i) \/ StartRevoke(r, u, i) \/ StartAccept(r, u, i)
  \/ \E r \in Requests : Step(r) \/ Dies(r)
  \/ \E i \in Requests : Expire(i)

Spec == Init /\ [][Next]_vars
-----------------------------------------------------------------------------
(* Properties *)

\* The workspace has an owner, whoever demotes and removes whom at the same
\* time: the counts of two requests may both be stale.
AlwaysAnOwner == Owners # {}

\* Only a request whose actor was read as an owner takes the role from an
\* owner.
OwnersByOwners ==
  [][\A u \in Users : Role(u) = "OWNER" /\ Role(u)' # "OWNER" =>
       \E r \in Requests : At(r, "commit") /\ At(r, "done")' /\ req[r].acting = "OWNER"]_vars

Joined(r) == req[r].kind = "accept" /\ req[r].answer = "ok"

\* An invitation makes one membership, however often its link is opened.
InvitationUsedOnce ==
  \A r1, r2 \in Requests :
    Joined(r1) /\ Joined(r2) /\ req[r1].invite = req[r2].invite => r1 = r2

\* Who was told that an invitation is revoked is never proved wrong.
RevokedStaysOut ==
  \A r1, r2 \in Requests :
    /\ req[r1].kind = "revoke" /\ req[r1].answer = "ok"
    /\ Joined(r2)
    => req[r1].invite # req[r2].invite

-----------------------------------------------------------------------------
(* The abstract team this implements *)

Seat(i) ==
  CASE ~ Sent(i)                                               -> "none"
    [] Sent(i) /\ invite[i].accepted                           -> "taken"
    [] Sent(i) /\ ~ invite[i].accepted /\ invite[i].revoked    -> "withdrawn"
    [] Pending(i)                                              -> "open"

T == INSTANCE Team WITH
  People <- Users, Invitations <- Requests, Nobody <- None,
  team <- [u \in Users |-> Role(u)],
  offer <- [i \in Requests |-> <<invite[i].email, invite[i].role>>],
  seat <- [i \in Requests |-> Seat(i)]

\* To the members of the workspace requests happen one at a time: nobody joins
\* but by an open invitation for them, which is then used up, and no
\* interleaving takes away the last owner.
ImplementsTeam == T!TeamSpec
=============================================================================
