----------------------------- MODULE PublicWrite -----------------------------
(***************************************************************************)
(* The public MCP controlled write: an OAuth client previews a change of   *)
(* a Meta campaign field, the owning user approves or cancels it in the    *)
(* browser, and the client commits it                                      *)
(* (apps/api/src/mcp/mcp-public-write.service.ts).                         *)
(*                                                                         *)
(* Request handlers ("calls") run concurrently in the API; every await is  *)
(* a point where another call, the provider, an administrator or the clock *)
(* may move.  A preview row is modelled by the columns its guards read:    *)
(* approver (confirmedAt, approvedByUserId and approvalSessionId, which    *)
(* one UPDATE sets together), cancelled, consumed, expired, status.  The   *)
(* snapshot digest of a preview is the value of the one field its          *)
(* operation changes.                                                      *)
(***************************************************************************)
EXTENDS Naturals, FiniteSets

CONSTANTS
  Previews,     \* preview rows that may be created
  Calls,        \* API request handlers that may run at the same time
  Users,        \* HolyMedia users
  Grants,       \* OAuth refresh families: a user, a client and a workspace
  UserOf,       \* UserOf[g]: the user that granted g
  Fields,       \* campaign fields: the name and the status
  Values,       \* values a field may have
  Faulty,       \* whether handlers may die and audit writes may fail
  Nobody        \* null

ASSUME PublicWriteAssumption ==
  /\ UserOf \in [Grants -> Users]
  /\ Nobody \notin Users
  /\ Nobody \notin Values \cup Fields \cup Grants
  /\ Faulty \in BOOLEAN

VARIABLES
  plan,       \* plan[p]: the immutable content of the row
  approver,   \* approver[p]: the user that approved p in the browser
  cancelled,  \* previews with cancelledAt set
  consumed,   \* previews with consumedAt set
  expired,    \* previews whose expiresAt has passed
  status,     \* status[p]: commitStatus ("ABSENT": no such row)
  audit,      \* audit events that reached the table
  call,       \* call[c]: next step, preview, user and pending decision of call c
  campaign,   \* campaign[f]: the field as the provider has it
  enabled,    \* both public write flags of the running configuration
  usable,     \* account enabled, connection CONNECTED, ads_management granted
  revoked,    \* revoked grants
  sent,       \* sent[p]: mutation requests issued for p
  inflight,   \* previews whose mutation request has not reached the provider
  applied,    \* previews whose mutation the provider has carried out
  told        \* previews whose committer was answered "VERIFIED"

rowVars      == <<plan, approver, cancelled, consumed, expired, status>>
providerVars == <<campaign, enabled, usable, revoked>>
writeVars    == <<sent, inflight, applied>>
vars == <<rowVars, audit, call, providerVars, writeVars, told>>

NoPlan == [grant |-> Nobody, field |-> Nobody, before |-> Nobody, requested |-> Nobody]
PlanOf == [grant : Grants, field : Fields, before : Values, requested : Values]

Prewrite == {"PREWRITE_READ_FAILED", "PREVIEW_STALE"}
Outcomes == {"VERIFIED", "NOT_VERIFIED", "UNCERTAIN_OUTCOME"}
PostClaimStatus == {"CLAIMED"} \cup Outcomes
Statuses == {"ABSENT", "PREVIEWED", "CONFIRMED", "CANCELLED"}
              \cup Prewrite \cup PostClaimStatus
Decisions == {"approve", "cancel"}

\* Steps of a commit call before and after it has claimed the preview.
PreClaim  == {"authorize", "preread", "mark", "claim"}
PostClaim == {"attempt", "send", "await", "readback", "finalize"}
DecideOf == [pc : {"decide"}, preview : Previews, user : Users, choice : Decisions]
CommitOf == [pc : PreClaim \cup PostClaim, preview : Previews, user : Users,
             choice : Statuses]
Idle   == [pc |-> "idle", preview |-> Nobody, user |-> Nobody, choice |-> "ABSENT"]

CallsOK == call \in [Calls -> DecideOf \cup CommitOf \cup {Idle}]

TypeOK ==
  /\ plan \in [Previews -> PlanOf \cup {NoPlan}]
  /\ approver \in [Previews -> Users \cup {Nobody}]
  /\ cancelled \subseteq Previews
  /\ consumed \subseteq Previews
  /\ expired \subseteq Previews
  /\ status \in [Previews -> Statuses]
  /\ audit \subseteq [event : {"approved", "attempted", "finalized"}, preview : Previews]
  /\ CallsOK
  /\ campaign \in [Fields -> Values]
  /\ enabled \in BOOLEAN
  /\ usable \in BOOLEAN
  /\ revoked \subseteq Grants
  /\ sent \in [Previews -> Nat]
  /\ inflight \subseteq Previews
  /\ applied \subseteq Previews
  /\ told \subseteq Previews

Exists(p)    == status[p] # "ABSENT"
Confirmed(p) == approver[p] # Nobody
Owner(p)     == UserOf[plan[p].grant]

\* assertUsable: not cancelled, not consumed, not expired.
Usable(p) == p \notin cancelled /\ p \notin consumed /\ p \notin expired

\* matchesRequested and the digest comparison, on the one field that counts.
Matches(p) == campaign[plan[p].field] = plan[p].requested
Fresh(p)   == campaign[plan[p].field] = plan[p].before

At(c, step)    == call[c].pc = step
Goto(c, step)  == call' = [call EXCEPT ![c].pc = step]
Choose(c, step, v) == call' = [call EXCEPT ![c].pc = step, ![c].choice = v]
Return(c)      == call' = [call EXCEPT ![c] = Idle]
Begin(c, step, p, u, v) ==
  /\ At(c, "idle")
  /\ call' = [call EXCEPT ![c] =
       [pc |-> step, preview |-> p, user |-> u, choice |-> v]]

\* audit.record either stores the event or, in a faulty run, is lost.
Recorded(event, p) == audit' = audit \cup {[event |-> event, preview |-> p]}
RecordedOrLost(event, p) ==
  \/ Recorded(event, p)
  \/ Faulty /\ UNCHANGED audit

Init ==
  /\ plan = [p \in Previews |-> NoPlan]
  /\ approver = [p \in Previews |-> Nobody]
  /\ cancelled = {} /\ consumed = {} /\ expired = {}
  /\ status = [p \in Previews |-> "ABSENT"]
  /\ audit = {}
  /\ call = [c \in Calls |-> Idle]
  /\ campaign \in [Fields -> Values]
  /\ enabled \in BOOLEAN
  /\ usable = TRUE
  /\ revoked = {}
  /\ sent = [p \in Previews |-> 0]
  /\ inflight = {} /\ applied = {} /\ told = {}

-----------------------------------------------------------------------------
(* Preview and browser decision *)

\* The campaign read and the insert are one step: a change of the campaign
\* between them looks like one right after the insert, and nobody can name the
\* row before the call returns its tokens.
Create(p, g, f, v) ==
  /\ ~ Exists(p)
  /\ g \notin revoked /\ usable
  /\ campaign[f] # v
  /\ plan' = [plan EXCEPT ![p] =
       [grant |-> g, field |-> f, before |-> campaign[f], requested |-> v]]
  /\ status' = [status EXCEPT ![p] = "PREVIEWED"]
  /\ UNCHANGED <<approver, cancelled, consumed, expired, audit, call,
                 providerVars, writeVars, told>>

\* decideApproval up to its UPDATE: the browser session of user u.
DecideLoad(c, u, p, decision) ==
  /\ Begin(c, "decide", p, u, decision)
  /\ Exists(p) /\ Owner(p) = u
  /\ Usable(p) /\ ~ Confirmed(p)
  /\ plan[p].grant \notin revoked /\ usable
  /\ UNCHANGED <<rowVars, audit, providerVars, writeVars, told>>

\* Mutant: the UPDATE relies on the checks made when the page was loaded.
Undecided_Unguarded(p, u) == Owner(p) = u /\ p \notin consumed /\ p \notin expired

\* The guarded UPDATE of decideApproval.
Undecided(p, u) ==
  /\ Owner(p) = u
  /\ ~ Confirmed(p)
  /\ Usable(p)

DecideStore(c) ==
  LET p == call[c].preview IN
  /\ At(c, "decide")
  /\ Return(c)
  /\ \/ /\ Undecided(p, call[c].user) /\ call[c].choice = "approve"
        /\ approver' = [approver EXCEPT ![p] = call[c].user]
        /\ status' = [status EXCEPT ![p] = "CONFIRMED"]
        /\ RecordedOrLost("approved", p)
        /\ UNCHANGED cancelled
     \/ /\ Undecided(p, call[c].user) /\ call[c].choice = "cancel"
        /\ cancelled' = cancelled \cup {p}
        /\ status' = [status EXCEPT ![p] = "CANCELLED"]
        /\ UNCHANGED <<approver, audit>>
     \/ /\ ~ Undecided(p, call[c].user)
        /\ UNCHANGED <<approver, cancelled, status, audit>>
  /\ UNCHANGED <<plan, consumed, expired, providerVars,
                 writeVars, told>>

-----------------------------------------------------------------------------
(* Commit, up to the claim *)

\* find and assertUsable, for the grant of the caller's access token.
CommitFind(c, g, p) ==
  /\ Begin(c, "authorize", p, UserOf[g], "ABSENT")
  /\ g \notin revoked
  /\ Exists(p) /\ plan[p].grant = g
  /\ Usable(p)
  /\ approver[p] = UserOf[g]
  /\ UNCHANGED <<rowVars, audit, providerVars, writeVars, told>>

\* account and requireMetaWritePermission, or the error either throws.
CommitAuthorize(c) ==
  /\ At(c, "authorize")
  /\ \/ usable /\ Goto(c, "preread")
     \/ ~ usable /\ Return(c)
  /\ UNCHANGED <<rowVars, audit, providerVars, writeVars, told>>

\* The direct read before the write: it fails, or shows another value than the
\* preview was made of, or allows the claim (unless the flags forbid writes).
CommitPreRead(c) ==
  LET p == call[c].preview IN
  /\ At(c, "preread")
  /\ \/ Choose(c, "mark", "PREWRITE_READ_FAILED")
     \/ ~ Fresh(p) /\ Choose(c, "mark", "PREVIEW_STALE")
     \/ Fresh(p) /\ enabled /\ Goto(c, "claim")
     \/ Fresh(p) /\ ~ enabled /\ Return(c)
  /\ UNCHANGED <<rowVars, audit, providerVars, writeVars, told>>

\* Mutant: markPrewriteFailure updates the row by its id alone.
Unspent_ByIdAlone(p) == p \notin cancelled

\* The row may still be marked as failed: markPrewriteFailure's WHERE clause.
Unspent(p) == p \notin consumed /\ p \notin cancelled

MarkPrewrite(c) ==
  LET p == call[c].preview IN
  /\ At(c, "mark")
  /\ Return(c)
  /\ \/ /\ Unspent(p)
        /\ consumed' = consumed \cup {p}
        /\ status' = [status EXCEPT ![p] = call[c].choice]
        /\ RecordedOrLost("finalized", p)
     \/ /\ ~ Unspent(p)
        /\ UNCHANGED <<consumed, status, audit>>
  /\ UNCHANGED <<plan, approver, cancelled, expired, providerVars, writeVars, told>>

\* Mutant: the claiming UPDATE does not ask for consumedAt to be null.
Claimable_ConsumedUnchecked(p, u) ==
  /\ Owner(p) = u /\ approver[p] = u
  /\ p \notin cancelled /\ p \notin expired

\* The WHERE clause of the claiming UPDATE.
Claimable(p, u) ==
  /\ Owner(p) = u /\ approver[p] = u
  /\ Usable(p)

Claim(c) ==
  LET p == call[c].preview IN
  /\ At(c, "claim")
  /\ \/ /\ Claimable(p, call[c].user)
        /\ consumed' = consumed \cup {p}
        /\ status' = [status EXCEPT ![p] = "CLAIMED"]
        /\ Goto(c, "attempt")
     \/ /\ ~ Claimable(p, call[c].user)
        /\ Return(c)
        /\ UNCHANGED <<consumed, status>>
  /\ UNCHANGED <<plan, approver, cancelled, expired, audit, providerVars, writeVars, told>>

-----------------------------------------------------------------------------
(* Commit, after the claim *)

\* Mutant: a lost attempt audit is ignored.
AuditAttempt_BestEffort(c) ==
  /\ At(c, "attempt")
  /\ RecordedOrLost("attempted", call[c].preview)
  /\ Goto(c, "send")
  /\ UNCHANGED <<rowVars, providerVars, writeVars, told>>

\* The attempt is audited outside any try: a failure ends the call and leaves
\* the preview CLAIMED.
AuditAttempt(c) ==
  /\ At(c, "attempt")
  /\ \/ Recorded("attempted", call[c].preview) /\ Goto(c, "send")
     \/ Faulty /\ Return(c) /\ UNCHANGED audit
  /\ UNCHANGED <<rowVars, providerVars, writeVars, told>>

\* providers.mutateCampaign: the request leaves, or its context is refused
\* first, which the call treats like any other provider error.
Send(c) ==
  LET p == call[c].preview IN
  /\ At(c, "send")
  /\ \/ /\ sent' = [sent EXCEPT ![p] = @ + 1]
        /\ inflight' = inflight \cup {p}
        /\ Goto(c, "await")
     \/ /\ Goto(c, "readback")
        /\ UNCHANGED <<sent, inflight>>
  /\ UNCHANGED <<rowVars, audit, providerVars, applied, told>>

\* Mutant: a lost answer is retried.
MutateSettles_Retry(c) ==
  /\ At(c, "await")
  /\ Goto(c, "readback") \/ Goto(c, "send")
  /\ UNCHANGED <<rowVars, audit, providerVars, writeVars, told>>

\* mutateCampaign returns or throws (a lost answer, a timeout, a failed
\* campaign list): both branches of commit go on with one direct read.
MutateSettles(c) ==
  /\ At(c, "await")
  /\ Goto(c, "readback")
  /\ UNCHANGED <<rowVars, audit, providerVars, writeVars, told>>

\* Mutant: a failed read-back is not caught.
ReadBack_Uncaught(c) ==
  LET p == call[c].preview IN
  /\ At(c, "readback")
  /\ \/ Matches(p) /\ Choose(c, "finalize", "VERIFIED")
     \/ ~ Matches(p) /\ Choose(c, "finalize", "NOT_VERIFIED")
     \/ Return(c)
  /\ UNCHANGED <<rowVars, audit, providerVars, writeVars, told>>

\* The direct read after the write decides between the outcomes.
ReadBack(c) ==
  LET p == call[c].preview IN
  /\ At(c, "readback")
  /\ \/ Matches(p) /\ Choose(c, "finalize", "VERIFIED")
     \/ ~ Matches(p) /\ Choose(c, "finalize", "NOT_VERIFIED")
     \/ Choose(c, "finalize", "UNCERTAIN_OUTCOME")
  /\ UNCHANGED <<rowVars, audit, providerVars, writeVars, told>>

\* finalize stores the verdict, then audits it.  When either fails for a
\* verdict other than UNCERTAIN_OUTCOME the enclosing catch finalizes again,
\* as UNCERTAIN_OUTCOME.
Finalize(c) ==
  LET p       == call[c].preview
      verdict == call[c].choice IN
  /\ At(c, "finalize")
  /\ \/ /\ status' = [status EXCEPT ![p] = verdict]
        /\ Recorded("finalized", p)
        /\ told' = IF verdict = "VERIFIED" THEN told \cup {p} ELSE told
        /\ Return(c)
     \/ /\ Faulty
        /\ status' \in {status, [status EXCEPT ![p] = verdict]}
        /\ IF verdict = "UNCERTAIN_OUTCOME"
             THEN Return(c)
             ELSE Choose(c, "finalize", "UNCERTAIN_OUTCOME")
        /\ UNCHANGED <<audit, told>>
  /\ UNCHANGED <<plan, approver, cancelled, consumed, expired, providerVars, writeVars>>

-----------------------------------------------------------------------------
(* The environment *)

\* A handler dies: the process stops or an unexpected error ends the request.
Die(c) ==
  /\ Faulty /\ ~ At(c, "idle")
  /\ Return(c)
  /\ UNCHANGED <<rowVars, audit, providerVars, writeVars, told>>

Expire(p) ==
  /\ Exists(p) /\ p \notin expired
  /\ expired' = expired \cup {p}
  /\ UNCHANGED <<plan, approver, cancelled, consumed, status, audit, call,
                 providerVars, writeVars, told>>

Revoke(g) ==
  /\ g \notin revoked
  /\ revoked' = revoked \cup {g}
  /\ UNCHANGED <<rowVars, audit, call, campaign, enabled, usable, writeVars, told>>

AccountChanges ==
  /\ usable' = ~ usable
  /\ UNCHANGED <<rowVars, audit, call, campaign, enabled, revoked, writeVars, told>>

\* Somebody edits the campaign in Meta's own tools.
ExternalEdit(f, v) ==
  /\ campaign[f] # v
  /\ campaign' = [campaign EXCEPT ![f] = v]
  /\ UNCHANGED <<rowVars, audit, call, enabled, usable, revoked, writeVars, told>>

\* A request that left is carried out, at any later time, or is refused or lost.
ProviderApplies(p) ==
  /\ p \in inflight
  /\ inflight' = inflight \ {p}
  /\ applied' = applied \cup {p}
  /\ campaign' = [campaign EXCEPT ![plan[p].field] = plan[p].requested]
  /\ UNCHANGED <<rowVars, audit, call, enabled, usable, revoked, sent, told>>

ProviderDrops(p) ==
  /\ p \in inflight
  /\ inflight' = inflight \ {p}
  /\ UNCHANGED <<rowVars, audit, call, providerVars, sent, applied, told>>

-----------------------------------------------------------------------------
CommitStep(c) ==
  \/ CommitAuthorize(c) \/ CommitPreRead(c) \/ MarkPrewrite(c) \/ Claim(c)
  \/ AuditAttempt(c) \/ Send(c) \/ MutateSettles(c) \/ ReadBack(c) \/ Finalize(c)

Next ==
  \/ \E p \in Previews, g \in Grants, f \in Fields, v \in Values : Create(p, g, f, v)
  \/ \E c \in Calls, u \in Users, p \in Previews, d \in Decisions : DecideLoad(c, u, p, d)
  \/ \E c \in Calls, g \in Grants, p \in Previews : CommitFind(c, g, p)
  \/ \E c \in Calls : DecideStore(c) \/ CommitStep(c) \/ Die(c)
  \/ \E p \in Previews : Expire(p) \/ ProviderApplies(p) \/ ProviderDrops(p)
  \/ \E g \in Grants : Revoke(g)
  \/ \E f \in Fields, v \in Values : ExternalEdit(f, v)
  \/ AccountChanges

Spec == Init /\ [][Next]_vars

\* A started handler keeps running: nothing in commit waits without a timeout.
FairSpec == Spec /\ \A c \in Calls : WF_vars(CommitStep(c))
-----------------------------------------------------------------------------
(* Properties *)

Was(event, p) == [event |-> event, preview |-> p] \in audit

\* However many commit calls race and whichever of them die, at most one
\* mutation request is issued for a preview: the claim happens once and nothing
\* after it is repeated (commit's claiming UPDATE).
AtMostOneMutation == \A p \in Previews : sent[p] <= 1

\* A mutation request is issued only for a preview its own user approved and
\* nobody cancelled, and only after the attempt reached the audit log.
MutationAuthorized ==
  \A p \in Previews : sent[p] > 0 =>
    /\ approver[p] = Owner(p)
    /\ p \notin cancelled
    /\ p \in consumed
    /\ Was("attempted", p)

\* A preview that reports it was never attempted - open, cancelled, stale or
\* unreadable before the write - never had a mutation issued, even when
\* another call marks it while one call is claiming it (markPrewriteFailure
\* against commit, decideApproval against commit).
UnattemptedMeansUnsent ==
  \A p \in Previews :
    status[p] \in {"PREVIEWED", "CONFIRMED", "CANCELLED"} \cup Prewrite
      => sent[p] = 0 /\ p \notin inflight

\* Once a committer was answered VERIFIED the row says VERIFIED for good: no
\* late failure path and no other call rewrites the outcome.
ToldVerifiedStays == \A p \in told : status[p] = "VERIFIED"

\* With a public write flag off no preview is claimed and nothing is sent,
\* whatever was approved before (the gate of commit).
FlagsGateWrites ==
  ~ enabled =>
    \A p \in Previews : sent[p] = 0 /\ status[p] \notin PostClaimStatus

\* The outcome of a claimed preview only moves towards less certainty: a claim
\* is settled once, a verdict may be downgraded when its audit fails, and
\* nothing leaves UNCERTAIN_OUTCOME or reopens the preview.
OutcomeOnlyDegrades ==
  [][\A p \in Previews : status[p] \in PostClaimStatus =>
       \/ status'[p] = status[p]
       \/ status[p] = "CLAIMED" /\ status'[p] \in Outcomes
       \/ status[p] \in Outcomes /\ status'[p] = "UNCERTAIN_OUTCOME"]_vars

\* The browser decision is final: after an approval, a cancellation or the end
\* of the preview no decision call changes who approved it or whether it is
\* cancelled, although several decisions may have passed their checks before.
DecisionIsFinal ==
  [][\A p \in Previews : Confirmed(p) \/ p \in cancelled \/ p \in consumed =>
       /\ approver'[p] = approver[p]
       /\ (p \in cancelled') = (p \in cancelled)]_vars

\* Without dying handlers and audit failures every claimed preview gets an
\* outcome: provider errors, lost answers and failed reads all end in one.
ClaimSettles ==
  \A p \in Previews : status[p] = "CLAIMED" ~> status[p] \in Outcomes

\* What docs/openai-public-mcp.md says of a request that failed before the
\* provider accepted it: it is not verified.
RefusedIsNotVerified ==
  \A p \in Previews : status[p] = "VERIFIED" => p \in applied \cup inflight

\* What docs/openai-public-mcp.md says the audit keeps: the approval of every
\* change that was attempted.
ApprovalIsAudited == \A p \in Previews : sent[p] > 0 => Was("approved", p)

-----------------------------------------------------------------------------
(* The one-shot write this implements *)

PhaseOf(p) ==
  CASE status[p] = "ABSENT"     -> "none"
    [] status[p] = "PREVIEWED"  -> "pending"
    [] status[p] = "CONFIRMED"  -> "approved"
    [] status[p] = "CANCELLED"  -> "cancelled"
    [] status[p] \in Prewrite   -> "spent"
    [] status[p] \in PostClaimStatus -> IF sent[p] > 0 THEN "written" ELSE "claimed"

phase == [p \in Previews |-> PhaseOf(p)]

OneShot == INSTANCE OneShotWrite WITH phase <- phase, writes <- sent

\* Every behaviour is one of the one-shot write: a claim, a write and an
\* approval happen in that order, once, and never after a cancellation.
ImplementsOneShot == OneShot!OneShotSpec
=============================================================================
