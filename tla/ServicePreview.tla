---------------------------- MODULE ServicePreview ----------------------------
(***************************************************************************)
(* The previews of MCP clients with a service token                        *)
(* (apps/api/src/mcp/mcp-preview.service.ts): a change of a campaign is    *)
(* previewed, confirmed with the same token, and spent by its commit,      *)
(* which may then be blocked by the policy, refused by the state of the    *)
(* campaign, or written to Meta and read back.                             *)
(*                                                                         *)
(* Calls are request handlers; each await is a step.  The configuration    *)
(* does not change while previews live, so the policy of a preview is a    *)
(* constant: blocked, the general allowlist ("listed"), the first review   *)
(* rename with its fixed names ("review"), or the controlled rename, which *)
(* is bound to the state seen at the preview ("controlled").  Previews are *)
(* of one campaign.  A change is the value it gives the campaign's name.   *)
(***************************************************************************)
EXTENDS Naturals, FiniteSets

CONSTANTS
  Previews, Calls,
  Policy,      \* Policy[p]: what the policy says of preview p
  Names,       \* names the campaign may have
  Expected,    \* the name the first review rename starts from
  Target,      \* the name it gives
  Faulty,      \* whether handlers die, Meta times out and audit writes fail
  None         \* null

Policies == {"blocked", "listed", "review", "controlled"}

ASSUME ServicePreviewAssumption ==
  /\ Policy \in [Previews -> Policies]
  /\ Expected \in Names /\ Target \in Names /\ Expected # Target
  /\ Faulty \in BOOLEAN
  /\ None \notin Names \cup Previews

VARIABLES
  plan,       \* plan[p]: the name before (controlled previews) and the one to give
  confirmed, consumed, expired,  \* previews with the column set, or in the past
  campaign,   \* the campaign at Meta: its name and whether it is PAUSED
  usable,     \* the account is enabled and its connection CONNECTED or DEGRADED
  keyOk,      \* the service token, its identity and its creator are in order
  call,       \* call[c]: the next step of call c, its preview and what it read
  sent,       \* sent[p]: mutation requests for p that left
  inflight,   \* previews whose mutation request has not reached Meta
  applied,    \* previews whose mutation Meta carried out
  told        \* told[p]: what the call that consumed p answered

rowVars   == <<plan, confirmed, consumed, expired>>
envVars   == <<usable, keyOk>>
writeVars == <<sent, inflight, applied>>
vars == <<rowVars, campaign, envVars, call, writeVars, told>>

State   == [name : Names, paused : BOOLEAN]
NoPlan  == [before |-> None, after |-> None]
Plan    == [before : Names \cup {None}, after : Names \cup {None}]
Answers == {"none", "blocked", "already", "committed", "unverified", "failed"}
Steps   == {"idle", "confirm", "recheck", "account", "consume", "blocked", "key", "preread",
            "precheck", "send", "await", "reread", "list", "record"}
Call    == [pc : Steps, preview : Previews \cup {None}, seen : State]

TypeOK ==
  /\ plan \in [Previews -> Plan]
  /\ confirmed \subseteq Previews /\ consumed \subseteq Previews /\ expired \subseteq Previews
  /\ campaign \in State
  /\ usable \in BOOLEAN /\ keyOk \in BOOLEAN
  /\ call \in [Calls -> Call]
  /\ sent \in [Previews -> Nat]
  /\ inflight \subseteq Previews /\ applied \subseteq Previews
  /\ told \in [Previews -> Answers]

Idle == [pc |-> "idle", preview |-> None, seen |-> [name |-> Expected, paused |-> TRUE]]

Init ==
  /\ plan = [p \in Previews |-> NoPlan]
  /\ confirmed = {} /\ consumed = {} /\ expired = {}
  /\ campaign = [name |-> Expected, paused |-> TRUE]
  /\ usable = TRUE /\ keyOk = TRUE
  /\ call = [c \in Calls |-> Idle]
  /\ sent = [p \in Previews |-> 0]
  /\ inflight = {} /\ applied = {}
  /\ told = [p \in Previews |-> "none"]

Exists(p) == plan[p] # NoPlan
Of(c)     == call[c].preview

At(c, step)       == call[c].pc = step
Go(c, step)       == call' = [call EXCEPT ![c].pc = step]
See(c, step)      == call' = [call EXCEPT ![c].pc = step, ![c].seen = campaign]
Begin(c, step, p) == At(c, "idle") /\ call' = [call EXCEPT ![c].pc = step, ![c].preview = p]
Return(c)         == call' = [call EXCEPT ![c] = Idle]
\* The call that consumed the preview answers.
Tell(c, answer)   == Return(c) /\ told' = [told EXCEPT ![Of(c)] = answer]

-----------------------------------------------------------------------------
(* create *)

\* evaluateMetaAppReviewPrecondition for a controlled preview.
Previewable(p, name) ==
  Policy[p] = "controlled" => keyOk /\ campaign.paused /\ campaign.name # name

\* The name a controlled preview shows, and is bound to.
Shown == campaign.name

\* The first review rename is only ever to its target.
Create(p, name) ==
  /\ ~ Exists(p) /\ usable
  /\ Policy[p] = "review" => name = Target
  /\ Previewable(p, name)
  /\ plan' = [plan EXCEPT ![p] =
       [before |-> IF Policy[p] = "controlled" THEN Shown ELSE None, after |-> name]]
  /\ UNCHANGED <<confirmed, consumed, expired, campaign, envVars, call, writeVars, told>>

-----------------------------------------------------------------------------
(* confirm *)

Open(p) == Exists(p) /\ p \notin consumed /\ p \notin expired

Bound(p) == usable /\ (Policy[p] = "controlled" => keyOk)

\* find and the checks; a confirmed preview is answered without an UPDATE.
ConfirmFind(c, p) ==
  /\ Open(p) /\ Bound(p) /\ p \notin confirmed
  /\ Begin(c, "confirm", p)
  /\ UNCHANGED <<rowVars, campaign, envVars, writeVars, told>>

\* The WHERE clause of the confirmation.
Confirmable(p) == p \notin confirmed /\ Open(p) /\ Bound(p)

\* The one UPDATE; its audit event may be lost without consequences.  A call
\* that lost the UPDATE reads the row again and answers from it.
Confirm(c) ==
  /\ At(c, "confirm")
  /\ IF Confirmable(Of(c))
       THEN Return(c) /\ confirmed' = confirmed \cup {Of(c)}
       ELSE Go(c, "recheck") /\ UNCHANGED confirmed
  /\ UNCHANGED <<plan, consumed, expired, campaign, envVars, writeVars, told>>

ConfirmRecheck(c) ==
  /\ At(c, "recheck") /\ Return(c)
  /\ UNCHANGED <<rowVars, campaign, envVars, writeVars, told>>

-----------------------------------------------------------------------------
(* commitAuthorized *)

\* Mutant: the confirmation is not asked for.
Committable_Unconfirmed(p) == Open(p)

Committable(p) == Open(p) /\ p \in confirmed

CommitFind(c, p) ==
  /\ Committable(p)
  /\ Begin(c, "account", p)
  /\ UNCHANGED <<rowVars, campaign, envVars, writeVars, told>>

CommitAccount(c) ==
  /\ At(c, "account")
  /\ IF usable THEN Go(c, "consume") ELSE Return(c)
  /\ UNCHANGED <<rowVars, campaign, envVars, writeVars, told>>

\* Mutant: the row is consumed by its id alone.
Unspent_Assumed(p) == TRUE

\* The WHERE clause of the consumption: nothing but consumedAt.
Unspent(p) == p \notin consumed

FirstStep(p) ==
  CASE Policy[p] = "blocked"    -> "blocked"
    [] Policy[p] = "listed"     -> "send"
    [] Policy[p] = "review"     -> "preread"
    [] Policy[p] = "controlled" -> "key"

\* The preview is spent before the policy is applied.
Consume(c) ==
  /\ At(c, "consume")
  /\ IF Unspent(Of(c))
       THEN consumed' = consumed \cup {Of(c)} /\ Go(c, FirstStep(Of(c)))
       ELSE Return(c) /\ UNCHANGED consumed
  /\ UNCHANGED <<plan, confirmed, expired, campaign, envVars, writeVars, told>>

\* The audit event of the blocked commit is outside any try.
Blocked(c) ==
  /\ At(c, "blocked")
  /\ Tell(c, "blocked") \/ (Faulty /\ Tell(c, "failed"))
  /\ UNCHANGED <<rowVars, campaign, envVars, writeVars>>

\* assertControlledPrincipal; the row itself still matches its own snapshot.
CheckKey(c) ==
  /\ At(c, "key")
  /\ IF keyOk THEN Go(c, "preread") /\ UNCHANGED told ELSE Tell(c, "failed")
  /\ UNCHANGED <<rowVars, campaign, envVars, writeVars>>

PreRead(c) ==
  /\ At(c, "preread")
  /\ \/ usable /\ See(c, "precheck") /\ UNCHANGED told
     \/ (Faulty \/ ~ usable) /\ Tell(c, "failed")
  /\ UNCHANGED <<rowVars, campaign, envVars, writeVars>>

\* Mutant: the state is not compared with the snapshot of the preview.
Unchanged_Assumed(p, s) == TRUE

\* A controlled campaign is as it was when the preview was made.
Unchanged(p, s) ==
  Policy[p] = "controlled" => s.name = plan[p].before /\ s.paused

PreCheck(c) ==
  LET p == Of(c)
      s == call[c].seen IN
  /\ At(c, "precheck")
  /\ IF ~ Unchanged(p, s) THEN Tell(c, "failed")
     ELSE \/ Faulty /\ Tell(c, "failed")                    \* the audit event
          \/ ~ s.paused /\ Tell(c, "blocked")
          \/ /\ s.paused /\ Policy[p] = "review" /\ s.name \notin {Expected, Target}
             /\ Tell(c, "blocked")
          \/ s.paused /\ s.name = plan[p].after /\ Tell(c, "already")
          \/ /\ s.paused /\ s.name # plan[p].after
             /\ Policy[p] = "review" => s.name = Expected
             /\ Go(c, "send") /\ UNCHANGED told
  /\ UNCHANGED <<rowVars, campaign, envVars, writeVars>>

\* mutateCampaign reads the connection and its credential, then asks Meta.
Send(c) ==
  /\ At(c, "send")
  /\ \/ /\ usable
        /\ sent' = [sent EXCEPT ![Of(c)] = @ + 1]
        /\ inflight' = inflight \cup {Of(c)}
        /\ Go(c, "await")
        /\ UNCHANGED <<applied, told>>
     \/ (Faulty \/ ~ usable) /\ Tell(c, "failed") /\ UNCHANGED writeVars
  /\ UNCHANGED <<rowVars, campaign, envVars>>

\* Mutant: no answer in time counts as success.
Accepted_Always(p) == TRUE

Accepted(p) == p \in applied

MutateSettles(c) ==
  /\ At(c, "await")
  /\ \/ Accepted(Of(c)) /\ Go(c, "list") /\ UNCHANGED told
     \/ Faulty /\ Tell(c, "failed")
  /\ UNCHANGED <<rowVars, campaign, envVars, writeVars>>

\* mutateCampaign ends with a listing of the campaigns, which may fail.
List(c) ==
  /\ At(c, "list")
  /\ \/ Go(c, IF Policy[Of(c)] = "listed" THEN "record" ELSE "reread") /\ UNCHANGED told
     \/ Faulty /\ Tell(c, "failed")
  /\ UNCHANGED <<rowVars, campaign, envVars, writeVars>>

Reread(c) ==
  /\ At(c, "reread")
  /\ \/ usable /\ See(c, "record") /\ UNCHANGED told
     \/ (Faulty \/ ~ usable) /\ Tell(c, "failed")
  /\ UNCHANGED <<rowVars, campaign, envVars, writeVars>>

Verified(p, s) == Policy[p] # "listed" => s.name = plan[p].after /\ s.paused

\* The last audit event, and the answer.
Record(c) ==
  /\ At(c, "record")
  /\ \/ Tell(c, IF Verified(Of(c), call[c].seen) THEN "committed" ELSE "unverified")
     \/ Faulty /\ Tell(c, "failed")
  /\ UNCHANGED <<rowVars, campaign, envVars, writeVars>>

-----------------------------------------------------------------------------
(* The surroundings *)

\* Meta carries the request out at any time, or never.
ProviderApplies(p) ==
  /\ p \in inflight
  /\ inflight' = inflight \ {p} /\ applied' = applied \cup {p}
  /\ campaign' = [campaign EXCEPT !.name = plan[p].after]
  /\ UNCHANGED <<rowVars, envVars, call, sent, told>>

ProviderDrops(p) ==
  /\ Faulty /\ p \in inflight
  /\ inflight' = inflight \ {p}
  /\ UNCHANGED <<rowVars, campaign, envVars, call, sent, applied, told>>

ExternalEdit(s) ==
  /\ s # campaign /\ campaign' = s
  /\ UNCHANGED <<rowVars, envVars, call, writeVars, told>>

AccountChanges ==
  /\ usable' = ~ usable
  /\ UNCHANGED <<rowVars, campaign, keyOk, call, writeVars, told>>

KeyRevoked ==
  /\ keyOk /\ keyOk' = FALSE
  /\ UNCHANGED <<rowVars, campaign, usable, call, writeVars, told>>

Expire(p) ==
  /\ Exists(p) /\ p \notin expired
  /\ expired' = expired \cup {p}
  /\ UNCHANGED <<plan, confirmed, consumed, campaign, envVars, call, writeVars, told>>

Die(c) ==
  /\ Faulty /\ ~ At(c, "idle") /\ Return(c)
  /\ UNCHANGED <<rowVars, campaign, envVars, writeVars, told>>

Step(c) ==
  \/ Confirm(c) \/ ConfirmRecheck(c) \/ CommitAccount(c) \/ Consume(c) \/ Blocked(c)
  \/ CheckKey(c) \/ PreRead(c) \/ PreCheck(c) \/ Send(c) \/ MutateSettles(c)
  \/ List(c) \/ Reread(c) \/ Record(c)

Next ==
  \/ \E p \in Previews, n \in Names : Create(p, n)
  \/ \E c \in Calls, p \in Previews : ConfirmFind(c, p) \/ CommitFind(c, p)
  \/ \E c \in Calls : Step(c) \/ Die(c)
  \/ \E p \in Previews : ProviderApplies(p) \/ ProviderDrops(p) \/ Expire(p)
  \/ \E s \in State : ExternalEdit(s)
  \/ AccountChanges \/ KeyRevoked

Spec == Init /\ [][Next]_vars
-----------------------------------------------------------------------------
(* Properties *)

\* The client is told "committed" only of a change that Meta carried out.
CommittedIsApplied ==
  \A p \in Previews : told[p] = "committed" => p \in applied

\* After "blocked" or "already applied" nothing was sent, and nothing will be.
BlockedIsUntouched ==
  \A p \in Previews : told[p] \in {"blocked", "already"} => sent[p] = 0

\* A controlled rename replaces the name its preview showed: whoever writes
\* has seen that very name, PAUSED, after the confirmation.
WritesWhatWasShown ==
  \A c \in Calls :
    At(c, "send") /\ Policy[Of(c)] = "controlled" =>
      /\ Of(c) \in confirmed \cap consumed
      /\ call[c].seen = [name |-> plan[Of(c)].before, paused |-> TRUE]
      /\ call[c].seen.name # plan[Of(c)].after

\* The environment model says that a real commit needs a preview that has
\* not expired.
SpentInTime ==
  [][\A p \in Previews : p \in consumed' \ consumed => p \notin expired]_vars

-----------------------------------------------------------------------------
(* A service preview is a one-shot write: it is consumed before it is used. *)

PhaseOf(p) ==
  IF ~ Exists(p) THEN "none"
  ELSE IF sent[p] > 0 THEN "written"
  ELSE IF p \in consumed THEN "claimed"
  ELSE IF p \in confirmed THEN "approved" ELSE "pending"

OneShot == INSTANCE OneShotWrite WITH
  phase <- [p \in Previews |-> PhaseOf(p)], writes <- sent

ImplementsOneShot == OneShot!OneShotSpec
=============================================================================
