# Formal models of HolyMedia MCP

TLA+ models of the parts of HolyMedia MCP whose correctness depends on what
happens *between* statements: request handlers that race on one row, worker
executions that are run twice, provider answers that are lost or come late,
processes that die between two writes. The models are translated from the
TypeScript sources, checked with TLC on small instances, and what the runs show
of their safety is proved with TLAPS for instances of any size.

`PROJECT.json` maps every definition to the lines it models and lists the runs,
the mutants that each property is shown to catch, the hazards and the theorems.

## 1. The system

The product lets a workspace connect advertising platforms (Meta, Google Ads,
Google Analytics, Search Console, TikTok) and use them through MCP tools and a
dashboard. It is a pnpm monorepo, with a Python predecessor kept beside it:

| Part | Where | State it keeps | Who works on it concurrently |
| --- | --- | --- | --- |
| Public MCP controlled write | `apps/api/src/mcp/mcp-public-write.service.ts`, `mcp-public-approval.controller.ts` | `McpPublicWritePreview` rows, audit events; the campaign at Meta | OAuth MCP clients, the owner's browser tabs, administrators, Meta's own tools |
| Service-token previews | `apps/api/src/mcp/mcp-preview.service.ts` | `McpPreview` rows | MCP clients with a service token, confirmations |
| OAuth authorization server | `apps/api/src/mcp/oauth-authorization.service.ts` | authorization transactions, codes, refresh families, access tokens | OAuth clients, browsers, revocations |
| Provider connections | `apps/api/src/providers/provider.service.ts`, `refresh-coordinator.service.ts`, `oauth-state.service.ts` | `ProviderConnection`, `ProviderCredential`, `ProviderAccount` rows; the Redis lock | every provider read, OAuth callbacks, refresh, discovery, disconnect |
| Support requests | `apps/api/src/support/`, `apps/worker/src/support-telegram.job.ts` | `SupportRequest` rows, BullMQ jobs; the Telegram chat | dashboard retries, worker executions, Telegram |
| Workspaces and membership | `apps/api/src/workspaces`, the owner trigger in `packages/database/prisma/migrations` | memberships and roles, invitations | owners, administrators, invited people |
| Identity and sessions | `apps/api/src/auth` | users, sessions, reset links, Google login states | browsers, administrators |
| Billing and usage limits | `apps/api/src/billing` | entitlements, usage records, the accounts that are enabled | every metered request, selections in the dashboard, support |
| Site audits and site analysis | `apps/api/src/site-audits`, `site-analysis`, `apps/worker/src/site-audit.job.ts`, `packages/site-audit` | `SiteAudit` rows, findings, metrics, reports; BullMQ jobs | API handlers, worker executions |
| Service tokens, rate limits | `apps/api/src/service-tokens`, `infrastructure/redis-rate-limit.service.ts` | token rows, Redis counters | every MCP call |
| Hermes | `apps/hermes/src/hermes.ts` | the polling offset and the set of seen updates, in memory | Telegram |
| MCP tools, provider adapters, reports, SEO, analytics, administration, reviewer demo | `apps/api/src/...` | none of their own, or single-row updates | - |
| Web frontend, shared packages, scripts, infrastructure, agent skills | `apps/web`, `packages`, `scripts`, `infra`, `.agents` | - | - |
| Legacy v1 server | `src/ad_mcp` (Python) | in-memory previews, JSON files | - |

The parts interact through the database and a few calls. The MCP tools and the
dashboard call the provider service, which reads the connection and its
credential and calls the platform. The public write calls it as well, and
depends on the OAuth server for who is asking (a grant may be revoked at any
time) and on the connection being usable (a disconnect may come at any time).
The OAuth server asks for the memberships of a user, who may lose them; the
service previews depend on a service token and an enabled account. API and
worker share rows and the Redis queues. The browser only retries.

What is hard is the same nearly everywhere: a handler is a sequence of awaits,
each a point where somebody else may move; the code relies on guarded updates
(`updateMany ... WHERE`) rather than long transactions; an answer of an external
service may be lost after the effect took place; audit events and outcomes are
separate writes; and jobs run again.

What makes each part correct:

- *Controlled write*: a change is written at most once and only as its owner
  approved it; what the row says about it is true, or says that it is uncertain.
- *Service previews*: as the controlled write, for a preview spent by its commit.
- *Provider connections*: a refresh token is not spent twice, the lock always
  frees, and a disconnected workspace gets no credential back by accident.
- *Support*: the support team gets a request at most once, the user is told the
  truth about it, and nothing waits for ever.
- *OAuth server*: a consent is decided once and for a member; a code and a
  refresh token buy once; a replay whose token is looked at is noticed; what was
  alive when a revocation began is dead when it was answered.
- *Membership*: a workspace always has an owner, and a withdrawn invitation lets
  nobody in. *Usage*: requests that run together do not pass a limit together.
- *Sessions*: after a password change, a reset or a logout everywhere the old
  sessions are gone; an address has one account.
- *Site audits*: a created audit ends, its results are stored once.
  *Hermes*: an update is answered, one bad update does not stop the bot.

## 2. The modules

Each component is a module of its own, with one action per await: everything a
handler does between two awaits is one step. `MC...` modules give the constants
of the TLC instances, `...Proofs` modules hold theorems.

| Module | Models | Proofs |
| --- | --- | --- |
| `OneShotWrite` | abstract: a change is offered, approved or cancelled, given up or claimed, written at most once | - |
| `PublicWrite` | the controlled write of the public MCP; implements `OneShotWrite` | `PublicWriteProofs` |
| `ServicePreview` | previews of service-token clients, under each policy; implements `OneShotWrite` | `ServicePreviewProofs` |
| `OneDelivery` | abstract: a request is asked, attempted, and gets into the chat once | - |
| `SupportDelivery` | a support request, its job and its Telegram message; implements `OneDelivery` | `SupportDeliveryProofs` |
| `ProviderConnection` | a provider connection, its credential and the refresh lock | `ProviderConnectionProofs` |
| `TokenChain` | abstract: one consent, one chain of refresh tokens, one of them alive | - |
| `OAuthTokens` | code exchange, rotation, replay, revocation; implements `TokenChain` | `OAuthProofs` |
| `OAuthConsent` | the authorization transaction up to the code | `OAuthProofs` |
| `OAuthServer` | the two together, joined by the codes | `OAuthProofs` |
| `Team` | abstract: members join by an open invitation, once; the last owner stays | - |
| `Membership` | roles, removals and invitations against the owner trigger; implements `Team` | `MembershipProofs` |
| `Sessions` | the account of an address and its sessions | `SessionsProofs` |
| `UsageLimits` | enabled accounts and MCP requests against the limits of a plan | `UsageLimitsProofs` |

The abstract specifications are where components meet. `OneShotWrite` is
what both kinds of provider write promise; a reader who knows it knows what a
tool may rely on, whichever path it takes. `TokenChain` is what a client of the
OAuth server holds; a chain is what `PublicWrite` calls a grant, and the
revocation of a grant at any time is what `TokenChain` allows (`Dead`).
`OneDelivery` is what the dashboard may tell of a support request. `Team` is
what the members of a workspace may rely on. In
`OAuthServer` a code that `OAuthConsent` issued is what `OAuthTokens`
exchanges; membership in `OAuthConsent` and standing in `OAuthTokens` change at
any time, as `Membership` makes them. `ProviderConnection` and `ServicePreview` appear to
the writes as an account that may become unusable and usable again.

### PublicWrite

A handler ("call") is a process; each await of `create`, `decideApproval` and
`commit` is a step. A preview row is modelled by the columns the guards read.
`approver[p]` stands for `confirmedAt`, `approvedByUserId` and
`approvalSessionId`, which one UPDATE sets together; the snapshot digest is the
value of the one campaign field that the operation changes.

| Code | Action |
| --- | --- |
| `create` | `Create` |
| `browserApprovalContext`, `decideApproval`, its guarded UPDATE and audit | `DecideLoad`, `DecideStore` |
| `commit`: `find`, `assertUsable` | `CommitFind` |
| `account`, `requireMetaWritePermission` | `CommitAuthorize` |
| the direct read, the flags, `markPrewriteFailure` | `CommitPreRead`, `MarkPrewrite` |
| the claiming UPDATE | `Claim` |
| the attempt audit (outside any `try`) | `AuditAttempt` |
| `mutateCampaign` leaves, and returns or throws | `Send`, `MutateSettles` |
| the read-back and `finalize` with its enclosing catch | `ReadBack`, `Finalize` |

The environment may expire a preview, revoke a grant, make the account unusable
and usable again (`AccountChanges`), edit the campaign elsewhere
(`ExternalEdit`), carry out or drop a mutation request at any later time
(`ProviderApplies`, `ProviderDrops`) and, when `Faulty`, kill any handler
between two awaits (`Die`) and lose audit writes and status updates.

`create` reads the campaign and inserts the row in one step: nobody can name
the row before its tokens are returned, and a change of the campaign in between
looks like one right after. The approval token and the browser session are
abstracted to the user they authenticate.

### ServicePreview

Previews are of one campaign, whose state is a name; the configuration does not
change while previews live, so the policy of a preview is a constant: blocked,
the general allowlist, the first review rename with its fixed names, or the
controlled rename, which is bound to the state seen at the preview.

| Code | Action |
| --- | --- |
| `create` | `Create` |
| `confirm`: checks, its UPDATE and audit, the lost update | `ConfirmFind`, `Confirm`, `ConfirmRecheck` |
| `commit`, `commitAuthorized`: find, account, the consuming UPDATE | `CommitFind`, `CommitAccount`, `Consume` |
| the blocked policy | `Blocked` |
| `assertControlledPrincipal`, the read before, its checks and audit | `CheckKey`, `PreRead`, `PreCheck` |
| `mutateCampaign` and its listing | `Send`, `MutateSettles`, `List` |
| the read after, the audit and the answer | `Reread`, `Record` |

The environment is that of `PublicWrite`, with a service token that may be
revoked (`KeyRevoked`).

### SupportDelivery

A row is a key (workspace, user, idempotency key); `Requests` are API handlers,
a retry of the browser being another one; `Workers` are worker executions. The
API and the worker read the token and the chat from their own environment, so
each is configured on its own (`configured`).

| Code | Action |
| --- | --- |
| `create`: fingerprint, existing row, limits, insert or unique conflict | `Submit`, `Lookup`, `Insert` |
| `enqueueAndConfirm`: checks, `queue.add`, `waitUntilFinished`, its catch | `Before`, `Enqueue`, `Wait`, `Reread` |
| worker: load, not configured, claim, lost claim | `Load`, `MarkUnconfigured`, `Claim`, `Recheck` |
| `sendMessage`, its answer or timeout | `Post`, `Await` |
| the stored outcome | `Confirm`, `Settle` |

BullMQ is external: `Take`, `Finish` (a result only counts while the execution
holds the job), `Stall` (a lock is lost, so two executions may run the same job
together), `Retried` (attempts with backoff, then dropped as `removeOnFail`),
`Evict` (`removeOnComplete` keeps finished jobs for a while, and `queue.add`
with a kept id does nothing). Telegram is external: it may answer, refuse, or
serve a request whose sender gave up (`late`).

In `OneDelivery` the outcome of a request is `Known(k)`, a reading of the
status column, and the chat is the set of rows with a posted message. An attempt starts
only while no message is in the chat, a refusal is only known while none is, a
confirmation while one is; the message may arrive as long as an attempt is open
or its outcome unknown. A request that was refused may be `Reopen`ed: the
worker writes NOT_CONFIGURED over FAILED when the configuration is gone.

### ProviderConnection

One connection row, its credential row and the Redis lock; `Tasks` are handlers
that each carry out one request of any kind: the OAuth callback, disconnect,
the explicit refresh, a discovery or a read. Transactions run statement by
statement at READ COMMITTED: the first statement takes its row lock, the last
one and the commit are a step, and a cycle of waits is broken by aborting a
transaction (`Deadlocked`, `DatabaseFails`). A credential is a number; the
provider issues them in increasing order, so "who stored which one" can be told
apart without naming tokens.

| Code | Action |
| --- | --- |
| `completeOAuth` | `Exchange`, `SaveConnection`, `SaveCredential`, then `ProviderAnswers`, `Persist`, `Report` or `Degrade` |
| `disconnect` | `LoadToDisconnect`, `DropCredential`, `DropConnection` |
| `refresh` | `Lock`, `LoadToRefresh`, `CallReturns`, `StoreCredential`, `StoreConnection`, `Report` or `Reauth`, `Unlock` |
| `discover` | `LoadToDiscover`, `Lock`, `CallReturns`, `StoreForRead`, `Unlock`, `ProviderAnswers`, `Persist`, `Report` or `Degrade` |
| reads (`readContext`, `refreshForRead`, `withReadFailure`) | `LoadToRead`, `CallReturns`, `StoreForRead`, `ProviderAnswers`, `Degrade` |
| `withLock` | `Lock`, `Unlock`, `LeaseExpires` |

A SET of the lock that Redis carries out although its reply is lost leaves a
lease without an owner until it expires: it is part of `Lock`.

A handler that is past its last use of its credentials forgets them (`Known`),
which merges states that no later step tells apart.

### OAuthTokens, OAuthConsent and OAuthServer

PostgreSQL at READ COMMITTED again: a statement sees what was committed when it
began, waits for rows that other transactions have updated, and looks at those
rows once more. A request inserts at most one refresh token and one access
token in the same transaction; both are named by the request, a family by the
request that redeemed its code. Families and transactions do not touch each
other, so one of each is enough for a run.

| Code | Action |
| --- | --- |
| `exchangeAuthorizationCode` | `Deny`, `ReadCode`, `ClaimCode`, `Issue` |
| `exchangeRefreshToken` | `Deny`, `ReadToken`, `CheckMember`, `Claim`, `Rotate` |
| `revokeRefreshFamily`: two UPDATEs and the commit | `SeeFamily`, `LockToken` for each row; `SeeAccess`, `LockAccess` for each row; `CommitRevocation` |
| `revoke` | `RevokeAccess`, `RevokeRefresh` |
| `beginAuthorization` | `BeginAuthorization` |
| `continueAuthorization`, `authorizationContext`, `decideAuthorization`: the transaction is read | `Load` |
| ... the workspace is selected and checked | `SelectAny`, `SelectOne`, `SelectShown`, `Check` |
| ... the row is updated | `StoreContinued`, `StoreShown`, `StoreDecision` |

`Deny` is every refusal before the row is asked whether it was used (451-461 of
the refresh, their like in the exchange): a client that is suspended, revoked or
another one, a resource, the write scope. Such a request revokes nothing, also
when it presents a token that was rotated. A suspension in `ReadToken` is of
the user or the workspace, or of a client that `publicClient` had still found.

A revocation's UPDATE gets its rows one by one and in any order (the code asks
for none), holds those it has, and waits for the others (`TokensHeld`,
`AccessHeld`). Requests that wait in a circle are `Deadlocked`; PostgreSQL
aborts one of them, and its request fails (`Abort`).

`OAuthServer` runs both about one transaction. A code is named after the visit
that issued it (an instance takes `Codes = Visits`), and a client can present
only codes that were issued. Visits of the consent and requests to the token
endpoint interleave freely, except that each step is of one of them.

### Membership

One workspace. An invitation is named by the request that inserted it. The
trigger `ensure_workspace_has_owner` runs inside the UPDATE or DELETE and holds
a transaction-level advisory lock until the commit: `Write` is that statement,
`CommitWrite` the commit.

| Code | Action |
| --- | --- |
| `changeRole`, `removeMember` | `StartChange`, `StartRemove`, `ReadActor`, `ReadTarget`, `CountOwners`, `Write`, `CommitWrite` |
| `createInvitation`, `resendInvitation` | `StartInvite`, `StartResend`, `Retire`, `ReadExisting`, `Insert` |
| `revokeInvitation` | `StartRevoke`, `Withdraw` |
| `acceptInvitation` | `StartAccept`, `Claim`, `Join` |

`Team` knows no requests: a member becomes something else or leaves unless that
would cost the last owner, an invitation is offered, then taken by the person
and with the role it names, or withdrawn. `team` is the role column, `seat` the
state of an invitation read from its columns: an invitation that was accepted
and then marked revoked (`Retire` revokes by id) is taken, and one that is
pending is open, expired or not.

### Sessions

The account of one address. A session and a reset link are named by the request
that made them; a stored hash is the password it verifies.

| Code | Action |
| --- | --- |
| `signup`, `login` | `SignUp`, `Create`, `LogIn`, `Rehash`, `CreateSession` |
| `consumeState`, `exchangeCode`, `loginWithGoogle` | `Callback`, `ConsumeState`, `Profile`, `FindUser`, `Create` |
| `forgotPassword`, `resetPassword` | `Forgot`, `CreateLink`, `Reset`, `ApplyReset` |
| `changePassword` | `Change`, `StorePassword`, `RevokeAll`, `CreateSession` |
| `logout`, `logoutAll`, `updateUserAccess` | `Logout`, `EndSession`, `LogoutAll`, `RevokeAll`, `Administer`, `SetStatus` |

### UsageLimits

The transactions that compare with a limit are SERIALIZABLE; PostgreSQL's part
is modelled by what it promises: a snapshot taken by the first statement, an
error for a row that changed since, and a serial order of what was committed
(`before` keeps the order). The updates of support and of a disabled account
are single statements at READ COMMITTED.

| Code | Action |
| --- | --- |
| `featureValue`, `numericLimit` | `Limit`, `ReadLimit` |
| `setProviderAccountEnabled`, `setProviderAccountsEnabled` | `Start`, `Read`, `Write`, `Commit`; `Update` when an account is disabled |
| `manual-connection-request.service.ts`: support enables an account | `Update` |
| `consumeMcpRequest`, `recordUsage` | `Reserve`, `ReserveConflicts`, `Admit`, `Record` |

## 3. What is checked

Every run is exhaustive on its instance. Deadlock is checked unless the
instance really stops: handlers that each carry out one request end.

| Run | Instance | Shows |
| --- | --- | --- |
| `write_safety` | 1 preview, 2 calls, 2 users with 3 grants, 1 field of 3 values, all faults | the change is written at most once (`AtMostOneMutation`), only as approved and audited (`MutationAuthorized`); a row that says "not attempted" had nothing sent (`UnattemptedMeansUnsent`); the verdict told to a client stays (`ToldVerifiedStays`); outcomes only get less certain (`OutcomeOnlyDegrades`); decisions are final (`DecisionIsFinal`); `OneShotWrite` is implemented |
| `write_live` | 1 preview, 2 calls, no faults | every claim reaches an outcome (`ClaimSettles`) |
| `service` | a preview of each policy, 3 calls, 3 names, all faults | a controlled change is written only over the state that was shown (`WritesWhatWasShown`); "committed" is true (`CommittedIsApplied`); a blocked preview sends nothing (`BlockedIsUntouched`); `OneShotWrite` is implemented |
| `support_safety` | 1 key, 3 handlers, 2 executions, 2 contents, 2 attempts, 1 stall, all faults | at most one message, counting those still under way (`DeliveredAtMostOnce`); evidence and FAILED are true (`EvidenceIsReal`, `FailedIsKnown`); a user told "delivered" sent that very message (`ToldDeliveredIsMine`); `OneDelivery` is implemented (`ImplementsDelivery`), so SENT and UNCERTAIN are final and an attempt starts only while no message is or may come |
| `support_live` | 2 handlers, 2 executions, 3 attempts, no faults | claims settle (`AttemptSettles`), every browser is answered (`AllAreAnswered`) |
| `support_retry` | 3 handlers, 1 attempt, no faults | a counterexample to a comment, see 5 |
| `connection` | 2 handlers of any kind, all faults | the lock excludes and is released by its holder alone (`LeaseIsMine`); two explicit refreshes never both spend one credential (`RefreshedOnce`); only the callback creates a credential (`OnlyOAuthCreatesCredential`); the lock frees (`LockFrees`) |
| `tokens` | 1 code, 3 requests, all faults | a family has at most one token that works (`OneLiveToken`); a token that was rotated and is looked at for another request too is revoked once both are answered (`ReplayIsDetected`); what was alive when a revocation began is dead when it is answered (`RevocationCoversSeen`); `TokenChain` is implemented (`ChainSpec`) |
| `consent` | 2 users, 2 workspaces, 3 requests, memberships that change | one decision (`OneDecision`); a transaction begun by a user stays with that user (`BegunStaysMine`); a code is for a member (`CodeIsForMember`) |
| `members` | 2 owners and a guest, 3 requests, all faults | an owner stays (`AlwaysAnOwner`); only someone read as an owner takes that role away (`OwnersByOwners`); a withdrawn invitation lets nobody in (`RevokedStaysOut`) |
| `limits` | 3 accounts of 2 connections, 3 requests, 3 kinds of terms that change, all faults | selections together stay within a limit the workspace was offered (`SelectionWithinLimit`); MCP requests together stay within the quota and each is counted (`QuotaHolds`) |
| `sessions` | 3 requests, 2 passwords, 1 Google state, all faults | what ends all sessions ends those it found (`RevocationCoversSeen`); concurrent changes leave one session (`ChangeKeepsASession`); one account (`OneAccount`); a state lets one callback through (`StateUsedOnce`) |

Type invariants, and the invariants that say less than those above
(`NothingBuysTwice`, `InvitationUsedOnce`, the inductive ones), are proved
(section 4) and not part of a run.

**Bounds.** The smallest race is between two handlers; a third one is there
where a case needs it.
`write_safety`: the guards of a preview read no other preview, so one shows
everything about interleavings on a row; three values are needed for "before",
"requested" and "something else"; three grants give a second grant of the owner
and a stranger. `service`: calls are about one preview (`MCOnePreview` lets a
behaviour create one, of any policy, since previews share nothing but the
campaign, which `ExternalEdit` changes at will); the three calls are a creation
or confirmation and two commits. `support_safety`: three handlers cover winner, loser
and a later retry; two executions cover a stalled job that still runs; two
attempts and one stall make each retry path happen. `connection`: two handlers
cover every pair of kinds, in every order; three handlers, up to symmetry and
with the safety properties only (5.2 million states, not among the runs), add
no violation. `tokens`: one request redeems, two rotate, replay or revoke, and wait in a
circle when two of them revoke a family of two tokens; the surviving token of
section 5 needs a fourth request. Requests are interchangeable and all that the
run checks is safety, so its symmetry is sound. `consent`: a decision, another one
and whatever comes before or between. `members`: two requests about the two
owners and a third that reads in between; an invitation, its revocation and its
acceptance. That one invitation makes two memberships would take four requests
(inserting, accepting, removing the guest, accepting again): that it cannot is
proved instead. `MembershipTeam.cfg` checks `ImplementsTeam` on the same
instance in under four minutes; it is not among the runs. `limits`: three accounts against limits of one and two, in
one or two connections; `MCLimited` explores a workspace without limits only
while it has had no other, since no promise is made of it. `sessions`: a
session or link, and two requests about it. No counter is capped by hand: they are
bounded by what the handlers can do.

**Fairness.** `FairSpec` of `PublicWrite` assumes that a started commit call
takes its next step: all its waits are database statements and HTTP calls with
a timeout, and no fault is enabled in that run. In `SupportDelivery` handlers
and executions keep running and a free worker takes a waiting job: the
handler's wait, the Telegram call and BullMQ's polling are bounded in time. No
fairness is assumed of Telegram, of the operators or of eviction. In
`ProviderConnection` handlers keep running (the lock's wait has a deadline, the
database breaks cycles) and Redis expires keys; `LockFrees` holds although
handlers may die. The other modules
state safety only. In particular nothing is said of how long a request to the
token endpoint waits: that transactions which wait for each other end is
PostgreSQL's deadlock detection, not a property of this code.

**Mutants.** Every property of a passing run is shown to fail when the model is
changed the way a plausible bug would change the code (a WHERE clause that
forgets a condition, a retry after a lost answer, a release without comparing,
a trigger without its advisory lock, a weaker isolation level...). The mutated
operators stand next to the definitions they replace, marked `Mutant`.

## 4. What is proved

The proofs are about `Spec` of the module, for constants of any size, from the
assumption that the module states of its constants (null is none of the
values, flags are Booleans, each grant has one user, the accounts of a
workspace are finitely many, ...) and nothing else. Every invariant and every
action property of a passing run is proved, and each refinement.
The proofs are of the same shape. The property is seldom inductive; the
strengthening `SafetyInv` relates the step of each handler ("past the claim",
"holds the lock", "has read an owner") to the rows, and is shown to hold
initially and to be kept by each action. Properties about steps and the
refinements follow from it. Where a module has many actions a lemma first says
what a step of a handler can look like (which steps follow which, and what may
change), so that each part of the invariant is proved over a few cases.

`PublicWriteProofs`
- `TypeCorrect`, `SafetyInvariant`, with
  `SafetyInv == TypeOK /\ RowInv /\ CallInv /\ OneClaimant /\ SentInv`:
  `RowInv`, which columns go with which status; `CallInv`, what a call that is
  past the claim knows about its row; `OneClaimant`, only one call is past the
  claim of a preview; `SentInv`, how many requests were issued at each stage.
- `MutatesAtMostOnce`, `MutatesOnlyAuthorized`, `UnattemptedIsUnsent`,
  `ToldVerifiedIsStable`, `DecisionsAreFinal`, `FlagsGate` (no write while the
  flags are off, which no run checks).
- `OutcomesOnlyDegrade` needs `OutcomeInv` as well: a handler past the claim
  finds its preview CLAIMED until it has to finalize again as uncertain, so the
  second write never improves the first.
- `RefinesOneShot`: with `phase` computed from the status and the requests
  issued, initial states map to initial states and each step to one of
  `OneShotWrite` or to a stutter; `SafetyInv` excludes steps that would skip a
  phase.

`ServicePreviewProofs`: the same argument with the consumption in place of the
claim (`OneClaimant`, `CallInv`, `RowInv`): `TypeCorrect`, `WritesShown`,
`CommittedApplied`, `BlockedUntouched`, `RefinesOneShot`.

`SupportDeliveryProofs`: `SafetyInv` counts, per row, the messages in the chat
or still able to get there, by the status of the row and the step of the one
execution that has claimed it (`RowInv`, `ExecInv`, `OneAttempt`, `ReqInv`).
`AtMostOnce`, `EvidenceReal`, `FailedKnown`, `ToldIsMine`, `SettledStays`, for
any number of attempts, stalls and executions. `RefinesDelivery`
(`Spec => ImplementsDelivery`): only `Insert`, the four writes of an execution
and the two arrivals in the chat change what `OneDelivery` sees, and
`SafetyInv` gives the guard of each abstract step (a row that can be claimed is
clean, a refusal is of a clean row, a confirmation of a delivered one, a late
request of a row that is SENDING or UNCERTAIN).

`ProviderConnectionProofs`
- `TypeCorrect`; `ControlFlow` is its main lemma: where each action leads.
- `LockExcludes` and `OnlyOAuthCreates`, from
  `LockInv == TypeOK /\ OfRefresh /\ LeaseIsMine /\ CredentialLocked`.
  `CredentialLocked` is what makes the second one true: between its two
  statements the refresh transaction holds the credential row and has found one,
  so no disconnect deletes it in between.
- `RefreshesOnce`, from `LockInv`, `TokenInv` and `RefreshInv`: a pending
  credential (received, not stored) is nowhere else; a credential that a
  finished refresh spent is not stored again, and no other refresh in the lock
  holds it.

`OAuthProofs`, of the tokens
- `BuysOnce` (a code and a refresh token buy once) and `OneLive`, from
  `TokenInv`: what an inserted token tells about the request that inserted it
  (`RowInv`), and what a running transaction has updated is its own (`HoldInv`).
- `RevocationCovers` and `ReplayDetected` from `CoverInv`, which adds what each
  statement of a revocation saw, and that nothing revoked, seen or expired is
  taken back. `CircleRevokes` is the lemma about aborts: whoever waits in a
  circle is in a revocation. `ReplayDetected` is about requests that looked at
  the token; one that was denied before is in section 5. `ImplementsChain`: `Spec => ChainSpec`, and from it `EndedStays`:
  a consent whose refresh tokens have all ended never has one that works again.

... of the consent: `DecidedOnce`, `StaysMine`, `CodesForMembers`. A decision
consumes the transaction (`DecisionInv`); whoever is past the check of the user
is the one who began it (`OwnerInv`); an approval reaches its store step only
by a membership that was found (`CheckedInv`).

... of the two together (a lemma, `ServerIsParts`, carries all of the above over
to the composition, whose parts do not share variables): `OneTokenForConsent` (however many tabs decide
and however many clients exchange, rotate and revoke, a transaction has at most
one working refresh token) and `TokensAllowed` (every refresh token goes back
to an approval by the user who began the transaction, for a workspace that user
may be a member of). They need `AllowInv`, a code is the answer to an approval,
and that what is presented was issued. `OAuthServer.cfg` checks both on two
visits, two requests and two users (one million states up to the symmetry of
visits and requests); it is not among the runs.

`MembershipProofs`
- `OwnerKept` (`Spec => []AlwaysAnOwner`) and `OwnersChange`, from `OwnerInv`:
  nobody becomes an owner, so the counts can only be too high; one statement at
  a time is past the trigger and what it saw holds until its commit
  (`CommitInv`); whoever changes an owner was read as one (`TouchInv`).
- `UsedOnce` and `StaysOut`, from `InviteInv`: an invitation that is being
  accepted is pending, and being accepted by one request (`JoinInv`); what was
  answered stays true (`AnswerInv`).
- `RefinesTeam` (`Spec => ImplementsTeam`): four steps change what `Team` sees.
  `CommitWrite` is `Become` by `CommitInv` (the target is still a member and
  still not the last owner), a revocation is `Withdraw` or nothing, `Insert` is
  `Offer`, `Join` is `Take` by `JoinInv` and `OfferInv`: the actor and the role
  a request read are still those of the invitation.

`SessionsProofs`: `RevocationCovers`, `ChangesKeepOne`, `AccountOnce`,
`StateOnce`. `CoveredInv` says that a request past its revocation ended what it
saw; `KeepInv` that while only changes end sessions, one of the changes is
still under way or has its session.

`UsageLimitsProofs`: `SelectionsFit` (`Spec => []SelectionWithinLimit`) and
`QuotaIsKept` (`Spec => []QuotaHolds`), for any number of requests and
connections and any finite set of accounts.
- Selections: while the workspace has a limit every transaction that changes
  accounts has read all of them, so of two that overlap and change something
  only one commits, and a transaction with no other one in its way finds its
  rows as its snapshot shows them (`ViewOK`, `HoldInv`). `RoomOK` is the heart:
  if such a transaction commits, the accounts enabled then fit into the limit
  it read, apart from those support enabled; what others did in the meantime
  only makes room. The serial order that SERIALIZABLE promises is needed only
  for pairs of transactions, never as a whole.
- The quota: the usage record is locked from its increment to the commit, so
  one reserving request at a time is past it, and each admitted request is in
  the quantity (`ReservedInv`, `CountInv`).
- `SafetyInv` was checked by TLC on the instance of `limits` before it was
  proved. That a workspace has finitely many accounts is the one assumption it
  adds: they are rows of a table, and cardinalities are compared.

Model-checked only: liveness (`ClaimSettles`, `AttemptSettles`,
`AllAreAnswered`, `LockFrees`), since liveness under fairness and
`ENABLED` are beyond the provers used here; and the counterexamples of the next
section.

## 5. Where the code and its documents differ

`support_retry` is a run. The others can be repeated with the cfg named; TLC
finds a violation of the property each names.

- `support_retry`: a comment (`support-request.service.ts:239`) says a later
  retry of the user creates a fresh delivery attempt. A completed job kept under
  the same id swallows it.
- `PublicWriteRefused.cfg`: `docs/openai-public-mcp.md:128` says a request that
  failed before the provider accepted it is not verified. `commit` reads the
  campaign after any error (481-501) and compares it with what was requested, so
  the verdict is about the campaign: if somebody else made the same change, a
  refused request is VERIFIED.
- `PublicWriteApprovalAudit.cfg`: the same document (132-134) lists the approval
  among what the audit keeps. The approval is committed before its event is
  written (265); if that write fails the approval stands and the change can be
  written.
- `ProviderConnectionStorm.cfg`: the OAuth threat model
  (`OAUTH_THREAT_MODEL_RU.md:13`) answers refresh storms with a lock per
  connection. Reads refresh without it.
- `ProviderConnectionReopened.cfg`: `PROVIDER_ACCOUNT_MODEL_RU.md:5` forbids
  operations through a disconnected connection. A read of one is refused, and
  the refusal then marks the connection DEGRADED (1092).
- `OAuthTokensFamily.cfg`: the review of 2026-09-04 (line 102) and the test
  `oauth-authorization.service.test.ts:805` say that a replay revokes the
  family. The first UPDATE of the revocation may wait for a rotation, whose new
  token it has not seen: that token works on after the revocation was answered.
- `OAuthTokensReplay.cfg`: the same line of the review. A rotated token that is
  presented while the client is suspended, by another client, or with the write
  scope switched off is refused (451-461) before `usedAt` is asked (467): the
  replay is not noticed, and the rotation's new token works on once the client
  is restored. `ReplayNeverEscapes` is violated.
- `ServicePreviewExpiry.cfg`: `ENVIRONMENT_MODEL_RU.md:29` asks for a preview
  that has not expired. `commitAuthorized` compares the time before it reads the
  account, and the consuming UPDATE (400) does not.
- `SessionsLink.cfg`: `THREAT_MODEL_PHASE_2_RU.md:11` calls a reset link
  one-time. Two requests that both found it open both set a password: the
  transaction (338-358) updates the link by its id.
- `UsageLimitsSupport.cfg`: `BILLING_ARCHITECTURE_RU.md:20-23` says accounts
  are enabled within the limit. Support enables one with a plain update
  (`manual-connection-request.service.ts:230`).

Seen in the models, or beside them, but contradicting nothing the repository
says:

- *Connections*: a disconnect that found no credential may commit after a
  reconnect and leave DISCONNECTED with a credential; a read's refresh that began
  before a reconnect may overwrite the newer credential; a busy lock marks a
  connection DEGRADED.
- *Handlers that die* between claim and outcome leave a preview CLAIMED, or a
  support request SENDING, for good; a signup whose verification e-mail cannot
  be sent fails after the account was made.
- *Sessions*: a login that verified an old hash stores its rehash by id, over a
  password that was changed in between.
- *Membership*: `resendInvitation` withdraws the old invitation before the new
  one is known to be possible; two resends make two invitations.
- *Token endpoint*: two revocations of a family may wait for each other's rows;
  the one that PostgreSQL aborts fails, revokes nothing, and is not repeated. A
  rotation whose commit and whose revocation both fail leaves tokens that work
  and that nobody was told.
- *Limits*: the limit is read before the transaction that compares with it; a
  serialization error is an error to the user, nobody retries.
- *Service previews*: a commit spends the preview before the policy refuses it.
- *Site audits*: a second attempt stores its findings again, and completes a row
  that keeps the error of the first; a row whose job could not be added stays
  QUEUED.
- *Hermes*: the offset lives in memory and advances before an update is handled.

## 6. Not modelled

- *Site audits and site analysis*: an audit is one sequence of unconditional
  updates by id; a job runs alone under a lock of twenty minutes, and what goes
  wrong when it runs again or could not be added is plain (see above and the
  hazards). The rest is crawling, parsing and scoring.
- *Service tokens*: created in one transaction, rotated and revoked by single
  statements; a token revoked during a commit is part of `ServicePreview`.
- *Rate limits*: a counter in Redis that only refuses. In the models a refusal
  before the first write is a handler that dies there.
- *Manual connection requests*: one row with a status and a notification; the
  account that support enables is part of `UsageLimits`.
- *Hermes*: a single loop with no state but its offset; it reads, answers, and
  starts over. No promise to check survives a restart.
- *Parts of modelled components*: `startOAuth` and the one-time state before the
  code exchange, adapters that cannot refresh and the Search Console overview
  (it locks as a discovery does); client registration, PKCE and redirect checks
  (refusals without effects); e-mail verification and profiles; creating and
  renaming a workspace; the plan list and `requireFeature`.
- *No state of their own*: provider adapters (their answers are part of the
  flows that call them), MCP dispatch, reports, SEO, analytics, administration,
  the reviewer demo, the web frontend (its retries are further handlers),
  configuration, scripts, infrastructure and vendored skills.
- *The v1 server*: the Python predecessor, kept for migration.

Integers are unbounded in the models; every counter of the code is far below
its width. Cryptography (token digests, signatures, hashing) is taken to do
what it promises: a token is a name.

## 7. Running

```
tlc -workers 2 -config PublicWriteSafety.cfg MCPublicWrite
tlc -workers 2 -config PublicWriteLive.cfg MCPublicWrite
tlc -workers 2 -config ServicePreview.cfg MCServicePreview
tlc -workers 2 -config SupportDeliverySafety.cfg MCSupportDelivery
tlc -workers 2 -config SupportDeliveryLive.cfg MCSupportDelivery
tlc -workers 2 -config ProviderConnection.cfg MCProviderConnection
tlc -workers 2 -config OAuthTokens.cfg MCOAuthTokens
tlc -workers 2 -config OAuthConsent.cfg MCOAuthConsent
tlc -workers 2 -config OAuthServer.cfg MCOAuthServer   # not among the runs
tlc -workers 2 -config Membership.cfg MCMembership
tlc -workers 2 -config MembershipTeam.cfg MCMembership   # not among the runs
tlc -workers 2 -config UsageLimits.cfg MCUsageLimits
tlc -workers 2 -config Sessions.cfg MCSessions
tlapm PublicWriteProofs.tla     # and the other ...Proofs modules
```
