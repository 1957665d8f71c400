# A verification of the wallet team permissions platform

This directory holds TLA+ specifications of the platform in `apps/` and
`packages/`: what they model, what TLC checks on small instances, and what TLAPS
proves for all instances. Paths below are relative to the repository.

## 1. The system

A NestJS API (`apps/api`) lets the members of an organization request transfers
from Safe multisig wallets. A request, an *intent*, is decided by the policies of
the member's roles, may need approvals, is proposed to the Safe Transaction
Service, and is then polled until it has executed. A Next.js application
(`apps/web`) calls the API. PostgreSQL (Prisma) holds the rows, Redis the counters,
caches and BullMQ jobs.

| component | state it keeps | operations | what makes it correct |
|---|---|---|---|
| intent lifecycle (`intent/`) | `transaction_intents` | create, propose, cancelByMember | nothing moves unless the policy or a quorum allowed it; denial is final |
| status machine (`packages/shared/src/intent`) | none | transitionIntentStatus | the table of legal moves |
| approvals (`approval/`) | `approval_requests`, `approval_decisions` | createForIntent, recordDecision, expireStaleRequests, list | fulfilled only by a quorum; a met quorum is not missed; what an approver was told is recorded stands |
| tx-status tracking (`worker/`) | BullMQ job per intent | enqueue, handle | executed only if the Safe executed; every submitted intent is tracked |
| Safe client (`wallet/safe`) | none (the service is external) | proposeTransaction, getTransaction | an answer may be lost after the effect |
| policy engine (`packages/policy-engine`) | none | evaluate, mergeResults | the strictest rule decides, rules only restrict |
| policies (`policy/`) | `policies`, by version | createForRole, updatePolicy, archivePolicy | one active version per scope; an intent names a version its evaluation saw, or a newer one |
| spending limits (`policy/`) | Redis counters by day and hour | evaluateIntent, resolveAmountUsd, increment* | everything allowed is counted; caps are overshot only by what is in flight |
| price oracle (`integration/`) | the price cache in Redis | getUsdPrice, fetch with retries | no price is used that is older than the ttl and the calls around it |
| role assignments (`roles/`) | `role_assignments` | assign, revoke, promoteScheduled, expireActive | ended access stays ended, and takes the sessions with it |
| accounts and sessions (`auth/`) | `users`, `sessions`, lockout map | register, login, verify and enroll MFA, refresh, logout | a refresh token works once; the second factor is not stepped round; failures lock |
| guards and rate limits (`auth/guards`, `common/guards`) | windows in Redis and in memory | JwtAuthGuard, ApiKeyAuthGuard, OrgMember, OrgAdmin, the three limits | what has ended stops; nobody is locked out for ever |
| api keys (`api-keys/`) | `api_keys` | create, revoke, validateBearerToken | a revoked key serves nobody |
| organizations (`org/`) | `organizations`, `members`, `invites` | createOrganization with its seeds, createInvite, acceptInvite, deactivate | no organization is half made; an invitation is accepted once |
| wallets (`wallet/`) | `wallets`, challenges in Redis, sync jobs | startConnect, completeConnect, sync | a Safe is connected once, and its owners get read |
| audit (`audit/`) | `audit_events`, `audit_export_jobs`, files | append, query, export, process, download | pages cover the log; a completed export is whole |
| idempotency (`common/middleware`) | cached answers in Redis | use | a key works again only after an overlap or a loss |
| reminders (`worker/processors`) | reminder timestamps | handle | each reminder once, in order |
| web application | localStorage, cookies, the state of each page | AuthProvider, useActiveOrg, the intent, approvals, audit, policy and connect pages | a tab acts as the user it shows; a transfer is not proposed twice unawares |
| configuration, health, logging, metrics, infrastructure | none of the domain | | |

How they interact: `IntentService.create` calls the policy evaluation (rules from
the database, price from the oracle, counters from Redis), stores the intent,
raises the counters and, if needed, calls `ApprovalService.createForIntent`.
Deciders call `recordDecision`; revoking a role ends sessions and calls
`cancelByMember`; `propose` talks to the Safe service and enqueues the job that
`TxStatusProcessor` runs. The pages of the web application poll and post; their
answers come in any order.

**What is hard.** Almost no handler runs in a transaction, and every status write
is an update by id without a condition on the current status. So each `await` is a
point where other handlers run, and each failure leaves a prefix of the handler's
writes. The transition table is called with literal statuses (`"pending_approval"`,
`"ready_to_sign"`), so it constrains the code's text and not the rows. Jobs are
delivered at least once; answers get lost; counters roll over. In the browser no
effect waits for the one before, and no button waits for every answer it caused.
`PROJECT.json` lists each hazard at its line with the properties aimed at it.

## 2. The modules

All modules are written the same way. A request, delivery, run of an effect or
answer in flight is a record whose `pc` names the statement that comes next and
whose other fields are the locals still used; there is one action per stretch
between two awaits, named for what it does; and a request can end at any await. A
call to the database that rejects is taken not to have written. Variables called
*history* in a declaration exist only for the properties. Operators whose comment
begins "Mutation" are the bugs named in `PROJECT.json`, used by no action.

### Intent lifecycle

* `IntentStatus.tla`: the statuses, `TRANSITIONS`, `transitionIntentStatus`,
  `policyEventFromDecision` and `LegalMove`.
* `AuthorisedTransfers.tla`: the abstract promise. Intents become authorised; only
  the transfer of an authorised intent reaches the Safe; it may execute there; only
  then may an intent be recorded as executed.
* `IntentLifecycle.tla`: the code. State: `status`, `decision` (the intent's row),
  `request` and `vote` (approval rows), `eligible` (who
  `resolveEligibleApproverMemberIds` returns now), `safe` (the external service),
  `job` (BullMQ), and `call`: the handlers in flight. `BeginDecide` reads the
  request, `CheckEligible` and `CreateDecision` follow, `CountApprovals`,
  `FulfilRequest`, `MarkReady` close it. The unique index on (request, member)
  refuses a second decision, as in the schema. `CallFails` ends a call between any
  two steps: a rejected await and a dead process look the same to the rows. Two
  intents with the same wallet, recipient and amount build the same Safe payload
  (the builder always uses nonce 0), so `PayloadOf` maps intents to payloads.
* `MCIntentLifecycle.tla`: instances with one intent, or two sharing a payload.

`attempt` of the tx-status job stands for the count of deliveries BullMQ keeps.
`worker.ts` registers only the wallet-sync worker; the tx-status, export, reminder
and expiry processors are modelled as their classes are written, run by a worker that
passes the attempt, which is more than the code does. The refuted `SubmittedSettles`
therefore fails even then.

### Before a request is done: `MCRequests`

* `PolicyEngine.tla`: every rule handler, the registry's lookup, the merge.
  `PolicyOutcome.tla`: a member's rules as they come and go, in any order (the query
  names none). `MCPolicyOutcome.tla`: ten rules of all seven types and one unknown, and
  contexts on both sides of each limit.
* `SpendLimits.tla`: `create` as far as it touches prices and counters, with the
  oracle, midnight, the hour and outages of Redis as actions of the environment.
  `stored` is the truth the caps are about (allowed intents of the day, of the hour),
  `missed` the part the code never counts: no price at the second lookup, an
  increment dropped without Redis, or a call that ended first. It uses
  `PolicyEngine!evaluate` for the decision. `ReadUsd` and `Evaluate` let another
  request come between the answers to the two gets of `getCounters`. The `expire`
  after each increment is left out: the keys carry their date, so an expired key and
  a new one are the same to a reader.
* `Prices.tla`: `getUsdPrice`. A price is its age; each await takes its time, in
  ticks, up to the timeout of the request and `RedisLag`. Redis and CoinGecko are
  external.
* `RequestGuards.tla`: the guards of a route in the order NestJS runs them, the
  controller's before the method's. `overtaken` is history: the requests that had
  passed the read of a key or member when it ended.
* `RateLimits.tla`: the windows. `orphaned` is history: a request ended between the
  increment and the expiry of a key.

### The services and the pages: `MCServices`

* `Sessions.tla`: the refresh tokens of a user. `refresh` finds the row, deletes it
  and issues the next one, in three calls; `RevokeByUser` comes in between. `old` and
  `escaped` are history: which tokens descend from a login before the last
  revocation, and how many refreshes were past their delete at that moment.
* `RoleAssignments.tla`: one role of one member: windows, promotion, revocation, the
  expiry sweep with its list, the overlap check and the insert after it.
  `AccessControl.tla`: both together. `held` is history: the sessions there were when
  an assignment ended.
* `Accounts.tla`: one address: registering, logging in, the second factor and its
  challenge. `LoginLockout.tla`: its failed logins in the memory of a process. The
  entry is read under the address in lower case and deleted under the address as
  typed, so a login typed otherwise forgets nothing.
* `Organizations.tla`: `useActiveOrg`, the team page, and the transaction that creates
  an organization with its roles and policies. The `org.created` event is inserted on
  another connection while the transaction is open.
* `Invitations.tla`: invitations and members, with the unique index and the transaction
  of `acceptInvite`. An invitation past its `expiresAt` stays pending, and blocks
  another for its address, until someone presents it.
* `WalletConnections.tla`: the form, the requests that connect, challenges, the row and
  its sync job with attempts. `PolicyVersions.tla`: the rows of `policies`, the edit
  page that reads before it writes, and the two reads that creating an intent makes.
* `AuditLog.tla`: `append` stamps before it inserts; `query` returns pages from a
  cursor; the page puts answers together. `AuditExports.tla`: one export, its file,
  its deliveries, its download, and one synchronous export.
* `IdempotentRequests.tla`, `ApprovalReminders.tla`: requests with one key; the sweep.
* `WebSession.tla`: the tabs of one browser: localStorage, the cookie the middleware
  reads, the refresh cookie, `AuthProvider`. `ApprovalInbox.tla` and `IntentPage.tla`:
  the pages of approvals and of one intent with the requests they have in flight. What
  the requests do to the intent is in `IntentLifecycle`; here it is the answer that
  matters.

The parts of `MCRequests`, and those of `MCServices`, share no state with each other.
So a behaviour of these runs picks one part in `Init` and runs it alone: every
interleaving within a part is explored, and the state spaces add up instead of
multiplying. Role assignments and sessions, which do interact, also run together.

## 3. What the runs check

Every property has a mutant in `PROJECT.json`: a plausible bug in one mapped
definition under which the run must fail.

| run | bounds | shows |
|---|---|---|
| `interleaved` | one intent, two members, two calls, quorum up to 2, two attempts, failures on | `TypeOK`; `OnlyAuthorisedMoves`; `FulfilledByQuorum`; `ExecutedOnSafe`; `DeniedIsFinal`; `ImplementsAbstract` |
| `serial` | two intents sharing a payload, one call, no failures | between calls `RequestAndIntentAgree`; `StatusFollowsTable` |
| `unfailing` | two calls, no failures, fair handlers | `QuorumNotMissed`, `QuorumCloses`, `SubmittedIsTracked` |
| `requests` | up to three rules of ten, all orders; two calls, prices {1, 2}, a count of 1, outages, up to 2 missed; two guarded requests, one key, two members; windows of 2 ticks; two lookups | `StrictestRuleWins`, `RulesOnlyRestrict`; `AllCounted`, `DailyOvershootBounded`, `HourlyOvershootBounded`; `EndedStops`; `WindowsHold`; `QuotedPriceFresh`; types |
| `services` | two requests, rows, sweeps, deliveries of each kind; three tokens, sign-ins, policies, events, runs of the organization hook; clock 0..1 | see below |
| `cancelled`, `rejection`, `quorum_ready`, `tracked`, `restrictive`, `reuse`, `api_key` | as small as shows the disagreement | statements of the repository that the code does not keep: section 5 |

`services` shows, part by part: a refresh token has one successor (`TokenWorksOnce`)
and a revocation misses only refreshes under way (`EscapeBounded`); sessions end with
access (`SessionsEndWithAccess`), which stays ended (`EndedStaysEnded`), and open
assignments are bounded by overlapping requests (`OverlapBounded`); nobody is signed in
past a second factor the request could have seen (`MfaHolds`), and failures lock
(`LockoutHolds`); organizations are complete (`OneCompleteOrg`), invitations accepted
once (`AcceptedOnce`), Safes connected once and in order (`WalletsConnectInOrder`);
policies and the version an intent names (`OneActivePolicy`, `SnapshotSeenOrNewer`);
the approvals page (`AckedDecisionStands`), the log (`PagesCoverLog`) and its exports
(`CompletedCanBeDownloaded`); repeats and reminders (`RepeatsBounded`,
`RemindedOnceInOrder`); the tabs of the browser (`ActsAsShown`) and the sign button of
an intent (`ProposedAgainAccounted`).

**Why the bounds are enough.** Each race found or excluded here is between two
handlers (the third writer is an environment action: the sweep, the Safe, the
clock), so two calls show it; two approvers are needed for a quorum that must be
counted, two attempts for a retry and the last attempt. One intent suffices where
intents do not share rows; two sharing a payload show what they do share. Three
rules exhaust the merge, which is a maximum and a fold of pairs. The overshoot
bounds of the counters are tight: lowering either by one makes TLC find a violation.
In `services`, three tokens are what two refreshes with one token would need, three
policies are two updates of one, three runs are two that overlap and one that comes
back later, three events make two pages and one that is inserted between them, and a
clock of two moments has assignments that wait, run and end. The histories that count
failures are bounded by `MaxLost`, `MaxUnnoted`, `MaxMissed`, `MaxCounted`,
`MaxFailures` and `MaxProposed`.

Some bounds are part of the steps of `MCServices`, each stated there: slots that are
alike are taken in one order; `AccessBound` leaves to the parts what the composition
of roles and sessions does not need; runs of the hook begin, and organizations are
created, in one order; one of the policy editors is the page and the other calls the
API; the approvals page has two requests in flight and the intent page three; events
are inserted in the order of their ids (their stamps are free) and the filter of the
log stays once there are two; an export is queued or answered directly, not both. None
of these is a guard of a component: its own specification, the one the proofs of
section 4 are about, does not have them.

**Deadlock** is checked in the runs of the lifecycle and in `restrictive` and `reuse`; not in
`services`, `requests` and `api_key`, where rows, tokens and ticks may run out, which
in the code they do not. **Fairness**: `Running` (each call in flight goes on) is what
Node does with a settled promise; no user, revocation or failure is fair. `Tracking`
(the job is polled, the Safe's owners act) is assumed in `FairSpec` only to make the
refutation of `SubmittedSettles` stronger. The services have no liveness property:
after a failure none of them is promised to go on, so what can be said is where a
thing that did not happen is still to be seen (`WalletsConnectInOrder`,
`AllCounted`, `SubmittedIsTracked`).

## 4. What is proved

TLAPS checks the following for all values of the constants that the named assumptions
allow. `PROJECT.json` lists every theorem; every safety invariant and action property
of the passing runs is the statement of one.

**The lifecycle** (`IntentLifecycleProofs`)

* `TypeCorrect`; `Invariant` (`Spec => []IInv`), and from it `OnlyAuthorised`,
  `QuorumBehindFulfilment`, `ExecutionIsReal`, `DenialIsFinal`, `AlwaysBacked`. The row
  properties are not inductive: a step is only as good as what its call checked some
  awaits ago. `Backing` supplies this: a call past its check still has its
  authorisation behind it, a call that saw a request still finds one, the creating call
  is alone with its intent, and a job about to record an execution has seen it. It is
  stable because authorisation is: votes are never deleted, a request's required count
  never changes, a decision is written once.
* `FollowsThrough`, and from it `NoQuorumMissed` and `SubmissionsTracked`, assume
  `Failures = FALSE`, as the run `unfailing` does. An approval is counted after it is
  written and the count is acted on, so the call that met a quorum, or one after it, is
  at its closing steps; a submitted intent has its job, or a call about to add it. Besides
  `IInv` this takes only that a request starts without votes (`VotesRequested`).
* `StaysInStep`, and from it `SerialAgreement` and `SerialFollowsTable`, assume
  `Undisturbed`: no failure, no revocation, one call, as in the run `serial`. Then
  request and intent move together, up to the writes that the one call has still to do.
  Without the assumption both are false, which is what the runs `cancelled`,
  `rejection` and `quorum_ready` show.
* `Refinement`: every step of the lifecycle is a step of `AuthorisedTransfers` or a
  stutter.

**Before a request is done** (`PolicyProofs`, `RequestsProofs`)

* `OnlyRestrict`, from the monotonicity of the merge in the set of results.
  `StrictestWins`: the merge is as severe as the severest rule alone, for rules in any
  order. It assumes `RequirementsAskForSome`: a rule that requires approvals asks for at
  least one, which the schema of the rules demands (policy.schema.ts).
* `FewActive` and `SnapshotIsSound`. The rows of a policy are numbered in the order they
  were added and an archived one never comes back, so a row that an evaluation did not
  see is newer than all it saw; a scope gains an active row only where it had none,
  where one was archived for it, or by a stale write.
* `HourlyInvariant` and `HourlyLimit`. A call passes the engine only if `counter.tx <
  MaxCount`; what is stored is at most counted plus uncounted plus missed; the caller is
  itself one of the calls, which leaves `Cardinality(Calls) - 1` of overshoot.
* `DollarInvariant`, and from it `NothingUncounted` and `DailyCap`. The same argument in
  dollars, where the calls in flight owe different sums: what is stored is the counter,
  the sum of what the calls owe, and what was missed. A call owes the price of its
  second lookup and was checked at that of the first, so the bound has the drift of the
  price in it. `SomeOfEach` says that there are calls, prices and amounts at all: the
  bound is a product of their maxima.
* `RateInvariant` and `RatesHold`: a key in Redis without an expiry belongs to a request
  about to set it, or was orphaned; and the requests served in the length of a window
  fall in two windows, each within the limit.
* `PriceAge`: a cached price ages as its ttl runs down, so the two add up to no more
  than when it was stored. `EndedAreStopped`: a request is bound only to a live key or an
  active member, and what has ended is never either again.
* `RunsOfParts`: a behaviour of `MCRequests` is one of each of its parts, so all of the
  above holds in the run, whose choice of one part is no restriction. `RequestTypes`.

**Access** (`AccessControlProofs`): `OneSuccessor`, `FewEscape`, `FewOverlap`,
`EndsForGood`, `AccessEnds`. A session that is gone stays gone, so one refresh passes the
delete; what a sweep or a revocation has on its list exists, so its writes by id end rows
and make none; a session held when an assignment ended is gone or the call is still at it.

**The services** (`ServicesProofs`)

* `SecondFactor` and `LockedAfterFailures` (only what read the row and waits can be out
  of date); `FewRepeats` (until an answer is stored each effect belongs to a request in
  flight or a loss); `OneAcceptance` (members stay members); `RemindersInOrder` (mails
  not noted belong to sweeps other than those still to send); `CompletedExports`
  (without an overlap the delivery that runs has its whole file behind it);
  `OrgsComplete` (what a transaction has made grows with its `pc`, and the runs that can
  still add an organization had found none before the first).
* `AuditInvariant` and `PagesCover`. A row's moment never changes, and a row inserted
  later may fall anywhere. So each answer in flight is said to cover a stretch of the
  log, from its cursor to its end, as it was when it was read: every row of a moment of
  its own is in the answer once. An answer that starts where the list stops makes the
  list longer; one that does not is `mixed`.

**The pages** (`BrowserProofs`): `ShownIsActing` (a token and its user are set together);
`AckedStands` (a decision on its way stands in its row when the answer comes);
`ConnectedInOrder` (the unique index makes one request the one that adds a Safe, its job
is queued before its event, and a job that ended well has written the owners);
`ProposalsAccounted` (at most one proposal under way still has its button; every other
was cut off from it by an excuse, and the excuses pay for what is accepted and for what
still may be).

**The run of the services** (`MCServicesProofs`): `RunsOfServices`, a behaviour of
`MCServices` is one of each of its fifteen parts, whatever its bounds; `RunOfAccess`, when
roles and sessions run together they do as `AccessControl` says; `ServiceTypes`. Types
alone are not inductive where a step uses what another has checked: a version is never
above the number of its row, a challenge that is deleted was issued, a job that is tried
again has attempts left (`VersionsNumbered`, `ChallengesNamed`, `JobsBounded`).

Each module keeps its argument in invariants with one lemma per action or group of
actions: `IInv`, `FollowedThrough` and `InStep` of the lifecycle, `HourlyInv`, `DollarInv`,
`RateInv`, `PoliciesInv`, `SessionsInv`, `EscapeInv`, `AssignmentsInv`, `AccessInv`,
`MfaInv`, `LockoutInv`, `RepeatsInv`, `InvitationsInv`, `RemindersInv`, `ExportsInv`,
`OrgsInv`, `AuditInv`, `InboxInv`, `WalletsInv`, `PageInv` and others. The assumptions are
those that the modules name (`LifecycleAssumption`, `SpendAssumption`,
`WalletsAssumption`, ...): finite sets of requests, bounds in `Nat`, names that do not
collide; TLC evaluates them in the runs. The hypotheses of single theorems are the four
above: `Failures = FALSE`, `Undisturbed`, `RequirementsAskForSome`, `SomeOfEach`.

**Sums and maxima.** The merge of the engine, the sums of the counters and the maxima of
their bounds are folds over sets and sequences. `FoldTheorems` proves of them what is
needed (`SumIs`, `SumsAgree`, `OneTermDiffers`, `Extremes`, ...), not by the library's
induction rules, which take an operator as a parameter and are out of the provers' reach,
but by induction over a set: the numbers `n` for which all subsets of size `n` have the
property are a set of naturals that holds zero and is closed under successor
(`NatSetInduction`, `SubsetInduction`).

Only model-checked: the liveness property `QuorumCloses`, since the prover has neither
`ENABLED` nor liveness, and the seven refutations of section 5.

## 5. Where code and documents disagree

* `cancelled`: the table gives `cancelled` no way out; `recordDecision` never looks
  at the intent, so deciding the request a revocation left open makes it ready.
* `rejection`: "rejects intent on single rejection" (approval.service.spec); an
  overlapping approval that meets the quorum overwrites the rejection.
* `quorum_ready`: "when quorum is met, the intent moves to ready to sign"
  (user guide); `createForIntent` writes `pending_approval` after publishing the request.
* `tracked`: "tracked until executed on-chain" (user guide); the first poll
  without a final status completes the job.
* `restrictive`: "most restrictive merge" (ADR 004); the merged roles are the last
  rule's, not the narrowest.
* `reuse`: "revokes all sessions when a rotated refresh token is reused"
  (auth.service.refresh.spec); rotating deletes the row, so the reused token is not
  found and nothing is revoked. The test's mock returns a row that the database no
  longer has.
* `api_key`: "Create a transfer or deploy intent (JWT or API key)"
  (intent.controller); the class's `JwtAuthGuard` refuses every key before the guard
  of the method sees it.

Met while reading, and refuted by no run:

* `docs/adr/004` wants the policy version kept with each intent for replay, and the
  intent keeps one of the several that were evaluated, read after the decision
  (`SnapshotSeenOrNewer` is what holds).
* The refresh cookie has the path `/v1/auth/refresh` (auth.controller.ts:124), though
  docs/runbooks/auth.md:6 says `/v1/auth`: logout never receives it, so the session row
  survives signing out; and it is cleared for another path, so the cookie does too.
* approvals/page.tsx:65 says completed requests are listed in the second tab; for any
  status but pending the API answers an empty list (approval.controller.ts:67).
* The intent wizard's address of USDC has 39 hexadecimal digits
  (create-intent-wizard.tsx:38), which the DTOs of preview and create refuse.
* An intent that needs approval is never counted in the caps (intent.service.ts:115).
* `enqueueCronSweep`, `RolesService.assignRole` and `revokeRole` have no callers; the
  web application never calls refresh.
* `AuthProvider`'s check of an old token, when it fails, clears what another tab has
  signed in with meanwhile (auth-provider.tsx:45): that tab goes on, and its next page
  load does not.

## 6. Not modelled

* The intent wizard and the pages that only list: no state beyond their form; what
  they send is refused or handled as modelled in `IntentLifecycle` and `PolicyEngine`.
* In the Safe client, retries within one request and the encoding of the payload; in
  wallets, deployment of a Safe, the stale sweep nothing enqueues, and the two RPC
  calls that read owners and threshold apart; in notifications, the mail itself.
* Hashes, signatures and TOTP codes are outcomes, true or false; the IP allow-lists of
  api keys are left out.
* The wording of reasons and messages, pagination of the lists without a cursor.
* Configuration, health, logging, metrics, S3, migrations, infrastructure: pure I/O
  that keeps no state of the domain.

## 7. Plan

1. (done) lifecycle, engine, limits, accounts, guards, rate limits, prices,
   organizations, wallets, exports, the log and the stateful pages of the web
   application, checked, and their safety properties proved.
2. (done) the runs as behaviours of their parts, and their types.
3. The intents that `RoleAssignments` cancels composed with `IntentLifecycle`; an
   abstract promise of its own for a part that has none, such as the caps as one counter
   that is raised when a call is allowed; the deployment of a Safe.
