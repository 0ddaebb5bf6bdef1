# Blue-Collar, modelled in TLA+

Blue-Collar is a marketplace for trade workers. Workers and their reputations are
kept by Soroban (Stellar) contracts, payments go through contracts that hold money
in escrow, and a TypeScript API follows what happens on chain for the web and mobile
apps. This project models the parts where an order of events nobody tested costs
somebody money, a message or a session: all the contracts, and off the chain
every component that keeps state across an `await`, a restart or a retry. Paths below
are relative to the repository root.

## 1. The system

### 1.1 Contracts (`packages/contracts/contracts`)

Every contract is a single-threaded state machine. A call is atomic: if a check or a
token transfer fails, or an arithmetic operation panics, all of it is reverted. What
interleaves are the calls of different callers, and ledger time, which passes between
them. Contracts hold no locks and start nothing by themselves.

| component | state | operations | what is hard | correct means |
|---|---|---|---|---|
| **Escrow** (`escrow/src`) | a record per id (Active, Released, Cancelled, Disputed), the list of ids, role members, paused, schema version | initialize, grant, revoke, pause, unpause, create, release, cancel, dispute, resolve, migrate | who may end an escrow in which state; inclusive expiry; roles that change during its life; a dispute nobody can resolve | holds exactly what is open; pays each deposit once, whole, in its token, to one of its parties |
| **Dispute** (`dispute/src`) | a record per id (Open, Evidence, Decided, Settled), admin, arbitrators, paused | initialize, pause, add and remove arbitrator, file, submit evidence, decide, settle | late evidence, arbitrators that leave, rounding and overflow of a split, no time-out | a decision is final and is what gets paid; conservation to the unit |
| **Market** (`market/src/lib.rs`) | single escrows, multi-signature escrows, arbitration records, fee configuration, admin, roles, arbitrators, paused | tips, create, release, cancel, cancel expired, batch release, create/approve/cancel multisig, request and resolve arbitration of both kinds, fees, treasury, set_admin, migrate | two kinds of escrow that share one key of arbitration; verdicts, approvals, refunds that race; one balance behind all escrows; fee read late | each escrow ends once and takes out its own money; a quorum is a quorum |
| **Payment** (`payment/src/lib.rs`) | locked payments, fee, treasury, roles | pay, lock, release, refund, fee and role administration | client and admins who both settle | a locked payment leaves once, whole |
| **Fee distribution** (`fee_distribution/src/lib.rs`) | recipients and shares, collected and distributed totals per token | set recipients, collect, distribute, withdraw | rounding of shares, withdrawals against later distributions | books equal the balance up to a bounded dust |
| **Insurance pool** (`insurance_pool/src/lib.rs`) | members, claims, statistics per token | contribute, file, approve, reject, pay claim, rebalance | a claim id filed twice; a claim names no token until it is paid | a claim is paid once, on its own approval; statistics equal balance |
| **Job registry** (`job_registry/src`) | jobs and their status, roles, paused | post, assign, complete, cancel, dispute | a pause that also freezes the roles | whoever can lift a pause exists |
| **Reputation** (`reputation/src/lib.rs`) | ratings, scores, badges | review, slash, reset, award and revoke badge | a record and a list of reviews stored apart | the score is explained by the reviews |
| **Worker registry** (`registry/src`) | workers, curators, stakes, delegates, pending upgrade, categories | register, batch, deregister, stake, request, unstake, curators, set_admin, ... | stakes stored beside the profile, one balance for stakes and rewards, re-registration of an id | the contract holds the stakes, the cooldown is kept |
| Shared helpers (`types/src/helpers.rs`, `access_control/src/lib.rs`) | none of their own | require_role, require_admin, require_not_paused, split_fee | rounding and overflow of fees | fee + net = amount |

The contracts never call each other. What they share is the token contracts they call
(`transfer`), one shape of access control, and the people: the same arbitrator may
serve in several of them.

### 1.2 API (`packages/api/src`), mobile app and monitoring

Node.js handlers run concurrently; between two `await`s others run, and several
processes serve the same database (the Kubernetes deployment asks for three).

| component | state | what is hard | correct means |
|---|---|---|---|
| **Event indexer** and poller (`services/horizon-poller.service.ts`, `indexer.service.ts`) | stored events, a cursor per contract | instances that share a cursor, pages cut inside a ledger, failing records, restarts | no event is lost but by a caught failure |
| **Webhooks** (`services/webhook.service.ts`) | subscriptions and delivery logs in the database, retries in timers | a log write that fails, a subscription deleted meanwhile, a process that dies with its timers | the log tells what happened; a delivery is made or tried to the end |
| **Circuit breaker** (`clients/circuitBreaker.ts`) | state, failures, time of opening | calls that overlap a change of state, retries asleep when it opens | an open breaker lets no new load through |
| **Idempotency** middleware (`middleware/idempotency.ts`) | a stored response per key and user | two concurrent requests with one key; lapsed rows; callers without a user | a retry is answered, not carried out |
| **Sessions** (`services/auth-session.service.ts`, `auth-recovery.service.ts`, `user.service.ts`) | refresh tokens, password, reset link | refresh, login and reset that overlap | a reset ends every session at rest |
| **Job board** (`services/job.service.ts`) | jobs and applications | status read, awaited, written; two writes of one acceptance; the cascade of a deleted worker | a job is filled exactly by an acceptance |
| **Worker response cache** (`middleware/cache.ts`, `services/cache.service.ts`) | responses in Redis with a TTL | a GET that answers after the invalidation; patterns; Redis errors; writes that invalidate nothing | a stale response has a known cause |
| **Mobile offline queue** (`packages/mobile`: `cache/CacheStore.ts`, `NetworkMonitor.ts`) | queued writes on the device, sync state in memory | overlapping passes, a network lost during one, a killed app | no write is lost; double service has a known cause |
| **Alert evaluator** (`packages/monitoring/src/alerts.ts`) | a time per rule | missing samples, rules replaced or disabled under way | a rule fires exactly when its samples bear it |
| Escrow, dispute, booking and reminder services | rows that mirror an escrow; bookings; reminders | check, wait, write | (cannot run as committed: section 6) |

### 1.3 How they interact

Contract events reach the API through Horizon only: the indexer stores them and calls
`publishEvent`, where webhooks begin (`Indexer` ends at that call, `Webhooks` starts
there). The circuit breaker is in front of every Horizon call. The job runner starts
polls and purges. The mobile queue talks to the API over HTTP. Nothing else is shared:
no two of the components above write the same row or key, but for one: deleting a worker,
which changes what the cached endpoints answer, takes its applications on the job board
along. Both modules have that step (`WriteElsewhere`, `DeleteWorker`).

Web app, the rest of the mobile app, SDK, dashboards, load tests, Terraform and
Kubernetes files are user interfaces, wrappers and configuration, with no protocol to
check.

## 2. What is modelled, and how it corresponds to the code

| module | models | uses |
|---|---|---|
| `Tokens` | the SEP-41 ledgers as the contracts rely on them, and sums of amounts (external) | |
| `Access` | role lists and their checks | |
| `Fees` | `split_fee` | |
| `EscrowPromise` | abstract: what an escrow promises, with no roles, pause, disputes or time | Tokens |
| `Escrow` | the escrow contract | Tokens, Access; refines EscrowPromise |
| `Dispute`, `Market` | the dispute and the market contract | Tokens, Access (Fees) |
| `Contract` | what the six contracts below have in common: initialize, roles, pause, tokens at their address | Tokens, Access |
| `Payment`, `FeeDistribution`, `InsurancePool`, `JobRegistry`, `Reputation`, `WorkerRegistry` | one contract each: its storage and entry points | Contract (Payment: Fees) |
| `Indexer` | the API's event poller, its cursor and the indexed events | |
| `Webhooks`, `Breaker`, `Sessions`, `Jobs`, `WorkerCache`, `Idempotency` | one component of the API each | |
| `OfflineQueue`, `Alerts` | the mobile app's queue, the alert evaluator | |
| `MCEscrow`, `MCDispute`, `MCMarket`, `MCIndexer`, `MCWorkers` | small instances for TLC | |
| `MCContracts` | the six contracts over `Contract`, one deployed in each behaviour | |
| `MCPlatform` | `Webhooks`, `Breaker`, `Sessions`, `Jobs`, `WorkerCache`, `Idempotency`, `OfflineQueue` and `Alerts`, one moving in each behaviour | |
| `TokenProofs` | lemmas about transfers, totals and rounding, and an induction over sets of numbers | Tokens |
| `EscrowProofs`, `DisputeProofs`, `MarketProofs`, `IndexerProofs`, `WebhooksProofs` | lemmas and theorems about one component each | |
| `ContractsProofs` | lemmas and theorems about the six contracts of `MCContracts` | TokenProofs |
| `ServicesProofs` | lemmas and theorems about the other components of `MCPlatform`, and about all of them together | WebhooksProofs |

### 2.1 Contracts

Every entry point is one action with the entry point's name; its guard is the
conjunction of the checks of the code. A call that reverts is a step that is not
taken, so a transfer that fails or a product that overflows is a guard of the action
(`CanTransfer`, `SplitFits`, `FeeFits`). The order of checks inside a call decides
only which error is reported, and errors are not modelled; the order of effects and
transfers inside one call is not visible to others because the call is atomic.

*Representation.* A storage map is a function from ids to records or an absent value.
A role's member list, an arbitrator list and the approvals of a multi-signature escrow
never hold an address twice (each insertion is checked), so they are sets; the signer
list is not checked by the code and stays a sequence. That the caller signed the call
(`require_auth`) is what makes it the caller. `Escrow` and `Dispute` group their entry
points by the account that signs, `Call(c)`, so that a property can speak of whose call
a step is (`Callers`); `settle` asks nobody to sign. Functions that authenticate the stored
admin (`update_fee`, `set_admin`, `add_arbitrator`) need no other caller. The
timestamp is `now`, advanced by `Tick` (`clock` in Payment, `seconds` and `Second` in
WorkerRegistry). Evidence hashes are model values.

`Contract` gives its extensions `Administer(frozen, unpauser)`: whether a pause
freezes role changes, and who lifts a pause, differ from contract to contract and are
parameters. `Donate` sends tokens to the contract's address without a call; as some
contracts' books do not see that, it is part of the six.

- *Payment*: `payment` is the map of locked payments; `Pay`, `LockPayment`, `ReleasePayment`,
  `RefundPayment`, `UpdateFee`, `SetTreasury`. Only `Pay` takes the fee.
- *FeeDistribution*: `recipients`, `collection` per token; `SetFeeRecipients`, `CollectFees`,
  `DistributeFees` (all recipients in one step, each share rounded down), `WithdrawFees`.
- *InsurancePool*: `pool` is the statistics per token, `claim` the claims; `Contribute`,
  `FileClaim`, `ApproveClaim`, `RejectClaim`, `PayClaim`, `RebalancePool`. `approved` and
  `settled` record the terms of every approval and payment.
- *JobRegistry*: `registered`; `PostJob`, `AssignWorker`, `CompleteJob`, `CancelJob`,
  `DisputeJob`. Statuses change by guards alone, so what is asked of it is the pause.
- *Reputation*: `record` with sum, count and score, `reviews` the list stored apart;
  `SubmitReview`, `SlashReputation`, `ResetReputation`, `AwardBadge`, `RevokeBadge`.
- *WorkerRegistry*: `profile`, `listed` (how often an id is on the list), `counted` (the
  stored count, which `register` and `deregister` change and `batch_register` does not),
  `stakeInfo`; curators, `Register`, `BatchRegister`,
  `Deregister`, `Stake`, `RequestUnstake`, `Unstake`, `SetAdmin`.

*Left out of the modelled contracts:* events; `upgrade` (it replaces the code the model
describes); TTL extension and archival of entries; `created_at`, `updated_at` and
other fields that only report; view functions; token contracts that do not follow
SEP-41 (in particular ones that call back into the contract); payments to the
contract's own address; donations to escrow, dispute and market. Of the registry also:
what a profile says (name, category, delegates, reputation, badges, subscription,
...), categories, and the upgrade time lock.

*Faithful to details that are easy to idealise:* `create_escrow` of the escrow contract
works before `initialize`; a depositor may be the beneficiary, and a disputer the
respondent (then every piece of evidence goes into the disputer's slot); `split_bps`
is stored for every outcome but checked for a split only; a market escrow's expiry may
lie in the past at creation; `batch_release_escrow` takes no fee; an arbitration fee of
a multi-signature escrow that is not positive is recorded and not paid, while that of
a single one goes to the token, which refuses a negative one; `resolve_arbitration`
looks at neither the pause nor the escrow's state. The insurance pool's `initialize` overwrites
the statistics of contributions made before it, and its `saturating_sub` on `i128` does not
stop at zero; the registry's `register` does not look whether the id is taken, `deregister`
leaves the stake behind for whoever registers the id next, and a stake entry keeps the
token of the first stake whatever is staked later.

### 2.2 Off the chain

Here an action is what a handler runs between two awaits, so that two requests,
two instances or a timer and a request interleave exactly where the event loop or
another process lets them. Each await may fail; a process that dies forgets
everything but the database.

- *Indexer*: `job[p]` is where instance `p` stands in its poll. `Tick` is
  `JobRunner.execute` and the read of the cursor, `Fetch` the page from Horizon, `Ingest`
  and `Publish` one record's upsert and announcement, `Reread` and `Advance` the two
  calls inside `updateCursor`. `SkipRecord` and `PublishFails` are the two catches inside
  the loop, `Abandon` the one around it and also the death of the process. A page is
  the set of its events and the loop takes the least. How often an event is announced
  is abstracted: an announcement that is repeated adds nothing to `published`.
- *Webhooks*: `publication[p]` is a `publishEvent` in its loop over subscriptions,
  `delivery[d]` one `deliver`. `CreateLog`, `Post`, `LogAnswer`, `LogError`, `TimerFires` are
  its steps; every log write has a failing twin. A delivery by timer whose two log
  writes fail rejects with nobody to catch it, which ends a Node 20 process: `ProcessDies`.
- *Breaker*: `call[c]` is one `execute`. Time is the one bit the code asks for, whether
  `resetTimeoutMs` have passed (`cooled`).
- *Sessions*: `request[r]` remembers what a handler has read. `Rotate`, `RevokeOld` and `Hand` are
  `rotateRefreshToken`; `ResetPassword`, `RevokeAll`, `WriteReset` are `resetPassword`. Passwords
  are versions; `proof[t]` is the version a token's login verified.
- *Jobs*: `handler[r]` remembers the status a request read. A look-up that only
  establishes that a row is there belongs to its write. `NamesAnotherJob` and `AcceptsElsewhere` are the
  two halves of a request whose job id and application id do not belong together, which
  nothing compares. `DeleteWorker` is the deletion of a worker's row (`bulkDeleteWorkers`,
  `purgeExpiredSoftDeletes`), which takes the application along by the schema's cascade and
  leaves the job as it is.
- *WorkerCache*: a response is the number of writes it was computed from; `reader[r]` is a
  GET that missed and is about to store, `writer[w]` a write of one of the four handlers of
  `controllers/workers.ts` that delete cached responses, with the keys it has yet to delete.
  `WriteElsewhere` is every other write of what the worker endpoints answer: it deletes nothing.
  `handled` is the version the last write of the four made.
- *Idempotency*: one key of one caller; `post[p]` is each request that carries it.
- *OfflineQueue*: `pass[p]` is a run of `processQueue` with what is left of its snapshot;
  `Serve` is the server's side of a request. `Reconnect`, `Disconnect`, `FirstEvent` are
  `handleNetworkChange`, `Relaunch` a kill and a new start.
- *Alerts*: `breachingSince` is the evaluator's state, `samples` the history it summarises.

*Left out:* payload signatures, queries, notifications, `reconcileEvents`, `ingestBatch` and
`cleanupOldEvents` of the indexer (no caller), registration, OAuth and device rows of sessions,
exact-key deletions of the cache (no worker handler calls them), the app's read cache.
`AlertEvaluator` itself has no caller outside its tests; it is modelled as the library it is.

## 3. What is checked

| run | instance | distinct states | what it shows |
|---|---|---|---|
| `escrow` | 3 accounts, 2 tokens, 2 ids, amounts 0..2, one tick; tokens and ids symmetric | 45,725 | types; solvency; every wallet explained by the records; every change of an escrow is a call of somebody entitled to it then; a pause freezes the money; refinement of `EscrowPromise` |
| `escrow_live` | 1 id, 2 ticks | 4,941 | active and disputed escrows end |
| `dispute` | 2 disputes of 3 units, splits 0, 3334, 10000, 20000, products above 29999 overflow | 67,679 | types; solvency and wallets to the unit; only an arbitrator then in office decides; decisions are final and settled |
| `market` | 2 ids used by both kinds of escrow, all expired, no pause; ids symmetric | 220,572 | where a deficit can come from, quorum, multi-signature escrows end once |
| `market_live` | 1 id, pause, one tick, fees that change and overflow, a threshold out of reach | 171,749 | closing pays, what a pause leaves, every escrow ends |
| `contracts` | 3 accounts; per contract below | 887,257 | books equal balances; a claim is paid once per approval; scores follow from reviews; pauses can be lifted |
| `indexer` | 2 API instances, 2 ledgers of 2 events, pages of 3, at most 2 faults | 108,114 | nothing is lost but by a caught failure; announced events are indexed; every event settles |
| `platform` | per component below | 309,224 | webhook logs are true and deliveries get their due; resets end sessions; queued writes are served; jobs are filled by acceptance; stale responses, alerts, repeated requests have no other cause; an open breaker drains |
| `market_paid_twice` | 1 id, pause, one tick, amounts of 20 | violated | finding 1 |
| `market_key_collision` | as `market_paid_twice` | violated | finding 2 |
| `registry_stakes` | 2 stakers, 1 token, 3 seconds | violated | finding 3 |
| `indexer_missed` | as `indexer` | violated | finding 4 |

*Two runs for fourteen components.* The contracts over `Contract` never call each other, and
the components of `MCPlatform` share no state, so interleaving them would multiply states and
show nothing. `deployed` and `subject` choose, in the initial state, which one moves; the
state space is the sum of theirs, and each property speaks of its own.

*Why the bounds are enough.* The contracts treat ids, accounts and tokens uniformly, so
an error in what one call does to the records shows with two ids: one whose money is
taken, one whose record is touched. Two tokens are needed where money might leave in
another escrow's token. Amounts include a refused one (0) and one that does not split
evenly: a third of 3 units, and fees of 20 and 40 that are exactly 1. `Supply` lets each account
pay for the escrows of the instance and no more, so that failing transfers occur. One tick
suffices for "before" and "at" expiry; the liveness run of the escrow has a second one, so
that an escrow which would expire one second late is seen to be stuck at the end of time.
Roles that the interesting interleavings need may be granted and revoked; in `market` the fee
is fixed and nobody may pause, because `market_live` varies them: there the product of the
higher legal fee overflows, so that a release fails until the fee is lowered, and
`EscrowsEnd` rests on the refund. The proofs (section 5) lift
these bounds from every safety property.

In `contracts`: two locked payments and one direct one, fees of 0 and 250 basis points, 500
whose product with the amount overflows, and 600, above the cap; splits that round, that
name one account twice, and one short of the whole; a claim id that is filed again and
approved up to twice; a premium above its cap; ratings of zero, in between, and above the
maximum; an id of the registry that is on the list up to twice, enlisted alone or in a batch, two owners, two tokens for
mixed stakes, and a reward of exactly one unit for a stake held one second, the
cooldown. One donation (`MaxDonations`) per behaviour separates what the books see
from what the balance holds.

In `platform`: three attempts as in the service, two subscriptions so that one's death takes
the other's delivery along, two faults (a log write and its repetition); three concurrent
calls and a threshold of four instead of five, which they reach only over several rounds;
two concurrent requests and two refresh tokens, one changed password; two queued writes and up to
three passes over them (three writes in a queue of two, with three passes, were checked
once in an instance of their own: 3.25 million states, no error); two applicants, two
requests; two readers and two writers of the cache with up to two writes; a clock of four units
for a rule that fires after two; three requests with one key.

For the indexer two instances are enough for a stale write of the cursor, and TLC does
move it backwards there (`updateCursor` compares with what it read, "only if we're moving
forward", and writes later): it costs fetches and repeated webhooks, no event. The page
of three ends inside the second ledger. Two faults (`MaxFaults`) allow a failure and a
restart, or one in each instance. Ledgers are smaller than a page on purpose: a poll
starts at the cursor's ledger, so a ledger with as many events as a page (100) is fetched
again and again, and `EventsSettle` fails with `Limit = 2`, as a trial run shows.

*Deadlock* is checked for the indexer only. When every escrow is closed, money spent and time
at its bound, nothing needs to happen; the components of `MCPlatform` come to rest when
their bounded requests are done.

*Fairness.* Nothing in a contract runs by itself, so fairness is about callers, and only
as much of it is assumed as the property is about. `Tick` is weakly fair: ledgers close.
Strong fairness of `cancel_escrow` by the depositor, `resolve_dispute` by whoever is
arbitrator, `settle` and `cancel_expired_escrow` by anybody, and
`cancel_multisig_escrow` by the payer stands for a caller that wants its money and
tries again whenever the call can succeed; strong because a pause may come between any
two attempts. No fairness is given to administrators, beneficiaries or signers. Each
property of a contract names what else it needs: that the contract is not paused for good, that
there keeps being an arbitrator, that the split does not overflow, that the contract
is solvent. The indexer does run by itself: each instance's interval fires and each await
returns (the Horizon client times out after ten seconds), so `Proceed(p)` is weakly
fair. Likewise `Deliver(d)` of `Webhooks`: a fetch returns or times out, a timer
fires, as long as the process lives. That faults are finitely many is the bounds
`MaxFaults` and `MaxWebhookFaults`. The other components of `MCPlatform` and the six contracts of
`MCContracts` promise nothing that must eventually happen, and have no fairness.

*Refinement.* `Escrow` implements `EscrowPromise` under the mapping written out in
`Promise == INSTANCE EscrowPromise WITH ...`: `deal` and `fate` are derived from the
records, disputed and active both being an open deal.

### 3.1 What the violation runs found

1. **An arbitrated escrow can be paid twice** (`market/src/lib.rs:1122`).
   `docs/CONTRACT_SECURITY.md:47` says an escrow "cannot be both released and cancelled —
   status is checked before each". `resolve_arbitration` checks the arbitration record
   only. If the parties release (or, after expiry, cancel) while arbitration is
   pending, the verdict transfers the amount again, out of what other escrows
   deposited. `OnlyArbitrationLeaks`, which holds, says that this is the only way
   in which the market comes to hold less than it owes, and `EscrowsEnd` has to assume
   solvency because of it.
2. **Two kinds of arbitration, one key** (`market/src/lib.rs:898`).
   `packages/contracts/SECURITY.md:110` says typed keys prevent collisions. A single and
   a multi-signature escrow may carry the same id, and both store their arbitration under
   `DataKey::Arbitration(id)`; the judge of one may close the other with
   `resolve_arbitration`. `MultisigEndsOnce` shows that the opposite direction is
   harmless for escrows already closed.
3. **Rewards are paid out of the others' stakes** (`registry/src/lib.rs:1296`).
   `docs/CONTRACT_SECURITY.md:21` says "Staked tokens are always held by the contract until
   `unstake` after cooldown". `unstake` transfers stake and reward from the one balance that
   holds all stakes, and nothing funds rewards: with two owners who staked 20 each, the first
   to leave takes 21, and the contract owes 20 while holding 19. The second's `unstake` then
   fails until somebody sends it tokens. `StakesExplained`, which holds, says that rewards
   and stakes recorded in another token than they were made in are the only causes.
4. **A failing record is lost** (`services/horizon-poller.service.ts:87`). The header, line 6,
   promises that "no events are missed". A record whose upsert throws is logged and
   skipped, a later record of a later ledger moves the cursor past it, and nothing
   fetches it again. `NothingElseLost`, which holds and is proved, says that failures
   caught inside the loop are the only losses.

### 3.2 Other differences between text and code, without a run of their own

*Market.* Arbitration goes on during a pause (`market/src/lib.rs:1063, 1122`), although line
172 says all state-mutating functions revert; `PauseLeavesOnlyArbitration`, which holds, bounds
what a pause leaves running. `docs/CONTRACT_SECURITY.md:44` wants exactly `threshold`
approvals of distinct signers, but the list may name a signer twice, and a judge may
release without any.

*Insurance pool.* `docs/CONTRACT_SECURITY.md:100` wants `total_balance ≥ total_claims_paid`.
`pay_claim` takes the amount off the one and adds it to the other (`insurance_pool/src/lib.rs:486-487`),
so that the pool breaks this once more than half of what came in was paid out; what
holds is that the balance is the contributions less the claims paid (`PoolReconciles`).

*Dispute.* `docs/CONTRACT_SECURITY.md:70` exempts `settle` from the pause, the code does not
(`dispute/src/logic.rs:246`); line 63 there has evidence before every decision, the code
decides open disputes too. A dispute that nobody decides stays locked.

*Worker registry.* Ids are said to be unique and the worker count to be the live workers
(`docs/CONTRACT_SECURITY.md:17-18`); `register` replaces the profile of a taken id and lists
it again, and `worker_count` counts both. `batch_register` counts nobody
(`registry/src/lib.rs:1081-1147`), and `list_workers_page` (1563) reads the list only as far as the
count goes, so that workers enlisted in batches leave the end of the list on no page.
That the count never goes beyond the list, where the page would panic, is a part of
`WorkersTypeOK`. The new owner gets the stake (and the
delegates) of the old. A lone staker cannot unstake once any reward has accrued.
`stake`, `unstake` and `batch_register` work during a pause ("blocking all state-mutating
operations", `registry/src/lib.rs:252`), and `set_admin` gives the stored admin's
role away, or back, even then and even if that admin's role was revoked.

*Fee distribution.* `docs/CONTRACT_SECURITY.md` has no dust left and lets `withdraw_fees` take only
what is undistributed; shares are rounded down one by one, and `withdraw_fees` looks at no
books at all, so that a later distribution can be short and fail. `FeesCovered` bounds the
dust and accounts for withdrawals. Fees sent straight to the address are not distributable.

*Pauses.* In fee_distribution and insurance_pool role changes are frozen and the pause is lifted by an
admin, and nothing keeps the last admin from being revoked before: such a pause is for
ever. `PausesCanBeLifted` shows the same cannot happen where a pauser lifts it.

*Others.* The poster of a job can cancel it while it is disputed, where the comment
(`job_registry/src/logic.rs:197`) says open or assigned. A review after a slash recomputes the score and
undoes it. Anybody may file a claim under a taken id and so discard an approval
(`OneApprovalOnePayment`: it is never used for another). Release and refund of a
locked payment take no fee.

*Off the chain.* The look-up of an anonymous caller's idempotency key never hits
(`middleware/idempotency.ts:11`), a hit renews the row's expiry because the stored answer
passes the same wrapper, and the key is tied to neither route nor body. No pattern
matches `cache:/api/workers` itself, so only its TTL ends a stale list. `invalidateWorkerCache` is to be
called "after any write that modifies worker data" (`services/cache.service.ts:183`) and nobody
calls it, nor `invalidateRatingCache`; an administrator's moderation, toggle and deletion, the CSV
import, the registration on chain, reputation, availability and reviews invalidate nothing, so that
a deleted or rejected worker is served until the TTL. `routes/workers.ts:29-32` imports
`createWorkerRules` and `cacheMiddleware` twice, and a `TTL` that `middleware/cache.ts` does not
export: as committed the module does not load. `WorkerCache` describes the handlers and the
middleware as they behave once the imports are mended. A job whose accepted worker is
deleted stays filled with nobody accepted. A webhook retry whose
two log writes fail (a subscription deleted meanwhile is enough) rejects unhandled, and all
pending retries die with the process. After a relaunch nothing sends a left-over queue
before the next queued write or reconnect ("syncs on reconnect", `packages/mobile/README.md:68`).

## 4. Modules, in reading order

`Tokens`, `Access`, `Fees` first (one page), then `EscrowPromise` and `Escrow`; `Dispute`
and `Market` read alike. `Contract` and any of the six modules over it. Off the chain
each module stands alone: `Breaker` and `Idempotency` are the shortest, `Indexer` and `Webhooks`
the richest. Each module states its properties at the end, with one type invariant. Operators
introduced by `\* mutant:` are plausible slips in the code (a dropped guard, an off-by-one,
swapped parties): putting one in the place of the operator after it breaks a property,
which shows that the property watches that code.

## 5. What is proved

With TLAPS. For the contracts: for any accounts, tokens, ids, amounts, roles and bounds that
satisfy `ConstantsOK` (the contract's address is nobody's account, an absent record is no
record, amounts are integers; neither finiteness of the ids, those of the worker registry aside, nor fairness is assumed) and
the named assumptions of the six contracts (`PaymentAssumption` and its like).
Off the chain: for any values of the constants within the named assumption of the module
(bounds are naturals, a retry count is positive, ledgers ascend in event order).

| theorem | says |
|---|---|
| `EscrowProofs!TypeCorrect` | `Spec => []TypeOK` |
| `EscrowProofs!AlwaysSolvent` | `Spec => []Solvency` |
| `EscrowProofs!WalletsAdd` | `Spec => []WalletsExplained` |
| `EscrowProofs!DepositsAreThere` | always, the deposit of an open escrow can be transferred out of the contract |
| `EscrowProofs!PausedMoneyStays` | `Spec => PauseFreezes` |
| `EscrowProofs!AuthorityEnds` | `Spec => EscrowEndsByAuthority` |
| `EscrowProofs!KeepsPromise` | `Spec => ImplementsPromise` (refinement) |
| `DisputeProofs!TypeCorrect`, `DecisionsJudged` | `Spec => []TypeOK`, `Spec => DecidedByArbitrator` |
| `DisputeProofs!AlwaysSolvent` | `Spec => []Solvency` |
| `DisputeProofs!AmountsAreThere` | always, the amount of a dispute not yet settled can be transferred out |
| `DisputeProofs!DecisionsStand` | `Spec => DecisionFinal` |
| `DisputeProofs!OverflowsStick` | a decided split whose product overflows stays decided for ever |
| `IndexerProofs!TypeCorrect` | `Spec => []TypeOK` |
| `IndexerProofs!NothingElseIsLost`, `AnnouncedAreIndexed` | `Spec => []NothingElseLost`, `Spec => []AnnouncedIsIndexed` |
| `DisputeProofs!WalletsAdd` | `Spec => []WalletsExplained` |
| `MarketProofs!TypeCorrect` | `Spec => []TypeOK` |
| `MarketProofs!LeaksByArbitration` | `Spec => OnlyArbitrationLeaks` |
| `MarketProofs!SolventUnlessPaidAgain` | `Spec` in which no verdict pays an escrow again `=> []Solvency` |
| `MarketProofs!SolventCanPay` | always, if solvent, the amount of any open escrow can be transferred out |
| `MarketProofs!QuorumReleases`, `MultisigsEndOnce` | `Spec => ReleasedByQuorum`, `Spec => MultisigEndsOnce` |
| `MarketProofs!ClosingAlwaysPays`, `PauseFreezesAllElse` | `Spec => ClosingPays`, `Spec => PauseLeavesOnlyArbitration` |
| `ContractsProofs!ContractsTypeCorrect` | `Spec => []ContractsTypeOK` |
| `ContractsProofs!BooksMatch` | `Spec => []BooksMatchBalances` |
| `ContractsProofs!ApprovalsPayOnce` | `Spec => []OneApprovalOnePayment` |
| `ContractsProofs!ScoresFollow`, `PausesLift` | `Spec => []ScoreFromReviews`, `Spec => []PausesCanBeLifted` |
| `WebhooksProofs!LogsAreTrue` | `WebhooksSpec => []FinalLogIsTrue` |
| `ServicesProofs!ResetsEndSessions` | `SessionsSpec => []ResetEndsSessions` |
| `ServicesProofs!AcceptancesFill` | `JobsSpec => []FilledByAcceptance` |
| `ServicesProofs!OpenBreakerDrains` | `BreakerSpec => OpenDrains` |
| `ServicesProofs!StaleResponses` | `CacheSpec => [](CacheTypeOK /\ StaleExplained)` |
| `ServicesProofs!RetriesAreAnswered` | `IdempotencySpec => [](IdempotencyTypeOK /\ CarriedOutOnce)` |
| `ServicesProofs!QueueKeepsItsWord` | `OfflineSpec => [](OfflineTypeOK /\ ServedAsQueued)` |
| `ServicesProofs!VerdictsAreBorne` | `AlertsSpec => [](AlertsTypeOK /\ VerdictFromSamples)` |
| `ServicesProofs!PlatformComposes` | `MCPlatform!Spec` implies the specification of each of its eight services |
| `ServicesProofs!PlatformTypeCorrect`, `PlatformSafe` | `Spec => []PlatformTypeOK`, and every safety property above for `Spec` |

The services are proved one by one, each about its own specification (their type invariants
are `WebhooksTypeCorrect`, `SessionsTypeCorrect`, `JobsTypeCorrect`, `BreakerTypeCorrect`,
or part of the theorem above). `PlatformComposes` carries the results over to the
specification that the `platform` run checks.

*Contracts.* `TypeOK` of the escrow contract is inductive. `Solvency` is not: its sum
ranges over the open escrows, and that opening or closing one changes the sum by
one record needs the set of open escrows to be finite. The inductive invariant
`CustodyInv` adds that, as a statement about the units below, so that it holds for
infinitely many ids as well; `WalletsInv` does the same for what each account put in and
got out. The dispute contract's settlement pays a part to each party, so its
types depend on a decision never giving anybody more than the whole: `BaseInv` is
`TypeOK` together with `DecisionsChecked` (a decided record names an arbitrator and shares
out no more than the whole), and `CustodyInv` adds the sum. Its
`WalletsInv` says for every account that the balance and what it filed are the supply
and its shares of what was settled; a settlement moves one dispute between the sets, and
nobody's share of a settled dispute changes again. Refinement of the escrow
uses the type invariant and one lemma for each of the three ways money moves.

*Sums without recursion.* The provers have no induction over data, so a sum is not
defined recursively: an escrow worth n stands for n units `<<i, 1>> .. <<i, n>>`, and
the total of a set of escrows is the cardinality of all their units. Adding or removing
one escrow adds or removes a disjoint block of units (`TotalAdd`, `TotalRemove` in
`TokenProofs`), which is all that conservation needs; TLC evaluates the same definition.

*What an ending needs.* Liveness itself is out of the provers' reach, but what would block
it is not: no item is worth more than the total (`TotalCovers`), so solvency means that
the transfer that ends an escrow, or settles a dispute, is always possible
(`DepositsAreThere`, `AmountsAreThere`, `SolventCanPay`). What the liveness
properties still assume is that somebody entitled to asks, that the contract does not stay
paused, and what section 3 says of fees and splits. `OverflowsStick` is the other side:
the exception that `DecidedSettles` makes is a dispute lost for good, not one delayed.

*The market.* `MarketInv` is the types, that the units in escrow are finitely many in either
kind, that an administrator exists only after initialization, and that a multi-signature
escrow is approved by accounts on its list. It does not say that the contract is solvent,
for it need not be: the proof is about steps. Each action opens an escrow and takes its
amount in, closes one and pays its amount out, or leaves both alone (`Balanced`), or is a
verdict on an escrow that is no longer open (`Overdraws`); a batch release takes out the
total of the set it closes. `OnlyArbitrationLeaks` is that case split, and
`SolventUnlessPaidAgain` turns it around: finding 1 is the only way in which the market comes to
owe more than it holds.

*The six contracts.* `ContractsInv` says of the contract that is deployed that its own
invariant holds. `PaymentSound` counts the units of the locked payments, as for escrows.
In `DistributionSound` one step pays any number of recipients, so that its books need
the sum of the rounded shares of a split to miss the amount by less than one per share:
an induction, over the *set* of the lengths for which it holds (`LeastElement`,
`SetInduction`, `RoundedSums` in `TokenProofs`), because the provers cannot instantiate
the library's induction theorem, whose parameter is an operator. `PoolSound` ties every
approval given to one used up or still carried by the one claim with these terms
(`ApprovalsCount`), and knows that nothing was paid nor struck out before `initialize`,
which writes over the statistics. `ReputationSound` bounds the sum of the reviews since
the reset by their number, without which the mean could leave its range. `RegistrySound`
adds to the types that a pause leaves a pauser, and `WorkersSound` that the balance,
rewards taken out and mixed tokens account for the stakes; the count stays within the
list because what the list holds is again a number of units. The theorems assume, as the
instances do, that a treasury is an account and not the contract itself.

*The indexer.* That the cursor passes nothing depends on what every poll in
progress holds in its hands, so `IndInv` adds `PollSound`: whatever lies behind the
position a poll would write, and whatever its loop has left behind, is settled, and
the record about to be announced has its row. A page has no holes (`PageDense`, by
counting), so a poll that starts from a sound cursor skips nothing; and as settled
events stay settled, an old position written late is as sound as when it was computed.

*Webhooks.* That `posted` stays within `MaxAttempts` rests on the attempt a delivery remembers
and on a delivery beginning once, so `WebhooksShape` is the types, that count, and that
what a publication has yet to create has not begun. `WebhooksInv` adds `Truthful(d)`: at
each point of an attempt, what the row may say given what was posted and taken.

*Sessions.* A reset is three steps; between them, tokens it should have ended may be
created. `SessionsInv` says of every state in between which live tokens and which requests
in flight are marked as overlapping it (`ResetCovered`, `RenewalsExplained`), and that no
reset wrote a later password than the current one.

*Job board.* Types need that an application exists only with its job. Beyond that
`JobsInv` says that a request about to fill a job comes from an acceptance, and that
whoever overwrites a filled job has marked it (`RequestsSound`), unless parted; once
parted, always parted (`StaysParted`).

*Middleware.* `OpenDrains` follows from the breaker's types; `StaleExplained` is inductive with
the cache's types and the fact that no write of the four handlers is later than the last of
all (`handled <= version`); of idempotency, `OneAtATime` says that without overlap and loss at most
one request is past the look-up and the others find its answer.

*The offline queue.* What is lost or sent twice is decided by passes over snapshots that are
long out of date. `PassesApart` says that a second pass is under way only after a
disconnect that found the first one running, and that whatever two passes hold is
`shared`; `NoResend` says of an action already carried out that the pass that sent it is
about to hear of it, or nobody will send it again, or the app could not learn of it. The
queue needs both: an acknowledged action may still be in another snapshot only if it
is shared.

*The alert evaluator.* The samples a rule has seen may be any number, and the evaluator
keeps one time. `SinceExplained` says that this is the time of the sample at which the
breaches at the end of the history begin (`RunBegins`), or that there are none; as samples
are in the order of time (`InOrder`), no other run of breaches that ends there is longer
(`FinalRun`), and the verdict is the one the history bears. No induction is needed: a
sample extends the run or ends it.

*Only model-checked:* liveness (`ActiveEnds`, `DisputeEnds`, `DecidedSettles`, `EscrowsEnd`,
`EventsSettle`, `DeliveriesGetTheirDue`): it rests on fairness, which involves ENABLED,
outside what the provers do. Every invariant and every action property of a passing
run is a theorem.

## 6. What is left, and what is not modelled

Every safety property of the passing runs is proved. To model and prove next: the rest of the worker registry, that is delegates and their
expiry, and the time lock of upgrades against the direct upgrade.

*Not modelled, and why.*

- API escrow, dispute, booking and reminder services: as committed they cannot run.
  `requireNotPaused` of the escrow service throws on every call, bookings read a
  `userId` that the schema's Worker does not have, reminders read User columns it does not
  have. Their read-wait-write races would be properties of states the program is never in,
  and so would a composition of the escrow's row with the escrow's contract.
- The access-control crate: no contract depends on it; the contracts' own copies are modelled.
- Search, notifications, reviews, categories and other CRUD: one statement to the database per
  request, and no protocol between requests.
- Web app, rest of the mobile app, SDK, dashboards, load tests, deployment: user
  interfaces, wrappers and configuration. They are the larger part of the
  repository's lines.
