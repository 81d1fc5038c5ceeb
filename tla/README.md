# ClaimRail in TLA+

ClaimRail watches wallets on the Somnia chain for settled DreamDEX binary
markets, prepares claim plans that the owner submits from a wallet, reconciles
the submitted transactions with the chain, and notifies subscribers (webhook,
browser push, telegram) of what happened.  It is a TypeScript monorepo: a web
application and a worker share a PostgreSQL database, and nothing but rows of
that database coordinates them.  This directory models the part of the system
where that coordination is hard: the leased queues and the lane that drains
them, the retries, and the planning and reconciliation of claims against a chain
that moves.

Paths below are relative to the repository; `db/` stands for
`packages/db/src/`, `worker/` for `apps/worker/src/`, `dreamdex/` for
`packages/dreamdex/src/`.

## Inventory

| Component | State | Operations | What is hard, what must hold |
|---|---|---|---|
| Transactional outbox, `db/jobs/repository.ts` | `outbox_jobs`: status, attempts, lease, `available_at` | `leaseNext`, `complete`, `fail` | Processes die with a lease; `fail` reads and writes in two statements; only the worker id fences a report. A job is completed only after its event was routed, is retried a bounded number of times and never reopened. |
| Deliveries, `db/repositories/deliveries.ts` | `deliveries`, `delivery_attempts`, and `subscriptions.active` | `materializeEvent`, `leaseNext`, `complete`, `fail`, `replayDead`, `enqueueTestNotification` | Answers that arrive after the lease; two replays at once; subscriptions that go away. No late report counts for another attempt; delivered is final; dead is justified. |
| Delivery dispatch lane, `worker/jobs/delivery-dispatch.ts` | the row it holds | one pass per cycle: a delivery, or else an outbox job | The catch block runs `fail` after a `complete` that may have committed. |
| Claims, `db/repositories/claims.ts` | `claims`, `claim_transactions`, canonical events and outbox rows | `persistReadyPlan`, `recordSubmission`, `leasePendingTransaction`, `deferReconciliation`, `completeReconciliation` | Aggregation over batches at READ COMMITTED, two workers. One verdict and one event per batch; the claim agrees with its batches. |
| Claim receipt lane, `worker/jobs/claim-receipt.ts`, `dreamdex/receipts/service.ts`, `dreamdex/chain/gateway.ts` | the batch it holds, what the chain answered | lease, read receipt, look the transaction up, count the nonce, compare evidence, settle or defer | The chain moves between the calls. The verdict is what the chain says for good. |
| Wallet scan, `worker/jobs/wallet-scan.ts`, `dreamdex/services/claimrail.ts`, `dreamdex/reconcile/market.ts`, `db/repositories/state.ts` | markets, positions, canonical events; what the scan has read so far | `readWallet` (discover rows, read each market and balance, reconcile), `persistWalletTransition` | Indexer and chain move between the calls; a scan dies between two positions; two processes scan one wallet. Only what was claimable is announced, once, and nothing claimable is missed. |
| Runtime, `worker/runtime.ts`, `worker/config.ts` | heartbeats | `runCycle` joins four lanes, `runUntilStopped` repeats it | A call that never returns stops every lane; worker ids must be distinct. |
| Subscriptions and access, `db/repositories/subscriptions.ts`, `db/repositories/access.ts` | bindings, challenges, subscriptions | issue and consume challenges, activate, relink telegram | Single use of a challenge; one active telegram chat per owner. |
| Transports, `worker/*-transport.ts` | none | send one message | Timeouts, terminal answers. |
| Claim planner, `packages/core/src/claims/planner.ts`, `dreamdex/claims/service.ts` | the plan | `prepare`, `prepareClaimPlan`, simulation of each batch | The evidence is read at several blocks; batches share one backing but are simulated alone; rows may be listed twice. A plan takes all there is and its batches can be executed together. |
| Settlement payout, positions, market lifecycle, `packages/core/src/` | none (pure) | payouts, position states | Division that truncates, what makes a position claimable. |
| Web application, contracts, client | pages, HTTP schemas | prepare, submit, list, replay | The browser broadcasts and then records, and may die in between. |

The worker's lanes call the repositories; the repositories share only rows.  A
claim that settles inserts an event and an outbox row in its own transaction;
the dispatch lane turns that row into deliveries (`materializeEvent`) and sends
each delivery under its own lease.  Owners act concurrently through the web
application: they verify and unlink subscriptions, replay dead deliveries and
submit batches.

## Modules

`OutboxQueue` - the outbox and the lower half of the dispatch lane.  A row of
`outbox_jobs` is spread over the variables `status`, `attempts`, `leaseOwner`,
`leaseExpired` and `available`; each process has a program counter `stage` over
the calls of the lane (`materialize`, `complete`, `fail`, and `failWrite`
between the two statements of `fail`), the job it `held` and the `verdict` that
`fail` read.  One action is one statement, or one transaction whose
effects appear at once.  `routed` is a history variable: the jobs whose event
was materialized by a committed transaction.

`DeliveryQueue` - the deliveries and the upper half of the lane.  Beside the
columns it has the attempt log `attemptRow`, the `active` flag of the
subscriptions, the endpoint's view (`accepted`, `gone`: the attempts it took
and the attempts it answered with a terminal error), the routes an open
`materializeEvent` has `selected`, and for every owner's replay request the
delivery and the `max_attempts` its unlocked read computed.  `Dispatch` lets the
endpoint accept and answer, accept and lose the answer, refuse, or say it is
gone (`BrowserPushExpired`, `TelegramDestinationRevoked`).

`ClaimReconciliation` - one claim plan and its batches.  `chain` is the fate of
each batch's transaction (not broadcast, in the pool, dropped by the node,
replaced by another with its nonce, or mined: redeemed with matching evidence,
with other evidence, or reverted).  The lane's three chain reads are separate
steps, and so are the statements of `completeReconciliation`: `SettleRow`
(update of the row, visible to itself only, keeping the row locked),
`ReadTotals` (the count by status, which sees committed rows and its own) and
`Commit`.  `Locked` gives `skip locked` its meaning and makes other updates
of the row wait.

`WalletScan` - one wallet, one market.  `chain` is the sequence of blocks (result,
finalized, balances) and `indexer` the prefix the indexer has processed, so that
what a call returned is just the number of a block: `seen` holds it for each
call of `readMarketBundle`, `seenBalance` for each balance.  A scan discovers
rows (`Discover`, or `DiscoverPart` when paging stops early), reads the market,
then its settlement, then the balances, keeps the positions on which all
readings agree (`MarketAgrees`, `Redeemable`, `Candidate`) and persists them one
transaction at a time (`Persist`): `row` and `marketRow` are overwritten,
`events` grows by the semantic id `EventId`.  `row` keeps the block and the balance of a
position, `marketRow` the block.  What is compared but never differs in an honest
deployment (addresses, token ids, nonces, backing) is left out, and the
chain node is taken to be one node that never goes back.

`SubscriptionAccess` - the challenges of one owner.  A row of
`notification_bindings` is spread over `status`, `proof` (which of the two
hashes it holds) and `expired`; `active` are the active rows of `subscriptions`
as pairs of kind and destination.  Each of `Requests` is a request of the web
or of telegram's webhook, at a `stage` between two statements: a challenge is asked for
(`Ask`, the look for a verified webhook), the live rows are revoked (`Replace`)
and the new one inserted under the partial unique index (`Insert`); a proof is read
(`VerifyRead`), signed, and consumed in one update (`Activate`) or, for telegram, read
again and turned into a link token (`MarkRead`, `Mark`); a link is read, bound, the other
chats switched off, and committed (`LinkRead` to `LinkCommit`).  `Locked` are the rows of an open
transaction, for which other updates wait, and what a transaction changed is
visible to others only after its last step.  `verified` and `linked` count
how often a proof was answered with success, and `overtaken` are the requests for a webhook during which another one was activated.

`BoundedRetry` - what both queues promise, without leases, ids or statements: an
item is absent, waiting, working, done or dead, has a number of tries left, is
done only after its effect took place, and given up only without tries or on
the word of the other side.  `OutboxQueue` and `DeliveryQueue` instantiate it as
`Queue`: `Phase` maps the status of a row, an attempt that was counted is a try
that was used, and the effect is the routing of the event (`routed`) or an
acceptance by the endpoint (`accepted`).  A lease is `Start`, also of a row whose lease
expired; a replay is `Requeue`; everything a late reporter does is a stutter or the `Perform` of
an effect that takes place once more.

`ClaimLedger` - what the owner of a claim is promised.  An entry goes from none to
pending to one verdict, which the fate of its transaction bears out (`BearsOut`) and
which is announced in the same step; the claim is set to what entries say (`SaysOf`) of which
the others may have gone on since they were looked at (`Was`).
`ClaimReconciliation` instantiates it as `Ledger`: `Fate` folds the states of a
transaction the workers tell apart, and every step except the broadcast, the decision
of the chain, `RecordSubmission` and `Commit` is a stutter.  The ledger allows what the
findings 3 and 4 are about, a stale claim and a superseded transaction that was itself mined,
since that is what the code does; it allows nothing else.

`WorkerCycle` - the composition, from the commit of an event to its
subscribers.  It has both queues, one row per job and per delivery, the
subscriptions, and for each process the dispatch lane (`lane`: where it is, the
row it holds, the attempt it was given).  `StartCycle` and `OthersJoin` are the
two ends of `runCycle`; in between the lane leases a due delivery
(`LeaseDelivery`), or, when there is none (`OutboxTurn`), a job (`LeaseJob`), or
ends (`LeaseNothing`), and carries that one row through.  `EnabledKinds` are the
transports a process has.  A call of a repository is one step here: the steps
inside of `fail`, and replays, are what the queues' own modules have.
The other lanes touch no row of this module and may be taken to be the last to
join.  `steady`, `accepted` and `excused` are history: the pairs of a
subscription and an event that was committed while the subscription was active
and has stayed so, how often the endpoint took the event, and the deliveries
that lost a lease or an answer.

`ClaimEvidence` - a claim from the scan to the verdict on its batches.  `blocks`
are the closed blocks (the owner's balances, the backings of the markets),
`building` the block in the making, `receipts` the transactions.  The contracts
(`Executable`, `Executed`), the owner's trades, other holders and a `redeemMany`
sent from elsewhere are the environment.  A scan lists rows (`Discover`), reads
the settlement of each market and then the balance of each row; what a read
returned is the block it was made at.  `Entries`, `Backed` and `CreateBatches`
are `prepareClaimPlan`: what belongs to the venue of the plan, is finalized,
not duplicated over its balance and pays, market by market within the backing,
sorted and cut.  A batch is the set of entries whose `Rank` in that order falls
into its slice, which is all a batch is compared by.  `Simulate` executes one batch at the latest block, `SendBatch`
is the browser's loop, and `Reconcile` compares a receipt with the plan as
`reconcileClaimReceipt` does (`RedeemedAsPlanned`, `BalanceFell`, `BackingFell`).
Any transaction with the calldata of a batch may be submitted as its
transaction, which is all `verifyRedeemManyTransaction` asks.  Both markets and
the plan are small, but the order of reads, blocks, trades and redemptions is
arbitrary.

The modules named `MC...` hold the functions and symmetries the configurations
use.  The theorems about a module `M` are in `M_proofs`; there is one for each of
`OutboxQueue`, `DeliveryQueue`, `WorkerCycle`, `ClaimReconciliation`,
`SubscriptionAccess`, `WalletScan` and `ClaimEvidence`.  `SumTheorems` has the
lemmas about sums that the last of them needs.

Two abstractions are common to the modules.  Clocks are not numbers: that a
lease has expired, or that a backoff has elapsed, is a flag which an action
sets at any time, so a lease may expire while its holder is working, which is
what slow endpoints and paused processes do.  A statement that fails, or whose answer
is lost, goes to the catch block with the effect or without it.  A process that
dies is `Crash` (`Abandon` in the scan); a restarted process is an idle one with the
same id.  In `ClaimReconciliation` and `WalletScan`, where attempts are not
bounded, failures go on until the flag `calm` is set (in `WorkerCycle` until `MaxTrouble` of them happened); safety is checked for both
values, liveness for behaviours in which it is set some day.

An operator preceded by the word "Mutant" in its comment is a plausible bug in
the definition that follows it; no specification uses it.  Replacing the
definition by it must break the property named in `PROJECT.json`.

## What the runs check

| Run | Instance | Shows |
|---|---|---|
| `outbox` | 2 jobs, 2 processes with own ids, 2 attempts | types and budget; `CompletedWasRouted`; `RetryBudgetRespected`; `SettledIsFinal`; `LiveLeaseIsExclusive`; `RetriesEnd`; `ImplementsBoundedRetry` |
| `delivery` | 1 delivery, a second subscription standing by, 2 processes sharing an id, 2 replay requests, 2 attempts and 1 per replay | `DeliveredWasAccepted`, `OneSenderPerAttempt`, `AttemptLogAgrees`, `DeadIsJustified`, `DeliveredIsFinal`, `RevocationIsCurrent`, `AttemptsEnd`, `ImplementsBoundedRetry` |
| `claim` | `Deployments`: 2 batches (1 without a nonce) with 1 or 2 processes sharing an id | `OneTerminalEvent`, `VerdictMatchesChain`, `ImplementsClaimLedger`; where one process runs also `OneWorkerAggregates`, and `RecordedIsSettled` under fairness |
| `wallet_scan` | 1 process, 2 outcomes, balances 0 and 2, 3 blocks | `AnnouncedWasClaimable`, `OneNoticePerState`, `ClaimableIsAnnounced` under fairness |
| `access` | 2 requests, 2 telegram bindings, 2 webhooks, 1 browser, 2 chats | `OneLiveBinding`, `OneActiveTelegram`, `SingleUse`, `OnlyPendingActivates`, `VerifiedWebhookYieldsToOverlap` |
| `evidence` | 2 markets of 2 venues, 4 rows (one position twice), 1 entry per batch, 3 blocks, 2 moves of others | `PlanTakesAll`, `ConfirmedIsFresh`, `RedeemedIsConfirmed` |
| `worker_cycle` | 2 processes, one without the second transport, 2 subscriptions, 2 events, 2 attempts, 2 faults | `RoutedReachesSteady`, `NoNeedlessDuplicate`, `EventReachesSubscriber` under fairness |
| `outbox_exhausted` | violation | a worker that dies in the last attempt leaves a row that no one can take over |
| `delivery_replay` | violation | a replay into a subscription that is switched off grants no attempt |
| `claim_two_workers` | violation | two commits at once leave the claim `submitted` for ever |
| `claim_superseded` | violation | a transaction mined between two reads is recorded as superseded |
| `wallet_two_scanners` | violation | a slow scanner sets the current rows back to an earlier block |

The bounds.  Two processes are enough to have a late reporter and a new holder;
two attempts give an attempt that is retried and one that is last; a third
attempt, reached by a replay, distinguishes "older" from "previous".  Two
replay requests are the smallest race of `replayDead`, two batches the smallest
aggregate.  Two workers on two batches, where one counts a row that the other
is about to settle, are too many states for a run with liveness; for them there is the
proof of `ImplementsClaimLedger`, and the run `claim_two_workers`.  `AttemptLimit` bounds replays only (`ReplayRead`), it never cuts a
retry.  The delivery and claim runs give all processes one worker id, the
hardest case: `config.ts` falls back on `claimrail-<pid>`, and two containers
may both have pid 1.  The outbox runs with distinct ids, because its reports are
fenced by the id alone: with a shared id `RetryBudgetRespected` and
`LiveLeaseIsExclusive` speak of one owner only.  `RetryBudgetRespected` is
proved under exactly that assumption (`DistinctWorkerIds`).

`WalletScan` starts with a market in any result that is not finalized and any
balances; two more blocks let it finalize before or after a trade, and every
one of the five kinds of call can answer from any of the three.  A balance of 2
pays under every result that favours its outcome, the half of a void market
included.  Two outcomes are what a scan can persist in part; a third block is
what a scan can find an earlier scan to be older than.  `wallet_two_scanners`
starts with a final result (`StartFinalized`) and needs one outcome, three
balances and two blocks: only the balance has to change.

`SubscriptionAccess` has as many bindings as challenges are ever created.  Two of a
channel are one that is replaced and one that replaces it; two requests are the
smallest race, and with two telegram bindings both proofs and both chats can
be under way at once.  Requests, chats and the bindings of a channel are
interchangeable (`Symmetry`).

`ClaimEvidence` starts from a void pair its market can pay, one it cannot, and a void
position too small to pay beside a win of the other venue.  One entry per batch makes every pair
two batches.  Three blocks and two moves are what it takes to go wrong at
`ConfirmedIsFresh`: the position is redeemed by hand in the second block, bought back, read in
the third, and the old receipt is submitted for the new plan.  Nothing moves once
the preparation was refused or every batch has its verdict (`Underway`).  Rows that list
the same position are interchangeable.

`WorkerCycle` needs two processes for a job that is routed twice, with a
delivery in between, two subscriptions so that one can be switched off, or be
out of reach of a process, while the other is served, and two events for deliveries that keep the
outbox waiting.  Faults and changes by the owner are bounded together
(`MaxTrouble`): two spend the attempts of a row, or switch a subscription off and on again, or
lose an answer and the lease of the job.

Deadlock is not checked: a drained queue, all work settled and every backoff
elapsed, is a state in which nothing is left to do.

Fairness.  `WF(Work(p))`: `runUntilStopped` polls for ever and the calls it
awaits return (the transports abort after a timeout).  `WF(Time)`: leases
and backoffs are absolute times.  `ClaimReconciliation` adds strong fairness of
leasing each batch, which `order by next_attempt_at` provides: a batch that is
leased and deferred goes behind the others.  Nobody owes a crash, an owner's
action or a move of the chain.  `WF(Index)`: the indexer catches up.
`WF(StartCycle(p))`, `WF(OthersJoin(p))` and `WF(Lane(p))` say of
`WorkerCycle` that every lane returns, which is more than the code guarantees for the
chain reads of the other lanes: a call that never returns there stops the
dispatch lane too.
`RecordedIsSettled` and `ClaimableIsAnnounced` assume in their own
statement that calls stop failing (`calm`); `RetriesEnd` and `AttemptsEnd` need no such
assumption, since crashes use up attempts.

## Findings

1. *A lease of the last attempt is never reclaimed.*  `leaseNext` requires
   `attempts < max_attempts` also for expired leases and only `fail` writes
   `dead`.  `Stranded` names these rows, and `RetriesEnd` and
   `AttemptsEnd` have to except them.
2. *A replay of a revoked destination grants nothing.*  The terminal answer that
   kills the delivery also deactivates its subscription, which `replayDead`
   does not look at.
3. *Two workers can leave a claim `submitted`.*  `completeReconciliation`
   aggregates at READ COMMITTED without locking the claim.  With a single
   worker process it does agree (`OneWorkerAggregates`).
4. *A mined transaction can be recorded as superseded.*  The lookup and the nonce
   count are two calls; what is mined in between is unknown to the first and
   counted by the second.
5. *A slow scanner overwrites newer rows.*  `persistWalletTransition` upserts the
   rows of market and position without comparing blocks.  The events are not
   affected: `EventId` does not depend on the block.
Three more observations are listed as hazards.  A verified webhook can be
replaced although `createWebhookChallenge` says it already exists: the look and the revocation
are two statements without a lock, and an activation in between succeeds and is
revoked, while its subscription stays active.  `VerifiedWebhookYieldsToOverlap`
shows that nothing but this overlap does it.  The other two have no document to disagree with: `markTelegramProofVerified` may answer with a link token for a binding
that was just revoked (harmless: `OnlyPendingActivates`), and the webhook endpoint
accepts a challenge of any channel.

## What is proved

`OutboxQueue_proofs` proves, for any finite or infinite set of jobs and processes, any
assignment of worker ids and any `MaxAttempts` above 0:

* `OutboxTypeCorrect`: `Spec => []TypeOK`, which includes that attempts never
  exceed the budget and that a busy process holds a job.  It is inductive as
  it stands; the step is `OutboxTypeStep`.
* `OutboxCompletedWasRouted`: the strengthening says that a process at
  `complete` holds a routed job (`RoutedStep`).
* `OutboxRetryBudget`, under `DistinctWorkerIds`: `fail` writes what it read one
  statement earlier, so the strengthening says that a process at `failWrite`
  which still owns its row holds a verdict that agrees with the row's
  attempts.  Whoever leases the row in between writes another owner, which is
  where distinct ids are needed.  The lemmas are `VerdictStaysCurrent`,
  `GoIdleStartsNoFail` and `BudgetStep`.
* `OutboxSettledIsFinal`: every statement that changes a status is guarded by
  `Owned`, which a settled row does not satisfy (`SettledStep`).

`DeliveryQueue_proofs` proves, for any sets of deliveries, subscriptions, processes and
replay requests, any bounds and *any* assignment of worker ids:

* `DeliveryTypeCorrect`: `Spec => []TypeOK`, which includes that a process in its
  lane holds an attempt the row has counted (`DeliveryTypeStep`).
* two case lemmas on which everything else rests.  `DeliveryRowMoves`: in a step a
  delivery is leased, reported delivered or failed by the holder of its current
  attempt, replayed, routed, or left alone.  `DeliveryLaneMoves`: a lane
  becomes idle, starts, is answered, gives up, decides, or stays.
  `EndpointGrows`: endpoints do not take answers back.
* `DeliveryDeliveredIsFinal` and `DeliveryOneSender`, which are inductive: a
  lease raises the attempt number above everything that is held
  (`SenderStep`).
* `DeliveryDeliveredWasAccepted`: the strengthening `CompleteKnowsAccepted` says
  that a lane at `complete` holds an accepted attempt (`AcceptedStep`).
* `DeliveryAttemptLogAgrees`, inductive with the types (`LogStep`).
* `DeliveryDeadIsJustified` and `DeliveryRevocationIsCurrent`, from the invariant
  `DeadInv`: a lane that reports a terminal error was given it for the
  attempt it holds (`TerminalWasAnswered`), and a verdict read by `fail` is still
  right for as long as the attempt is current (`VerdictStands`): a new lease
  counts up, and a replay, the only writer of `max_attempts`, needs a dead row.
  Distinct worker ids are not needed here, unlike in the outbox: the attempt
  number is the fence.

These two modules prove the refinement `ImplementsBoundedRetry` as well, for the same
constants.

* `OutboxImplementsBoundedRetry`, under `DistinctWorkerIds`.  The invariant is
  `QueueInv`: a process at `complete` holds a routed job (so `Finish` finds its effect performed), a
  verdict of `fail` that its process still owns agrees with the attempts of the
  row (so a `dead` has no tries left and a `pending` has some), and a held job was
  tried.  Each action is then a step of the abstract queue or a stutter, lemma by lemma.
  With a shared id the verdict may be another holder's, and the theorem
  is not claimed.
* `DeliveryImplementsBoundedRetry`, for any assignment of ids, from the invariants of
  `DeliveredWasAccepted` and `DeadIsJustified`: an accepted attempt for `Finish`, and the
  verdict, which is now shown to be dead *exactly* when the attempts are spent or the
  answer was terminal (`VerdictStands`), for `Retry` and `GiveUp`.  Only a
  revocable endpoint can refuse for good (`GoneIsRevocable`).

`WorkerCycle_proofs` proves about the composition, for any sets of processes, events and
subscriptions, any transports, any attempts and any number of faults:

* `CycleTypeCorrect`: `Spec => []TypeOK`.  The types alone are not inductive: `CycleTyped`
  adds that a lane at a delivery stage holds a delivery and one at a job stage an event
  (`LaneTypes`, `CycleTypeStep`).
* `CycleRoutedReachesSteady`.  The invariant is `RoutedInv`: a lane about to complete a
  job has rows for all steady pairs of its event (`CompletesRouted`), which stays true
  because no pair becomes steady after the commit, and the commit comes before any
  lane works on the job (`WorksOnCommitted`); a steady subscription is active, so that the
  insert routes it; and a row that is absent is blank, so that the insert does
  not skip it.  Most actions leave all of this alone, which is one lemma
  (`QuietStep`); `CommitEvent`, `Materialize`, `LeaseJob` and `CompleteJob` are argued
  conjunct by conjunct (`RoutedStep`).
* `CycleNoNeedlessDuplicate`.  The invariant says of every delivery that is not excused that
  it is `Clean`: whoever sends or completes it owns the attempt, so that there is
  only one such lane (`OneServes`); once taken, it is delivered or about to be completed by
  that lane; and a lane that goes on to `fail` either was refused or finds the row
  delivered.  A row that waits is therefore one that nobody took (`WaitingIsUntouched`),
  which is what makes the next lease harmless.

`ClaimReconciliation_proofs` proves, for any batches, any finite set of processes, any
deployments, with or without nonces, and any worker ids (shared ones included):

* `ClaimTypeCorrect`.  `ClaimTyped` is inductive as it stands (`ClaimTypeStep`).
* `ClaimVerdictMatchesChain`, `ClaimOneTerminalEvent` and `ClaimVerdictIsFinal`, from the
  invariant `VerdictInv`.  A worker that holds a verdict was told it by the chain,
  and the chain has not changed its mind (`ToldVerdictHolds`; a nonce that is used
  stays used, `ChainKeeps`).  Between `SettleRow` and `Commit` the row is still
  pending for everybody else (`OpenIsPending`) and only one worker is there
  (`OneOpenPerRow`): this is the row lock, and it is what makes the event unique although the
  fence on the worker id is no fence when ids are shared.  `VerdictIsFinal` has no run of its own: the ledger,
  which a run checks, never changes a verdict.  Actions that leave rows and lanes alone are
  one lemma (`QuietStep`); the commit is another (`CommitStep`).
* `ClaimOneWorkerAggregates`.  The invariant `AggregateInv` is conditional on there being
  one worker (`OnlyOne`): the totals it is about to write are the true ones, or a batch
  was recorded since and is pending (`TotalsFresh`), in which case the claim may be stale and
  the property asks nothing yet.  With two workers `TotalsFresh` is
  false, as the run `claim_two_workers` shows.
* `ClaimImplementsClaimLedger`, the refinement, for any number of workers.  Its invariant
  is what is left of `TotalsFresh` then: whatever a worker counted are rows as they are or
  were, with its own verdict among them (`CountsWereSeen`), which stays true because rows
  only go on (`RowsGoOn`).

`SubscriptionAccess_proofs` proves, for any finite set of bindings and any requests and
chats, from `AccessInv`, which has four parts:

* `RowInv`: the rows.  A row that still has the hash of its challenge has accepted no
  signature, one that is pending no link, and a verified one has no hash left
  (`ProofTold`), which makes `AccessSingleUse` inductive; two live rows of one channel
  are one row (`LiveAlone`, the partial unique index), which gives
  `AccessOneLiveBinding`.
* `SessionInv`: the open transactions.  A row that is about to be inserted exists
  nowhere else (`Fresh`), a row that is held is pending and held once (`LockPending`,
  `LockAlone`), and what an insert will revoke is not held (`LockApart`).
* `ActiveInv`: a link about to commit has every chat that is on among those it
  switches off (`OffCovers`).  Two links at once would break this; they cannot be,
  since all telegram bindings share one place in the index (`HolderAlone`).
  This gives `AccessOneActiveTelegram`.
* `OverInv`: while a request that saw no verified webhook goes on, one that is verified
  was verified during it.  This gives `AccessYieldsToOverlap`.
  `AccessOnlyPendingActivates` needs of a link that its binding is still pending when it
  commits (`LockPending`).

`WalletScan_proofs` proves, for any processes, any balances and any number of blocks:

* `ScanTypeCorrect`, and with it that a finalized market keeps its result
  (`ChainInv`, through `MineStep`).
* `ScanAnnouncedWasClaimable`.  The invariant `LaneInv` says that a balance is read at or
  after the block of the settlement (`ReadInOrder`), and that what is
  left to persist is borne out by the block the *balance* was read in
  (`BornOutBy`): the market was finalized when the settlement was read and stays so, with
  its result, and the balance is the one that was read.  `CandidateIsBornOut` is
  the argument; `AnnouncesBornOut` carries it to the event.
* `ScanOneNoticePerState`: two events of one balance would need two results, and
  each event's result is that of a finalized market.

`ClaimEvidence_proofs` proves, for any markets, rows (duplicates included),
trades, numbers of blocks and moves, any batch size and any chain to start from:

* `EvidenceTypeCorrect`, which includes that no batch is empty or larger than the
  policy allows.  That needs the order of the entries to be total and ranks to
  be a bijection onto `1 .. n` (`BeforeIsOrder`, `RankFacts`, `RankIsOnto`), so that
  every slice of ranks is a slice of entries (`BatchesSound`).
* `EvidenceConfirmedIsFresh`.  The invariant is `EvidenceInv`.  Its first part, about the chain, says that the
  backing of a market only falls, a balance only falls unless its
  owner trades (`Falls`), and that a transaction that succeeded took
  what it redeemed out of both, between any block before it and any block from it on
  (`Paid`).  The second says that settlements are read before balances (`ScanInv`),
  the third that every entry of the plan is what was read at those blocks
  (`ReadEntry`) and that every verdict is what its receipt shows (`VerdictInv`).  A
  receipt at or before the block of the read would need a backing that rose.
* `EvidenceRedeemedIsConfirmed`, from the same invariant: `Paid` bounds the fall of balance and
  backing from below, whatever other holders redeem in the same blocks.
* `EvidencePlanTakesAll`.  A plan that is being simulated is exactly what the preparation makes of
  the reads, and the reads stay (`PlanMade`).  If the evidence still holds, what
  is planned is covered by balances and backing (`BackedIsCovered`); executing the
  first batches leaves the rest covered (`ExecutesNext`), because the batches
  partition the entries (`BatchesPartition`); and a position that pays is an entry,
  which is planned whenever the backing covers all that the owner has in its market
  (`PayingIsEntry`, `ListedPaysEntries`).  `AfterPlan` is defined by recursion over the batches:
  `PlanExecutes` exhibits its solution, by a least counterexample.

`SumTheorems` proves what sums over finite sets need: an element can be taken out
first (`SumAnyElement`), a sum is at least each of its elements, it splits over disjoint parts
(`SumSplit`, `SumFunctionSplit`), and depends on the values only (`SumExtensional`, `SumBijection`).
`SumFunctionOnSet` is a fold, and the library's induction theorems are of no use here:
they take an operator as a parameter, which the provers cannot instantiate.  The
lemmas therefore go by a counterexample of least size (`LeastSubset`, `LeastNumber`),
starting with the existence of the fold (`FoldExists`).

Beside what is listed above, `OutboxLiveLeaseIsExclusive` shows that a job under a live lease
moves only by a step of a process that holds it under the id of the lease, for
*any* assignment of ids (`LiveLeaseStep`): with shared ids that process need not
be the one that leased it, which is why the budget needs distinct ids and this
property does not.

The proofs assume `OutboxAssumption`, `DeliveryAssumption`, `CycleAssumption`,
`ClaimAssumption`, `AccessAssumption`, `ScanAssumption` and `EvidenceAssumption`, the
well-formedness of the constants (types, disjoint channels, finite sets where the
code has rows of a table or processes), which TLC evaluates in every run.  The two
theorems that need more, distinct worker ids, say so in their statements.

Only model-checked: the liveness properties (`RetriesEnd`, `AttemptsEnd`,
`RecordedIsSettled`, `ClaimableIsAnnounced`, `EventReachesSubscriber`), because the
prover handles neither fairness nor ENABLED.  The properties of the runs
that expect a violation are false.  Every other property of a run is a theorem.

## Plan

1. A composition of `WalletScan` with `ClaimReconciliation`: a scan that runs while
   batches settle, for the rows that stay claimable after a redemption.
2. Owed amounts and replaced transactions in `ClaimEvidence`, where the hazards
   without a property are.
3. `WorkerCycle` fed by the events of `ClaimLedger`, so that a verdict reaches the
   subscribers of the claim.

## Not modelled

Pages, HTTP schemas, signing, encryption and the wire formats of the transports
are input and output.  Remote reads of the indexer and the chain other
than those of reconciliation, of the wallet scan and of a claim have no state of
their own; the paging of the discovery appears as a scan that lists less
(`DiscoverPart`).  The tables of observations, scan runs and audit records are written with the
rows the models have and read by none of the modelled code.  The cooldown of test
notifications is a rate guarded by one advisory lock and needs a clock.
Access tokens of the delivery console are issued and consumed in single
updates.  The market lifecycle lane is idle in this commit.  Lease and backoff durations are
abstract, so how long anything takes is not a question these models answer.
What a contract owes an owner after a failed transfer (`owed`), gas limits, the
approval of the module and the integrity hash of a plan are left out of `ClaimEvidence`.

`research/reference-packages/` holds copies of a third party's SDK, several times the
size of the program; nothing in the program is built from them and none of them is modelled.
