# CopyMint: a TLA+ model

CopyMint is an invite-only Telegram bot that scans Ethereum NFT collections and
keeps execution wallets for private workspaces. This directory models the parts
of it that keep state and meet concurrency or failure: access control; the
deduplication, limiting and confirmation of Telegram updates; the isolation of
workspaces in the database; wallet creation across the application and
its signer, and the balances of wallets; the historical scan of a collection by
queue workers, the mints it records, and the notifications about it; and the
searches the scan rests on. TLC checks the models on small instances; TLAPS
proves their main safety properties for every instance.

Paths without a prefix are relative to `src/app/`.

## The system

| Component | Source | State | Operations |
|---|---|---|---|
| Webhook, update deduplication | `api/routes/telegram.py`, `infrastructure/db/repositories/telegram_updates.py` | `telegram_updates` rows | claim, dispatch, mark processed / failed |
| Access control | `application/access`, `bot/handlers/access.py`, `infrastructure/db/repositories/access.py` | users, workspaces, memberships, destinations, requests, audit log | `/start`, `/admin_requests`, `/admin_revoke`, approve, reject, revoke, context resolution |
| Confirmation challenges | `application/access/challenges.py` | `callback_challenges` rows | issue, consume once, expiry |
| Rate limiting | `infrastructure/queue/rate_limit.py`, `bot/middleware/rate_limit.py` | Redis counters with a time to live | hit (user, then workspace) |
| Wallet service | `application/wallets`, `infrastructure/db/repositories/wallets.py` | `execution_wallets` rows | create (idempotent), list, refresh of the balance |
| Balances | `application/wallets/balances.py`, `workers/wallet_balances.py` | a balance and its block in each wallet's row | refresh |
| Signer | `signer/` | key envelopes, seen request identifiers | authenticate, create key, verify restore |
| Collection registration | `application/ethereum/collection_service.py`, `infrastructure/db/repositories/collections.py` | collections, workspace subscriptions | add, scan, list; publishes two messages |
| Collection scan | `workers/collections.py`, `infrastructure/db/repositories/ethereum.py` | job, checkpoint, mint events, status | scan a slice, enrich it, send the next |
| Range scanner | `application/ethereum/scanner.py` | cursor and chunk of one scan | request, shrink, grow, commit |
| Deployment probe, proxy history | `application/ethereum/collections.py`, `proxies.py` | none | binary search, interval construction |
| Decoding, enrichment, classification | `application/ethereum/decoders.py`, `enrichment.py`, `classification.py` | none | pure functions of logs and transactions |
| Scan notifications | `workers/scan_notifications.py` | last report in the subscription | poll, report, reschedule |
| Row level security | the migrations, `set_workspace_context` | policies, a session setting | filter every private table |

The bot and the API share one process; every database transaction of a handler
is separated from the next by an `await`, so handlers of different updates
interleave between transactions. The signer is a service of its own, reached
over HTTP with a timeout. The API sends messages to Celery queues and the workers
send messages to themselves; queues deliver at least once. PostgreSQL arbitrates:
unique indexes, `ON CONFLICT` clauses and conditional updates are the only
synchronisation between processes.

What is hard, and what makes each component correct:

* **Updates.** Telegram delivers again what is not answered in time, while the
  first delivery may still run. A handler's effects must not be repeated without
  a failure, and a failure must not lose the update.
* **Access.** Owners decide the same request at the same time, press buttons
  twice, and revoke people in the middle of their commands. There is at most one
  pending request per person, a decision is final and audited once, a
  confirmation is worth one action, and the four rows of a person's access agree.
* **Wallets.** A key is made in one service and recorded in another, with a
  timeout between them. One idempotency key gives one address, and every wallet
  shown has its key.
* **Scan.** Several workers may have messages of one collection; any of them may
  die or raise between two transactions. The rows must hold every mint up to the
  checkpoint, once, and a requested scan must end.
* **Mint records.** Logs are committed again, in other batches. The rows must be
  exactly the mints of the logs, whatever event of which standard they are.
* **Notifications.** A report is stored before it is sent, and several trackers of
  one subscription may compare with it. The chat must be told that the scan ended,
  what it is told must go forward, and the polling must end.
* **Rate limits.** Calls of one person run at the same time and may fail after
  they were counted. A window must end, a refusal must say when, and what gets
  through in any minute is bounded.
* **Confirmations.** A confirmation expires, while the press that consumes it runs;
  its request to the signer may be lost, delayed or repeated, under two clocks. It
  is carried out at most once, and at least once without a fault.
* **Isolation.** The settings that the policies compare with live on pooled
  connections. No transaction meets another's settings, none reaches another's
  rows, and each reaches its own.
* **Balances.** Refreshes of one wallet overlap and repeat. The row holds the newest
  block that was read, and the balance at that very block.
* **Probe, history.** A binary search over code that need not stay, and intervals
  from events that may come twice in a block. Both must name the right block.

## The modules

| Module | Models |
|---|---|
| `AccessControl` | the access component and the single-use challenges |
| `TelegramUpdates` | webhook deliveries and their claims |
| `RateLimit` | the two counters and the middleware that asks them |
| `WalletConfirmation` | a challenge with its expiry, the press, the request to the signer and its checks |
| `WorkspaceIsolation` | the policies, the settings and the statements of each transaction |
| `IdempotentCreation` | what callers of wallet creation are promised |
| `WalletCreation` | the wallet service and the signer; implements `IdempotentCreation` |
| `WalletBalances` | the refreshes of balances |
| `RangeScan` | what a range scan promises the consumer of its batches |
| `AdaptiveScanner` | the adaptive scanner; implements `RangeScan` |
| `DeploymentProbe` | the binary search for the deployment block |
| `ProxyHistory` | the implementations of a proxy over a range |
| `CollectionScan` | tasks, queue and rows of a collection's scan, whose batches are those `RangeScan` allows |
| `ScanProgress` | what readers of a collection's rows see of its scan; implemented by `CollectionScan` |
| `ScanNotifications` | the commands that ask for a scan and the trackers that report it, over `ScanProgress` |
| `MintRecords` | decoding of logs, the rows of a batch, the identity of a mint |
| `MC*` | symmetry and constants of the instances TLC checks; `MCUpdates`, `MCWallets` and `MCDiscovery` check several modules |
| `*_proofs` | the theorems about the module before the underscore; `RequestGuards_proofs` those about `RateLimit`, `WalletConfirmation` and `WorkspaceIsolation`; `WalletCreation_proofs` and `AdaptiveScanner_proofs` also those about `WalletBalances`, `DeploymentProbe` and `ProxyHistory` |

Definitions have the names of the code where TLA+ allows it. Operators named as
mutants in a comment are deliberately wrong variants of the definition below
them; no specification uses them.

**AccessControl.** Each handler (`op[h]`) carries what its coroutine carries: the
context resolved by the middleware, the consumed challenge, the cards left to
send. `StartReadPrincipal`, `StartReadLatest` and `StartInsert` are the three
transactions of `request_access`; `Consume` is the middleware and
`consume_challenge`; `Approve`, `Reject` and `Revoke` are the transactions of the
repository; `Abandon` is a handler that fails or whose process dies. Time is left
out: an expired challenge is one that nobody presses any more.

**TelegramUpdates.** `Deliver` is Telegram, which goes on until it has a 2xx;
`Claim` is the `INSERT ... ON CONFLICT ... WHERE status = 'failed'` with both
outcomes; `Dispatch` and `DispatchRaises` are `feed_update`; `Die` ends a delivery
at any point. `early` is a history variable: a redelivery of the update was
answered "duplicate" while another delivery held its claim. If that delivery then
fails, its 503 comes too late and the update is not delivered again; the retry
that `tests/unit/test_telegram_webhook.py:107` describes needs the redelivery to
come after the failure.

**RateLimit.** `Hit` is one Redis transaction (INCR, EXPIRE NX, TTL), for the person
and then, for an approved one, for their workspace; calls are at different points
of the middleware at once, and `Lose` is one that fails with its hit counted or not.
A second has `Ticks` ticks, so that the rounding of the TTL is real. `ages` is a
history variable: the ticks since each of the last `2 * limit + 1` hits that were
allowed, up to a window, which is what a sliding window sees.

**WalletConfirmation.** `Press` reads the clock and `Consume` is the conditional
UPDATE that uses what was read; `Send` dates the request in whole seconds. `copies`
is what the network will deliver of a request, and `skew` the difference of the
clocks, fixed at the start. `DeliverRequest` is the age check of `authenticate`,
`ClaimRequest` its `INSERT ... ON CONFLICT DO NOTHING`. The signature is taken to
hold. `faults` says what excuses that a confirmation is not carried out.

**WorkspaceIsolation.** A transaction is the sequence of its statements, by the
table they concern. `Admits` and `AuditInserts` are the policies of the
migrations, `Selects` the WHERE of the repositories; `AtEnd` is what
`set_config(..., true)` leaves behind. `role` is fixed: policies apply to a plain
role and not to a superuser, the user `compose.yaml` creates, where continuous
integration tests a plain role. A private transaction may name a row of another
workspace, as a button or a message with an old identifier does: it then finds none.

**WalletCreation.** A call of the application goes through `Find`, `Count`, the
signer's answer (`Receive`) and `Save`; `LoseAnswer` is a `Save` that commits and
whose caller gets an error all the same; `GiveUp` is the timeout, after which the
signer's side (`SignerFind`, `SignerSave`) may go on. The key pair a signer
request generates is named after its call. In `IdempotentCreation`, too, the call
that gives a slot its address may be told of an error.

**WalletBalances.** `ReadNumber` and `ReadBalance` are the two requests to the
provider, between which the chain grows; `UpdateBalance` is the conditional UPDATE.
A snapshot records of which block its balance is, so that a balance stored beside
the wrong number can be told.

**AdaptiveScanner.** `pc` is the point of the loop: asking for logs, reading the
boundary block, committing. A refused request that was cut at the end of the scan
is sent again unchanged while the chunk is still wider than it; `Terminates`
covers that such retries end. `flaky` is the kind of provider, fixed at the start.
`upto[b]` is the number of logs up to block `b`, so
that a range's logs are a difference. `Serve`, `Refuse` and `Fail` are the
provider's answers that the code tells apart.

**CollectionScan.** `task[w]` holds the local variables of `_scan_collection`, and
`pc` the transaction it comes to next. A row that is read in one statement and
written in another without a lock is read and written in two actions
(`ReadWarnings`/`WriteWarnings`, `ReadJob`/`Complete`, the collection in `Take`
and `SaveDeployment`); a value equal to the one that was read is not written, as
the ORM does. `Crash` puts the message back, `Fail` does not. `refused` is fixed at
the start: the blocks with a log that `decode_mint_log` raises for. Such a log
raises for the batch it is in, in every attempt (`Refuse`); the scanner hands over
batches before it, and the checkpoint stays there. History variables: `abandoned`,
the mints a task committed and did not live to enrich; `owed`, that somebody asked
for a scan and since then no call raised, no log was refused and the contract was
not found too young; `raced`, that the list of warnings was written between another
task's reading of it and its writing or completing, or after the completion;
`reopened`, that the deployment block was saved again (finding 3). The last two name
exactly what `WarningsKept` and `StatusShown` except: tasks that overlap in any other
way are held to them.

**DeploymentProbe, ProxyHistory.** Every life of a contract (`code`), every content
of the storage slot and every list of Upgraded events is an initial state, as is
whether topics have a prefix (`prefixed`): if they have, a range with an event only
raises (finding 4).
`Faithful` says of a proxy that its slot changes with its events only; the resolver
checks that at the end of the range and trusts it elsewhere.

**MintRecords.** The rows under `CollectionScan`'s `CommitBatch` and `EnrichMint`,
which know blocks only. A log is a form at a position; `Decoded` is what
`decode_mint_log` returns, `Refused` when it raises, in which case the transaction of
the batch is rolled back and nothing happens. `Minted`, by which `SupplyRecorded`
measures the rows, is written from the standards and not from the decoder. The
prefix of a log's first topic is kept because the decoder compares text; the blocks
with mints of `CollectionScan` are those with a mint the decoder recognises.

**ScanNotifications.** One subscription. `AddCollection` and `ScanAgain` are the
transactions of the two commands; `Publish` sends the scan message, which
`CollectionScan` models, and the tracking message; in `PublishRaises` one of the
two raises, and the tracking message may be out or not. `Read`, `Store` and `Send` are
the select, the commit and `send_message` of `_notify`; `Resend` is `track_scan`
sending itself again. The scan underneath is any behaviour of `ScanProgress`, so
that two modules of moderate size replace one large one. `Raise` ends a tracker
and its chain, unless it is `send_task` that raises and the broker has the message
all the same; `Die` may lose the message or have it delivered again. The 60
seconds between two polls are left out. History variables say what excuses a
missing or repeated report: `overlapped`, `unsent`, `stopped`.

## Checks

| Run | Instance | Shows |
|---|---|---|
| `access` | two owners and one person, two handlers, two requests | a decision is final and audited once, by one owner; a challenge is acted on once; one pending request; access rows agree through approval, revocation and a second request |
| `updates` | webhook: two updates, two overlapping deliveries, two raising dispatches and a death each | effects only repeated after a failure; only a death or an early answer loses an update, every other takes effect (liveness) |
| | limits: two overlapping calls, one lost, limits of two and one in windows of two seconds | no more than twice the limit in any window's length; a refusal's delay suffices |
| | confirmation: two presses of one challenge, two requests in the signer, each delivered up to twice, clocks up to two seconds apart | carried out at most once; carried out unless a fault excuses it (liveness) |
| | isolation: two workspaces on two connections, under both kinds of role | transactions are admitted to their own rows only, and reach them |
| `isolation_audit` | the same, under a role the policies apply to | **violated**: a rejection cannot be recorded |
| `wallets` | creation: four calls with three keys, two at a time, limit one | implements `IdempotentCreation`; wallets have keys, orphaned keys are explained; the limit is exceeded by at most one |
| | balances: two wallets, two workers, three blocks, a redelivery | the row holds the newest block that was read, with its balance |
| `wallets_limit_race` | two overlapping calls | **violated**: the limit is exceeded |
| `scanner` | scan: six blocks, every distribution of up to six logs, every initial chunk up to five, a provider that only refuses ranges wider than two blocks and one that fails as it likes | implements `RangeScan`; the scan ends, and without an error with the first provider (liveness) |
| | probe: every life of a contract in seven blocks | the block found has code, the one before it has none |
| | history: three blocks, two implementations, up to two upgrades in a block, every content of the slot | the intervals are the slot's history |
| `scan` | two workers, three blocks in slices of two, one without mints, a log that is refused in the second slice or none, two warning codes, two requests, a death, an error | no gap, nothing undone, no completion over a refused log, stranded mints explained; but for one race, overlapping tasks keep all warnings and the final status is the job's; implements `ScanProgress`; a requested scan completes, also one requested again after an error (liveness) |
| `scan_killed_worker` | one worker, a death | **violated**: mints stay without enrichment |
| `scan_rescan` | two workers, no failure | **violated**: a completed collection shows "scanning" |
| `mints` | three places for logs in two transactions and two blocks, fifteen kinds of log, ranges of at most two tokens | the rows are the mints of the stored logs, and their quantities what the standards say; identities are kept |
| `mints_node_logs` | logs whose topics begin with "0x" | **violated**: none of their mints is recorded |
| `notifications` | two trackers, two commands, one failure, a scan of one block with one warning code | the end is told; the stored report is the one shown; reports go forward; the polling ends with the scan (liveness) |

Modules that share no state but belong to one path are checked by one run: the MC
module conjoins their initial states and lets a behaviour, by its `part`, take the
steps of one of them. TLC explores the sum of the state spaces, not their product,
and every invariant is checked in every part. Type invariants are not run: they are
proved for all instances.

The bounds name what they limit (`MaxRequests`, `MaxDeaths`, `MaxCopies`,
`MaxLost`, ...) and stand in the guards of the actions they limit. They are large
enough for the races the properties are about: two actors on one row and a third
step between them, a second slice after the first, a failure before and after each
transaction, a redelivery that overlaps, a call in the last tick of a window and
one in the first of the next, a request that is too old by the skew alone. Two of
a kind suffice because the code synchronises through single rows: every invariant
is about one row, or one row and the actors that use it. The theorems remove the
bounds. A scan of one block gives the trackers the milestones 0 and 100 only, but
every status and every order of reports; `ReportsGoForward` holds for scans of any
length.

Deadlock is not checked where the instance really stops: all requests made, all
messages handled, a scan that has returned, a challenge that is used up.
`AccessControl` is checked for it.

### Fairness

* `TelegramUpdates!FairSpec`: a live request goes on (the event loop runs ready
  coroutines), Telegram goes on delivering an update it has no 2xx for, and not
  every delivery of one update dies before its claim, as it would only if the
  service were down for ever.
* `WalletConfirmation!ConfirmationFairness`: a running press and a running signer
  request go on; a copy of a request that the network has not lost reaches the
  signer at last, however busy it is (strong fairness, since other requests may
  keep the signer occupied time and again). Nothing is assumed of the clocks or of
  how long a request takes: a late one is a fault.
* `AdaptiveScanner!FairSpec`: the coroutine continues; every provider call returns
  or raises (the HTTP client has a timeout). Nothing is assumed of the answers.
* `CollectionScan!FairSpec`: each worker goes on with its task and takes messages
  that wait. Nothing is assumed of requests, deaths and errors.
* `ScanNotifications!FairSpec`: the same of the notification workers. Nothing is
  assumed of the scan: `TrackingEnds` is about scans that stay ended.

`MCUpdates` and `MCDiscovery` state the same of the part that runs.

### Findings

1. The wallet limit is checked in one transaction and the wallet inserted in
   another (`wallets_limit_race`); `ExcessBounded` says how far this can go.
2. A worker that dies between the last commit of a slice and its enrichment leaves
   the slice's mints without enrichment for good: the checkpoint has passed them
   (`scan_killed_worker`).
3. A task that read the collection before its deployment block was known puts the
   status back to "scanning" when another one has completed the scan meanwhile
   (`scan_rescan`).
4. The decoder compares topics without "0x" with topics that have it, so that a scan
   of a real collection completes without a mint (`mints_node_logs`). The tests do
   not see it because they build their logs from the decoder's own constants.
   `UPGRADED_TOPIC` in `application/ethereum/proxies.py` is written the same way, so
   that with a node's topics the history of an upgraded proxy raises.
5. An audit row without a workspace satisfies the policy for INSERT and not the one
   for SELECT, which RETURNING needs: under a role subject to row level security, a
   rejection, an unauthorized attempt and the revocation of a person without a
   workspace are rolled back (`isolation_audit`). As a superuser, they succeed.

Met while modelling, and not the subject of a run:

* `revoke_user` leaves outstanding challenges in place, where
  `docs/adr/003-telegram-access-approval-and-revocation.md:28` says that revocation
  invalidates them. The handlers they lead to resolve the person's access again.
* The audit event of an unauthorized attempt is written before the rate limit is
  asked (`bot/factory.py:37-47`), where line 71 of the same document calls the events
  rate-limited.
* With the default settings the workspace's limit never binds: a workspace has one
  member, whose own limit is lower. The counter of the person is charged for a call
  that the workspace's limit refuses.
* A consumed confirmation whose creation failed cannot be tried again: the
  redelivery of its update gets `InvalidChallenge`.
* The code may be destroyed and deployed again; the block found then is one in
  which code appeared, yet not always the first, and its confidence is EXACT anyway.
* An upgrade in the first block of a range gives the interval of the earlier
  implementation the end `start - 1`, which the check constraint of the table for
  intervals (`infrastructure/db/models/ethereum.py:124`) would refuse; nothing stores
  these intervals in this release. That there is no other such interval is a theorem
  (`EmptyIntervalIsFirst`).

## Proofs

Every theorem holds for all values of the constants that satisfy the named
assumptions of the module: sets of any size, any bounds. The assumptions are the
types of the constants, `Owners # {}` with `Owners \subseteq People`, a scan range
that is not empty and chunks, limits, windows and slices of at least one; the
constructor of the scanner and the settings validate these. The positions of logs
are a finite set, as those of a chain of any height are: a sum over them needs it.

Each safety property follows from an inductive invariant `IInv`: `InitIInv` and the
step lemma (`StepIInv` or `NextIInv`) give `Invariance`, and the others are
consequences. The invariants of the runs are not inductive by themselves:

* **AccessControl_proofs**: `IInv` adds `Links`, what a handler between two of its
  transactions still knows of the rows (its consumed challenge, the request it
  saw). Without it a decision could be recorded against a challenge nobody
  consumed. Theorems: `TypeCorrect`, `OneRequest`, `AccessIsSound`,
  `ChallengesAreOneShot`, `TrailIsComplete`, `DecisionsAreFinal`,
  `RevokedNeedApproval`.
* **TelegramUpdates_proofs**: `Accounted` says that as long as an update may run
  again, its effects are all paid for by dispatches that raised; `Answered`, what a
  2xx answer and a row without a claimant mean. Theorems: `TypeCorrect`, `ClaimIsExclusive`,
  `RedeliveryIsIdempotent`, `LossesHaveCauses`, `ProcessedIsFinal`, and
  `UpdatesStayClaimable`: an update without effect, death and early answer is still
  delivered, and either claimed or open to a claim.
* **RequestGuards_proofs**, three invariants. `IsolationInv`: the connection of a
  transaction has no setting but its own, and has those of the statements before
  the next one (`Scoped`); a free connection has none (`Settled`). Theorems:
  `OnlyOwnRowsAdmitted`, `OwnRowsAlwaysReached`.
  `ConfirmationInv`: of the presses of one challenge at most one is past consuming
  (`OneActs`), only requests that were sent reach the signer (`SentFirst`), and of
  the signer's tasks and past runs for a request there is at most one behind its
  claim (`ClaimedOnce`). Theorem: `ConfirmationRunsOnce`. That none is lost either needs
  `ClaimedAccounted`, a claim that refuses other copies has its wallet, its fault or
  the task that made it; `ConfirmationNeverForgotten` is then that a consumed
  challenge has its request on the way until one of these. `LimitInv`: whoever was
  refused was told a time no earlier than the end of the window that refused them,
  and without a window there is no such promise; the rounding of half a second is
  arithmetic over `Ticks`. Theorem: `RefusalsAreKept`. `WindowsApart` adds that the
  hits before the window there is now are as old as this window is, and those before
  the last two are a window old, so that the 2 * limit + 1st hit back is
  (`BurstIsBounded`).
* **WalletCreation_proofs**: `RepliesStored` says that every answer on its way to
  the application names the envelope stored for its slot, which the unique index
  makes unique. `CreationIsIdempotent` is the refinement of `IdempotentCreation`;
  further `WalletKeysExist`, `AddressesDiffer`, `OrphansHaveCalls`. `LimitHolds` has
  an invariant of its own, `Excess`: the wallets of a workspace and the calls past
  the count are together at most the limit and the overlapping calls but one. For
  the balances, `Matching` says that a refresh in progress, too, carries the balance
  of the block it carries: `BalancesAreNewest`.
* **AdaptiveScanner_proofs**: the consumer has exactly the logs before the cursor.
  `ScanIsContiguous` is the refinement of `RangeScan`; `TypeCorrect` includes that
  the chunk stays valid however it is resized. `ScanGoesForward`: each step moves the
  cursor on, or shrinks the chunk where the cursor is, or brings the request a stage
  further, a lexicographic order that the invariant bounds. `ServedScanNeverRaises`:
  a width the provider serves is reached before the error. `ProbeInv`: the upper bound has code
  and the block below the lower bound has none, however the code changes between
  (`BoundaryIsFound`); each call leaves at most half of the blocks
  (`ProbeHalvesTheRange`). `HistoryInv`: the intervals so far and the active
  implementation are those of the slot up to the block walked to (`Walked`), of a
  faithful proxy; and the last interval agrees with the slot for any (`HistoryIsExact`).
  `Chained`, that the active implementation follows the last interval, gives of any
  proxy, faithful or not, that intervals are apart and follow each other
  (`HistoryIsTiled`), and which of them may be empty (`EmptyIntervalIsFirst`).
* **CollectionScan_proofs**: `Knows(w)` is what a task may rely on at each stage
  whatever other tasks do to the rows: rows only grow (`Grows`), so a position
  below the checkpoint stays below it. Each step of a worker establishes `Moves`;
  `KnowsFrame` carries the others. Theorems: `TypeCorrect`, `ScanHasNoGaps`,
  `CompletedScanIsWhole`, `OnlyEndedTasksStrand`, `ProgressIsKept`.
  `ReadersSeeProgress` is the refinement of `ScanProgress`; it needs `WarningsAgree`
  as well, that a task about to end the scan with a quality warning has seen one
  when the job has one. `ShownInv` is about the warnings and the final status: as long
  as there was no race, each task that has read the list and will use it has read
  what it still is (`Agreed`), however many tasks there are; a final status is shown
  of a completed job only; and where there is a job the deployment block is known, so
  that saving it once more marks the collection `reopened` (`DeploymentSaved`). It gives
  `CompletedScanIsShown` and `WarningsAreKept`. `ScansNeverStall`: a scan that is
  `owed` and not completed has a message or a task, whatever dies and whatever race
  is lost.
* **MintRecords_proofs**: keys tell the mints of all logs apart (`KeysDiffer`), so
  that the unique constraint only refuses what is recorded already. Theorems:
  `TypeCorrect`, `RowsAreExact`, `IdentitiesAreKept`. For `SupplyIsRecorded` the sum
  over a finite set is a function of its subsets, shown to exist by the
  well-foundedness of the subset relation; a sum over a disjoint union, and a sum
  of sums, then follow by induction over the subsets, and the rows of a token
  are such a union over the positions of the logs.
* **ScanNotifications_proofs**: `NothingAhead` says that no milestone that was told,
  or that a tracker is about to tell, is ahead of the rows; it needs the milestone
  to grow with the blocks, a lemma about integer division. Without overlap and
  failures, `OneBusy` says that one tracker at a time has a report in hand, and
  `NewsIsFresh` that the chat does not show it yet. `EndStored` and `Chain` say that
  as long as the end is not told, a message or a tracker is left to tell it.
  Theorems: `TypeCorrect`, `EndIsTold`, `StoredIsTold`, `ReportsGoForward`. Two more count:
  `ChainsAreBounded`, the messages, the trackers at work and the commands about to
  publish are together no more than the commands and the failures, so that trackers
  do not multiply by sending themselves again; and `EndedScanDrains`, once the scan
  has ended each step of a tracker leaves less to do (`Effort`).

Every safety property of the passing runs is a theorem. Proved only, and not part of
a run, are `DecisionsConfirmed`, which `ChallengesAreOneShot` states beside
`ConfirmedOnce`, and `AccessNeedsApproval` and `OwnersKeepAccess`, parts of `AccessIsSound`; `OneClaimant`, `ProcessedForGood`,
`AddressesUnshared`; the halving of the probe, the tiling of the history and its
empty interval; the bound on the chains; and the theorems of the next paragraph.

Only model-checked: the violations, and the six liveness properties, whose proofs
need fairness and ENABLED. What is proved of them is the part that is about the code
rather than about its scheduling, that no state is a dead end and no step goes back:

| liveness property | proved |
|---|---|
| `UpdateHandledUnlessLost` | `UpdatesStayClaimable` |
| `ConfirmedIsExecuted` | `ConfirmationNeverForgotten` |
| `ScanTerminates` | `ScanGoesForward` |
| `ServedScanCompletes` | `ScanGoesForward` and `ServedScanNeverRaises` |
| `ScanCompletes` | `ScansNeverStall` and `ProgressIsKept` |
| `TrackingEnds` | `EndedScanDrains` and `ChainsAreBounded` |

## Not modelled

* Telegram, Redis, KMS, PostgreSQL, the queue and the Ethereum provider are external:
  they are the nondeterministic choices the code makes of their answers. Redis keeps
  its keys, and the chain does not reorganise: the code looks for neither.
* Settings, logging, redaction, health checks, the wiring of bot and API, data
  definition in the migrations, release gates, placeholder packages and operator
  scripts keep no state that changes later and that a property is about.
* The cryptography of envelopes and signatures, and the restore drill, which writes
  nothing.
* `attempt_count`, the evidence rows, display names and message texts are data no
  guard reads. The rows of seen signer requests are never purged; the model keeps
  them too.
* `classify_mint` beyond its first decision: its only caller passes no evidence. It
  is a list of alternatives, which a unit test covers.
* The row locks inside an access decision: a decision is one atomic step. Decisions
  take their locks in one order (owner, request, person, workspace), so that two of
  them do not wait on each other; an insert that PostgreSQL aborts to end a deadlock
  with a revocation's lock is `Abandon`.
* Two workspaces that register one collection at once, and the labels of
  collections.

A next step would be that lock-level detail, refining `AccessControl`; and, when a
caller of the resolver or of the other rules of classification exists, the rows it
writes.
