# Verification of CrowdPay

TLA+ specifications of the parts of CrowdPay that hold, move, promise and
record money, the TLC configurations that check them on small instances, and
theorems about them checked by TLAPS.

CrowdPay is a crowdfunding platform on Stellar. A campaign collects
contributions until a deadline; when the target is met its creator is paid,
milestone by milestone, and when it is not the contributors are refunded. The
money is held either by Soroban contracts (`contracts/soroban`) or by a classic
Stellar account that the creator and the platform sign for together. A Node
backend (`backend/src`) submits contributions, watches the ledger, records what
it sees in Postgres, and drives releases, payouts, upgrades, votes and
notifications.

## 1. Inventory

| component | state it keeps | operations | talks to |
|---|---|---|---|
| Escrow contract (`contracts/escrow`) | balance per contributor, `total_raised`, approvals, failed and refunding flags, the refund snapshot, the fee and a pending fee | initialize, deposit, approve/execute withdrawal, override, refund, fee changes, mark failed | the asset's token contract |
| Milestones contracts (`milestones`, `milestones_v2`) | milestones with status and share, a pause flag | submit, approve, reject, pause, copy from the first | calls the escrow as its admin |
| Migration contract | the platform's address | pause the first milestones contract and let the second copy it | both milestones contracts |
| Treasury contract (`campaign_treasury`) and `contractTreasury.js` | what is booked, parked and executed withdrawals, policy; a row per withdrawal in Postgres | receive, request, approve, auto-refund, pause; request, approve and record in the backend | the token contract; the network, whose answers can be lost |
| Fee registry (`fee_registry`) and `governance.js` | fees, proposals in two copies, votes, deposits of voters; a row per proposal | propose, vote, execute, reclaim, admin set; create, execute, synchronize in the backend | the governance token |
| Contribution submission (`contributionService.js`, `stellarTransactionService.js`, `idempotency.js`, `routes/contributions.js`, `routes/anchor.js`) | idempotency keys with stored answers, transaction intents, anchor deposits, claims in Redis | post, repeat, callback, poll, expiry of keys | Stellar, the anchor |
| Ledger ingestion (`ledgerMonitor.js`, `horizonIngestionWorker.js`) | cursors per wallet, a job queue, live streams, contributions and `raised_amount` | open streams, queue, process, flush cursors, restart | Horizon, Postgres |
| Sponsor matching, campaign status | pools with remaining amount, match amounts; `status` and its events | match a contribution; refresh, run hooks | ingestion |
| Failed campaigns (`campaignStatusActions.js`, `POST /:id/trigger-refunds`) | `refunded` flags, withdrawal requests that refund a contribution | the hook of a failed campaign, an admin's pass | the escrow contract, Postgres |
| Balance reconciliation (`reconciliation.js`) | `raised_amount`, `status`, adjustment rows | a pass every 15 minutes: select, read the wallet, correct | Horizon, ingestion, milestone release |
| Milestone release (`milestoneAutoRelease.js`, `routes/milestones.js`, `routes/disputes.js`) | milestones with claim and auto-release status, attempts with lease and signed envelope | configure, submit, reject, claim, send, look up, recover, approve by hand, dispute | the campaign's Stellar account |
| Payout schedules (`payoutScheduleService.js`) | schedules with next date and count, an advisory lock, withdrawal requests | create, pause, resume, cancel, pass of the worker, denial, dispute | withdrawals |
| Webhook dispatcher | deliveries with status, attempts and leases; dead letters | enqueue, claim, deliver, retry, fail, replay | subscribers over HTTP |
| Withdrawals (`routes/withdrawals.js`) | withdrawal requests with two signatures, events | request, creator sign, platform sign and submit, cancel, expire | Stellar, Postgres |
| Refunds (`refundService.js`, `refundRequestService.js`) | refund requests, reservations, settlement claims | request, review, pay | Stellar, Postgres |
| Contract upgrade, deployment retry | `migration_in_progress`, deployment status | deploy, migrate, retry | Soroban RPC |
| Legacy contract (`crowdpay`), matching pool, contributor identity | campaigns and milestones; a pool; attestations | contribute, release, refund; claim, reclaim; attest | token contract |

The full list, with what is left out and why, is in `PROJECT.json`.

### What is hard

* **Order of calls.** Anyone can call `refund` for anyone at any time after the
  deadline; deposits, releases, overrides, direct transfers and the clock
  interleave with it. Governance tokens change hands between votes.
* **Composition.** The milestones contract commits its own state and calls the
  escrow twice in the same transaction; an upgrade swaps one milestones
  contract for another while the escrow still names the first.
* **Concurrency around awaits.** The backend reads, awaits Horizon or Postgres,
  and writes; ingestion runs ten jobs at once and records cursors as they end;
  a release and a manual approval work on the same milestone.
* **Leases, locks and claims.** A webhook delivery, a release attempt and a pass
  over the payout schedules are each protected by something that expires or
  breaks while its holder goes on.
* **Crashes and lost answers.** A process stops between sending a payment and
  recording it, with a claim, a lease or a flag set; a client, an anchor or a
  poller repeats a call whose answer it never got.
* **Rounding.** Fees, milestone shares and pro-rata refunds are integer
  divisions whose sums must still fit.

`PROJECT.json` lists each such point at its line, with the property that covers
it.

## 2. Running it

```
tlc -workers 2 -config MCEscrow.cfg MCEscrow.tla        # one run
tlapm EscrowProofs.tla                                  # the proofs of a module
```

Every run, with its module, its cfg and what it is expected to show, is in
`PROJECT.json`; so is, for every definition that translates code, the file and
the lines it stands for, and for every checked property a slip (a definition
that a plausible bug would turn the code into) under which TLC refutes it.
Slips stand before the definition they would replace and nothing uses them.

## 3. The modules

| module | what it is |
|---|---|
| `TokenSums` | the total of a balance table, defined without recursion as a cardinality |
| `Escrow` | the escrow contract |
| `CampaignContracts` | the escrow, both milestones contracts and the migration contract, in the wiring the backend deploys |
| `CampaignCustody` | what a campaign promises about its money; `CampaignContracts` implements it |
| `Treasury`, `TreasuryDesk` | the treasury contract; the same beside the backend that calls it |
| `FeeRegistry`, `Governance` | the fee registry contract; the same beside the backend's rows of proposals |
| `LedgerIngestion` | the backend's two pipelines that record the payments of one wallet, the sponsor match and the status changes |
| `ContributionSubmission` | how a contribution gets to the ledger: route, anchor callback, anchor poll, idempotency keys |
| `FailedCampaignRefunds` | what the hook of a failed campaign and an admin's pass do, with the escrow they call |
| `CampaignBalance` | what `raised_amount` is worth: jobs, match, reconciliation and milestone shares of one campaign |
| `MilestoneRelease` | one milestone's release, by the worker or by an approver |
| `PayoutSchedules` | recurring payouts and the workers that raise them |
| `WebhookDelivery`, `WebhookPromise` | one outbound delivery and the workers that race for it; what it promises |
| `TokenSumTheorems` | facts about totals and integer division |
| `EscrowProofs` | the theorems about `Escrow`, `CampaignContracts` and `FailedCampaignRefunds` |
| `PayoutProofs` | those about what the wallet pays out: `PayoutSchedules`, `Treasury` and `TreasuryDesk` |
| `GovernanceProofs`, `WebhookProofs`, `ReleaseProofs`, `IngestionProofs` | those about governance, webhooks, releases and the ingestion |
| `ContributionProofs` | those about `ContributionSubmission` and `CampaignBalance` |
| `MC...` | small instances for TLC |

In all of them a contract call is one action, because it is atomic and a panic
or an error rolls it back: every early return is a guard. Code of the backend is
cut at its awaits, except inside a database transaction whose row locks and
unique keys serialise it with the others, which is one action.

### Escrow

State: one variable per storage key of `DataKey` with its name in the code,
`held` (the escrow's balance in the token contract) and `now` (the ledger
timestamp). History variables (`contributed`, `refundPaid`, `withdrawn`,
`overridden`, `drained`, `direct`, `feesPaid`) record what happened; no
operation reads them. Each entry point is one action. The signatures the calls
require are not modelled as state: whoever may call is assumed to call at any
time. Amounts, fees and addresses come from constant sets, negative and zero
amounts included where the code has to refuse them. Not modelled: storage
lifetimes, events, and the width of `i128` (`TokenSupply` is far below).

### Campaign contracts

`deployCampaignContracts` makes the milestones contract the escrow's admin.
That contract calls only `approve_withdrawal` and `execute_withdrawal`, so in a
deployed campaign nothing can reach the escrow's fee changes, overrides,
`mark_failed` or second signer. `EscrowStep` therefore has deposits, refunds,
direct transfers and the clock only. `ApproveMilestone` is one action with both
escrow calls inside it (`ApproveAndExecute`): they are one transaction.
The first contract is `Admin`; `Successor` is `milestones_v2`, which the escrow
does not obey. `Migrate` pauses the first and copies; `MigrateFromV1` is the
copy alone, which the platform may also call.

`CampaignCustody` is the promise: money is either released, once the target is
met, or given back in full, never both. The refinement maps `released` to
`withdrawn` and `returned` to `refundPaid`.

### Treasury

The vectors `Pending`, `History` and `Contributors` are functions from what the
code searches them by; a zero means no entry. `WithdrawAtOnce`,
`ParkWithdrawal`, `ApproveWithdrawal` and `TriggerAutoRefund` carry the policy checks in
the code's order of guards. `TreasuryDesk` adds `contractTreasury.js`: each
operation is the contract call, which leaves an entry in `answered`, and then the
write of the row; `answered` is what a crash or a lost reply forgets, and calls
that bypass the backend come in between. The history variables `requestedAt` and
`withdrawnAtRefund` remember when an id was given and what had been withdrawn when
the refund was made.

### Fee registry and governance

The contract keeps two copies of a proposal, `PendingProposal` and
`Proposal(id)`; different operations read different ones, so `pending` and
`stored` are both state. The governance token is external: balances that move.
`Governance` adds the rows: `creating`, `finishing` and `syncing` are requests
between their contract call, what they read back, and the row they write;
anybody may call the contract directly meanwhile.

### Ledger ingestion

One wallet, one process, one database. `ledger` is what Horizon holds, a
transaction per payment (a transaction can pay twice); payments are numbered by
their paging token. The database variables are `cursor`, `receipts`, `rows`,
`matchOf`, `matched`, `raised`, `status`, `events`. The process variables are
lost by `Crash`: the worker's `queue`, dedup cache (`seen`), cursors and stream
position, the monitor's replay and stream, the running jobs, pending hooks.

Both pipelines receive each payment. `Start`, `RegisterWallet`,
`WorkerDeliver`, `WorkerReopen` are the worker (`horizonIngestionWorker.js`);
`BeginReplay`, `ReplayNext`, `OpenStream`, `MonitorDeliver`, `Disconnect` the
monitor (`ledgerMonitor.js`). A job is one call of `onPaymentRecord`, cut at its
awaits into three steps: `CheckStatus` reads the campaign, `Record` is the
database transaction, `SaveCursor` saves the cursor and, for a worker's job,
ends it (`Finish`). `TransactionRecorded` is the lookup of the transaction's hash,
which drops the second payment of a transaction (`DroppedAsDuplicate`). Each step has a failing form. `RecordCollides` is the insert
that the unique `tx_hash` refuses because another payment of the transaction was
committed meanwhile. `RefreshStatus` is the hourly update and `RunHook` the
status actions, guarded by `campaign_status_events`.

Abstractions: jobs of one stream for one payment in the same step count as one;
the asset check, reward tiers, referrals and messages are left out, as they
change none of this state. A flush of the worker's cursor is one step, and the
process stops only between steps. One sponsor pledge is modelled.

### Refunds of a failed campaign

`FailedCampaignRefunds` extends `Escrow`: the hook and each admin's request are
passes of their own over the campaign's rows, cut at their awaits. A pass reads
the status (`ReadCampaign`), lists the rows to try (`SelectUnrefunded`), calls
the contract's `refund` for each sender (`ContractPays`, `ContractRefuses`,
`ContractUnreachable`, `AnswerLost`, which stand for the retries of
`refundWithRetry`), marks the row (`MarkRefunded`), and at the end lists what is
left (`SelectLeft`) and queues a withdrawal request for each (`QueueRequests`).
`MarkFails`, `SelectFails`, `QueryFails`, `NotifyFails` and `Crash` are its
faults, bounded by `MaxFaults`. Payments recorded late (`Record`) can turn the
campaign into a funded one in the middle of a pass. A row is one contribution
to the wallet; deposits in the escrow have no row, as the code writes none. Two
history variables name the exceptions of `AnsweredOnce`: `overlapped` is set when
two passes have listed rows together, and `contested` collects the rows that
a pass selected for the escrow while they were queued or listed (`WithQueue`), or
listed while another pass had them at the escrow (`WithEscrow`).

### Balance of a campaign

`CampaignBalance` follows one campaign with a classic wallet through four
writers of its row. A payment is `none`, `paid` (in the wallet), `checked` (a
job has read the status), `recorded` or `dropped`. A pass of the reconciliation
is `SelectCampaign`, which reads `raised_amount`, `ReadBalance`, which asks
Horizon, and `Correct`, the transaction that overwrites the amount and inserts
the difference; `EndPass` stands for every other end. A milestone's amount is
fixed by `Approve`; `Land` takes it out of the wallet, `Finalize` writes the
milestone and the status. `ReleaseAmounts` is `toFixed(7)`: the nearest stroop,
either neighbour at a tie. `counted` and `doubled` remember payments that a
correction has counted before their job did, `stale` a correction that replaced
another amount than it had read, `lowered` one that took a payout for missing
money. Left out: quarantined payments (subtracted from the balance read),
several pledges, withdrawals, whose pending request makes a pass skip.

### Contribution submission

`calls` are the requests under way: a POST with an idempotency key, an anchor's
callback, a client's poll. All three end in `submitCustodialContribution`, whose
awaits are the steps `select`, `insert`, `submit`, `resubmit`, `again`, `undo`,
`mark`, `record`. For the route these lie inside one database transaction, so
the row of the intent is visible to others only after its `COMMIT` (`accept`);
for the anchor each query commits by itself. `paid` counts the payments a call
has made on the ledger, which survive everything; `keys`, `events`, `deposits`
and `rows` are the middleware's table, the Redis claims, the anchor sessions and
`stellar_transactions`. Whether a call is declined by its policy checks is an
input.

### Milestone release

One milestone, one row of `milestone_auto_release_attempts`, the campaign's
account with its sequence number. A signed transaction is an envelope: the round
of evidence whose destination it pays, its sequence number, and who built it.
`network` holds the envelopes that may still land, `landed` those that paid,
`spent` those that failed on the ledger, `late` those past their `maxTime`.
Of the envelopes with one sequence number at most one lands: that is the only
thing the ledger contributes, and everything else has to follow from the rows.
A worker goes through `check`, `build`, `store`, `mark`, `send`, `ask`, `look`,
`recheck`, `fail` and `finalize`; `Recover` takes up an attempt whose lease is
over, also from a worker that is merely slow (`overtaken`). An approver keeps
his envelope in memory. Horizon is assumed to show a transaction that has landed
when it is asked; the milestones contract's own release is left out.

### Payout schedules

A worker takes the advisory lock, reads the schedules that are due, and for
each of them checks the funds (`CheckFunds`) and raises the request in a later
step (`RaiseRequest`), writing the schedule from the row it read at first. `LoseLock` is the
broken connection after which a second worker runs beside the first;
`overtaken` marks schedules that a resume or a stale write has moved, `returned`
requests that came back from a dispute. Dates are natural numbers, a cadence one
step of them, and an occurrence is a pair of schedule and date, as the
idempotency keys of the code are.

### Webhook delivery

Each statement of `runDelivery` on the database is an action of a worker, and
the worker may stop between any two. `due` stands for every time comparison of
the claim (retry time, lease, age of a pending row): it becomes true some time
after it was reset. `WebhookPromise` is the abstract view: a number of attempts,
an outcome, a fresh number with a replay, no way back from delivered. The
refinement maps a delivery to its outcome and to the attempts it has left.

## 4. The runs

| run | instance | what it shows |
|---|---|---|
| `escrow` | 2 contributors with deposits of 4 and 5, target 9, a release of 3, an override of 2, a direct token, fees of 10 and a refused 15 per cent; 10 tokens; times before, at and after the deadline | `TypeOK`, `BooksAgree`, `RefundsSolvent`, `RefundsAreFair`, `ClosedIsFinal`, `EveryContributorRefunded` |
| `campaign_contracts` | 2 contributors, milestones of 35 and 65 per cent, target 8, 11 tokens, pauses, deployments and migrations at any time | `CampaignTypeOK`, `ReleasesAreSound`, `ImplementsCustody` |
| `treasury` | 2 contributors, goal 7, 8 tokens, 3 withdrawals, a history of 2, 3 policies of which one is refused, a custodial limit | `DeskTypeOK`, `WithdrawalsAreSound`, `ParkedUntilPaid` |
| `governance` | 2 holders with 3 tokens, 2 proposals, one of them above the cap, one change by the admin | `GovernanceTypeOK`, `VotingIsSound`, `ProposalRowsAreReal`, `EveryChangeHasACause` |
| `ingestion` | 2 payments, perhaps of one transaction, 2 jobs at once, one fault of any kind | `IngestionTypeOK`, `RecordsAgree`, `RecordedUnlessFaulty`, `CursorFollowsSuccess` |
| `restart_replays` | the same with a crash | refutes `EveryPaymentRecorded` |
| `contributions` | 3 calls of any kind, 1 key, 1 deposit, one failure, one crash, one expiry | `SubmissionTypeOK`, `PaidOncePerKey`, `AnswersAreTrue` |
| `payouts` | 2 workers, one schedule over 4 dates, funds for one payment, a lock that may be lost, 2 denials | `PayoutTypeOK`, `PayoutsAreSound` |
| `milestone_release` | 2 overlapping passes, an approver, 2 rounds of evidence, a dispute or a foreign transaction, a stop or a lost lease | `ReleaseTypeOK`, `PaidOnce`, `RowsTellTheLedger`, `StoppedRoundsStayUnpaid`, `AttemptsSettle` |
| `webhooks` | 2 workers, 2 attempts, a replay, a revocation, a worker that dies or loses the database | `WebhookTypeOK`, `AttemptsAreAccounted`, `KeepsPromise`, `EventuallySettled` |
| `failed_refunds` | 2 payments of one contributor to the wallet, deposits of 2 contributors in the escrow, target 9, the hook and one admin, 2 faults | `RefundsTypeOK`, `AnsweredOnce`, `EveryRowIsAnswered` |
| `campaign_balance` | payments of 3, 7 and 4, target 10, a pledge of 2, milestones of 35 and 65 per cent, 2 passes | `BalanceTypeOK`, `RaisedIsExplained`, `ReleasesAreFair` |

Some of these properties are conjunctions of named parts: `WithdrawalsAreSound`
is the treasury's policy and the agreement of contract, history and rows,
(`CooldownBeforeRequest` binds every request to the cooldown, `CooldownUnlessAudited`
every payment but those an auditor released; `NeverOverdrawn` bounds the
withdrawals, and the refund with the withdrawals before it, by what was booked),
`VotingIsSound` that votes are tokens and that one proposal is open at a time,
`PayoutsAreSound` that a date pays once and not early and that the funds suffice,
`AnsweredOnce` that a row is queued once (`QueuedOnce`), that a mark stands for a
payment of its own (`MarkedOnce`) and that no row has both (`OneRemedy`),
`AttemptsAreAccounted` that requests are bounded and outcomes recorded,
`RaisedIsExplained` that rows add up (`RowsAddUp`) and that the amount was earned,
doubly counted payments included (`RaisedIsEarned`), `ReleasesAreFair` that each release is its share
(`SharesAreKept`) and that together they are backed (`ReleasesAreBacked`).

**Why the bounds are enough.** What a bound leaves open is closed by the
theorems wherever there are some, as they hold for every value of the
constants. Otherwise: in the campaign, a deposit of -1 must be refused, 3 and 5
reach the target of 8 in more than one way and leave 35 and 65 per cent with
remainders. In the treasury, 3 requests over a history of 2 reach the full
history with one withdrawal still parked; the policies differ in every check
(hold, percentage with cooldown, auditor threshold), and the third is refused
by `initialize`. In ingestion, two payments are what it takes for jobs to end out
of order and for one transaction to pay twice; the target of 6 with amounts 2
and 3 and a pledge of 3 is crossed by a contribution in one order and by the
match in another; a second fault starts from a state that one already reaches.
In the submission, three calls are a first attempt, its repetition, and one that
meets both; each fault alone already separates the payment from its row. For a
release, one worker overtakes another, and two rounds make a stale destination
differ from the present one. In `failed_refunds`, two rows of one sender are what
it takes for the contract to pay both at once and refuse the second; two passes
overlap, and two faults let one fail after the other has recovered. In
`campaign_balance`, 3 and 7 reach the target without the match and 7 and 4 with
one payment late, and two passes allow a correction before and after a payout.

No run checks for deadlock: a campaign that has paid everybody out at the last
considered moment, a wallet whose payments are all recorded, a delivery that is
settled or a milestone that is released may stop.

**Fairness.** `escrow` assumes that time passes and that each contributor (or
anybody for them, as `refund` is open to all) keeps calling `refund`; nothing is
assumed of the admin. `ingestion` assumes that the
process's event loop does not stop while something is ready: a delivery, a
continuation, the flush timer, a hook. It assumes nothing of payments, the
deadline, the hourly refresh, failures or crashes; a broken stream is always
reopened because `onerror` schedules it. `webhooks` assumes that waits end, that
each instance polls (`setInterval`), and that a worker goes on unless it dies.
`milestone_release` assumes that envelopes expire (they carry a `maxTime`) and
that, while an attempt is in flight, some pass goes on with it or a later one
takes it up (the job runs every minute); approvers may stop anywhere.
`failed_refunds` (`FairRefundsSpec`) assumes that an await of the hook ends, well
or badly; it assumes nothing of admins, late payments or the faults, and the
property excepts a hook that a fault has stopped. `campaign_balance` has no
liveness property: nothing in the code promises that a discrepancy is found
before the next payout.

## 5. What is proved

| module | theorem | states |
|---|---|---|
| `EscrowProofs` | `Invariance` | the inductive invariant |
| | `TypeCorrect` | `TypeOK` |
| | `CountersAgree` | `BooksAgree` |
| | `Solvency` | `RefundsSolvent` |
| | `RefundsFair` | `RefundsAreFair` |
| | `FailureIsFinal` | `ClosedIsFinal` |
| | `CampaignTypeCorrect` | `CampaignTypeOK` |
| | `ReleasesSound` | `ReleasesAreSound` |
| | `CustodyImplemented` | the refinement `ImplementsCustody` |
| | `RefundsTypeCorrect` | `RefundsTypeOK` |
| | `RowsAnsweredOnce` | `AnsweredOnce` |
| `GovernanceProofs` | `DeskCallsRegistry` | `DeskSpec => Spec` of the contract |
| | `DeskTypeCorrect` | `GovernanceTypeOK` |
| | `VotingSound` (from `TokensVoteOnce`, `OneProposalAtATime`) | `VotingIsSound` |
| | `ChangesHaveCauses` | `EveryChangeHasACause` |
| | `RowsAreReal` | `ProposalRowsAreReal` |
| `WebhookProofs` | `TypeCorrect` | `WebhookTypeOK` |
| | `AttemptsAccounted` (from `RequestsAreBounded`, `OutcomesRecorded`) | `AttemptsAreAccounted` |
| | `PromiseKept` | the refinement `KeepsPromise` |
| `PayoutProofs` | `TypeCorrect` | `PayoutTypeOK` |
| | `PayoutsSound` (from `PaymentsFollowSchedule`, `FundsAreKept`) | `PayoutsAreSound` |
| | `DeskTypeCorrect` | `DeskTypeOK` |
| | `WithdrawalsSound` | `WithdrawalsAreSound` |
| | `ParkedStaysPayable` | `ParkedUntilPaid` |
| `ReleaseProofs` | `TypeCorrect` | `ReleaseTypeOK` |
| | `MilestonePaidOnce` | `PaidOnce` |
| | `RowsAreTrue` | `RowsTellTheLedger` |
| | `StoppedStayUnpaid` | `StoppedRoundsStayUnpaid` |
| `ContributionProofs` | `SubmissionTypeCorrect` | `SubmissionTypeOK` |
| | `PaidOnce` | `PaidOncePerKey` |
| | `AnswersTrue` | `AnswersAreTrue` |
| | `BalanceTypeCorrect` | `BalanceTypeOK` |
| | `RaisedExplained` | `RaisedIsExplained` |
| | `ReleasesFair` | `ReleasesAreFair` |
| `IngestionProofs` | `IngestionTypeCorrect` | `IngestionTypeOK` |
| | `ContributionsAddUp` | `RecordsAgree` without `NothingLost`, for any wallet |
| | `RecordsAgreeAlways` | `RecordsAgree`, for a wallet with a cursor |
| | `CursorSound` | `CursorFollowsSuccess` |

Every theorem holds for all values of the constants that the named assumptions
of its module allow: finite sets of parties, natural amounts and bounds, and for
governance a voting period of at least one unit. The bounds that make a model
finite for TLC are arbitrary naturals here. The shares of a campaign's milestones
add up to the whole, as `initialize` demands; the successor is another contract
than the first (`ContractsAssumption`); and `None`, the NULL of the database, is
no key, call or answer (`NamesAssumption`).

**Escrow.** `RefundsSolvent` alone is not inductive: a refund pays
`balance * pool / base` and lowers `total_raised`, and only because the division
rounds down does `(held + drained) * base >= total_raised * pool` survive; and
that needs `total_raised` to be the sum of the balances. `IInv` therefore
conjoins the types, the sums, `SnapshotBook` (the snapshot is taken with the
first refund, promises at most what it is shared over, and misses exactly what
left before) and `ShareBook` (everyone is untouched, or was paid the share of
the snapshot). Fair refunds are consequences of the last two: shares are monotone
in contributions, and with nothing released pool and base are equal.

**Campaign contracts.** `CampaignInv` adds to `IInv` that the escrow is left
alone by everything the backend does not wire to it (`EscrowLeftAlone`), that
what was withdrawn is the sum of what approvals released (`ReleasesRecorded`),
that releasing and refunding exclude each other because one needs the target
met by what was contributed and the other needs it missed (`OneOutcome`), and
that each release is within its milestone's share (`ReleasedWithinShare`); the
shares sum to 100 per cent, so that together the releases are at most what was
raised. `ApproveMilestone` is proved as its two escrow calls in a row. The
refinement has one case per way in which the custody changes: contributions,
releases, refunds and everything else, which stutters.

**Refunds of a failed campaign.** Every step of the passes is a refund of the
escrow or leaves it alone (`DeskMovesEscrow`), so `IInv` carries over. The escrow
pays a contributor once; therefore a row marked, or about to be marked, has a
sender whose balance is gone (`MarksAreEarned`), and no two of them share one
(`OneMarkEach`). `ListedOnce` is the other half: while no two passes have listed
rows together, one list exists at a time, and its rows have no request yet.
`OneWayBook` relates the two: a row that is marked, or that a pass still tries at
the escrow, has no request and is on no list, unless it is contested; only the two
selections bring rows in, and they add to `contested` what they find on the other
side.

**Treasury.** Ids are given in order, so a new request cannot take the place of
a parked one (`IdsInOrder`); executed withdrawals have times, the last of which is
remembered, as is when each id was given, and what is parked waited for the hold
(`TimesRecorded`): from these each request and each payment satisfies the policy as
far as the code checks it then (`PolicyKept`). `AccountsAgree`
relates totals, rows of the contract and rows of the database, and needs that an
answer not yet written down is about something that happened
(`AnswersAreReal`) and that nothing was returned before the refund.

**Governance.** `CopiesAgree` relates the two stored copies of a proposal and
says that the pending one is the last. `VotesMatchDeposits` says that an open
proposal counts exactly what is locked for it; the lemma `SupplyStays` that no
step makes or burns tokens, so that votes, which are deposits while the proposal
is open, are bounded by what exists. For the rows, `DeskInv` adds `SyncIsReal`
(a copy that was read is not ahead of the proposal) and `RequestsAreReal` (an
execute request finds its own proposal, or a next one that nobody can have
executed, `NothingElseExecuted`: this is where the voting period must be at
least one, and where time must not pass while a request is open).

**Webhooks.** `RequestsCounted` bounds the requests, those sent and those about
to be sent, by the attempts counted since the last replay; `SettledRight` says
that a success still to be logged, or logged, belongs to a delivered row and that
what is being delivered has been attempted; a delivered row stays delivered
(`DeliveredStays`). The refinement has one step per action of the worker.

**Payout schedules.** `HeldApart` says that a worker holds one row of a schedule
at most, `LockRespected` that nobody works without the lock until it has been
lost, `PaidOnce` that the request and the run of a date come together,
`AllCounted` that a schedule that was not overtaken counts its runs and that the
rows workers hold are the present ones, `NoneEarly` that the dates of the rows
workers hold have come, `FundsKept` that what is pending, with
what a worker is about to raise, is covered. Sums over occurrences are
`TokenSums` totals.

**Milestone release.** `IInv` conjoins the types with five parts that hold
always: `RoundBook` (a submission begins a round nobody has stopped yet, and the
attempt copies one that was not disputed), `EnvelopeBook` (all that the worker
sends is the attempt's one envelope), `ApproverBook`, `LedgerBook` (a sequence
number is taken once, and no envelope waits for one further than the next) and
`RowBook` (an attempt in flight keeps the milestone claimed; what is released or
confirmed was paid). Two more hold while no worker has been overtaken:
`AttemptBook` (one worker is at the attempt, each of its steps has its place, and
the envelope of a failed attempt can no longer land) and `ManualBook` (an
approver who has claimed the milestone, or the payment he left behind, has it for
himself, and there is one such payment). Each part has a step lemma, with one
case per action. What an overtaken worker may do is described in section 6.

**Ledger ingestion.** `Placed` says that cursors, streams, jobs and the queue
point to payments that exist and that the worker keeps its limit. `RecordBook` is
what the recording transaction writes: with the receipt, the row, the match, the
total and the status in one step, each part of it is kept by the others, and it
needs nothing of the process. `DoneBook` says that what a job comes to save, or
the worker is about to flush, is dealt with; as what is recorded or dropped stays
so, the cursor follows success. `NothingLost` is not inductive: the payments that
nobody has in hand must also be beyond every cursor, stream, job and queue and
unknown to the worker, for each of these may become where a stream starts again.
`SightBook` says so, with what connects the monitor and the worker (`Watched`). It
assumes a wallet whose row in `ledger_stream_cursors` exists (`InitialCursor = 0`):
without one the streams start at `now` (`ledgerMonitor.js:877`), and payments
made before are seen by nobody.

**Contribution submission.** `CallBook` says what a call at each step has paid and
committed. `HoldBook` is the mutual exclusion of the keys: a call of the route
that has claimed its key has it for itself until it ends; so all answers of one
life of a key are the one its holder gave (`ReplyBook`). `RowBook` is the same for
the intents: of the calls with one key one has a row, and while one of the route
is sending there is none. Two payments with one key therefore mean a payment
without a row, and a call of the route that makes its only payment, with no
failure or crash, leaves a row: what remains are the exceptions that
`PaidOncePerKey` names. `TruthBook` carries a payment that somebody may be told
of, from the ledger through the row and the call to the stored answer, its
repetitions and the deposit.

**Balance of a campaign.** `raised <= Worth` is not inductive, as a correction
may have counted payments whose jobs are still to come. `RaisedIsBacked` says
that `raised_amount` is at most the sum of what is recorded or was counted by
the last correction, the matches, and what was counted twice; a job that records
a counted payment moves it from the second to the fourth. It rests on
`PassIsSound` (what a pass has read lies in the wallet) and `Solvent` (what
landed was in the wallet). `BaseStands` gives the lower bound of the shares.
That the releases together are backed is arithmetic on sums: each is its share
to half a stroop (`SharesAreKept`), the shares add up to 100 at most, and totals
are linear (`TotalPlus`, `TotalScale`, `TotalConst`).

`TokenSumTheorems` has the facts they share: a total changes by what one entry
changes (`TotalUpdate`), is at least each entry, is linear and monotone, and
rounding down is monotone.

Only model-checked: every liveness property (fairness and `ENABLED` are beyond
the prover).

## 6. Where the code and its documents disagree

Shown by a run:

* `restart_replays`: jobs end out of order, each saving its own cursor; after a
  crash what lies before the saved cursor is not replayed.

Seen while modelling, in the models as the code has it, and where a property
needs an exception, named in it. Contracts:

* `admin_override_withdrawal` can take tokens from a refund pool that the first
  refund has fixed; the last contributors' `refund` then panics (unreachable in
  the wiring the backend deploys). This is the `drained` of `RefundsSolvent`.
* What is deposited after a milestone was approved is not part of its release;
  with all milestones approved it stays in the escrow.
* `reject_milestone` of the first contract ignores the pause flag
  (`milestones/src/lib.rs:189`, against its comment at 90); `refund` succeeds at
  the deadline itself while `deposit` still accepts (`escrow/src/lib.rs:410` and
  142, against the contract README, line 136).
* The cooldown of the treasury is checked when a withdrawal is requested and not
  when the auditor approves it (`campaign_treasury/src/lib.rs:262`): an audited
  withdrawal can follow any other at once. `CooldownUnlessAudited` excepts it.
* `trigger_auto_refund` leaves `total_withdrawn` as it is
  (`campaign_treasury/src/lib.rs:391-411`), so that the balance it has paid back
  still counts as available. When tokens arrive that nobody booked, a withdrawal
  after the refund pays it again: with 5 booked, 8 held and 5 refunded, 3 can still
  be withdrawn. `NeverOverdrawn` counts with the refund only what was withdrawn
  before it (`withdrawnAtRefund`).
* After an upgrade (`contractUpgrade.js:64-134`) the escrow still obeys the first
  milestones contract, the only admin it ever had (`sorobanService.js:610`): the
  successor's `approve_milestone` (`milestones_v2/src/lib.rs:158-159`) fails in
  the escrow, and the first is paused.

Ingestion:

* A failed recording is logged and the cursor moves on; `CursorFollowsSuccess`
  excepts it. A target reached by the sponsor's match runs no hook. A payment
  checked while the campaign was active turns a failed campaign into a funded
  one, and both hooks run. A failing query of the sponsor match aborts the
  transaction it shares with the contribution (`ledgerMonitor.js:619`, against
  `docs/sponsor-matching.md:99`).
* A transaction that pays the wallet twice is credited once: the second payment
  finds the hash of the transaction in `contributions` and is taken for a duplicate
  (`ledgerMonitor.js:471-478`), with nothing logged. Its amount never reaches
  `contributions` or `raised_amount`. `RecordedUnlessFaulty` names it
  (`DroppedAsDuplicate`).
* A contribution in contract mode goes into the escrow
  (`contributionService.js:284-303`) and into no table: `recordConfirmedContribution`
  is called for payments to the wallet alone (`ledgerMonitor.js:405`, against its
  comment at 428-430). `raised_amount` stays 0, the reconciliation skips such
  campaigns (`reconciliation.js:206`), and the refresh fails a campaign that has
  its target in the contract, which then refuses refunds.

Refunds of a failed campaign:

* The contract pays a sender's whole deposit at the first of his rows; a wallet
  row of a sender who also deposited is marked refunded though only the deposit
  came back (`campaignStatusActions.js:327`).
* Two overlapping passes can queue two requests for one row: nothing in
  `withdrawal_requests` is unique per contribution. `AnsweredOnce` excepts rows
  that two passes listed together (`overlapped`).
* A row can be both queued and marked refunded. When the escrow refuses or is out
  of reach, a pass queues the row; the next pass selects it again, because
  `refunded` is all that its query looks at (`campaignStatusActions.js:293-295`),
  and now the escrow pays. The same comes of a pass that lists the row between
  another pass's payment and its mark. `AnsweredOnce` excepts these (`contested`).
* When the answer of a refund is lost, the retry is refused and the row is queued
  although the escrow paid its sender (`campaignStatusActions.js:256-275`); so is a
  row whose mark is not written (356-365). No property excludes it.
* The event row of the hook is written first, so that a failing e-mail or a crash
  ends it for good; an admin's request is then the only way to the refunds.

Reconciliation:

* A correction counts a payment that is in the wallet and not yet recorded; its
  job counts it again (`doubled`), and the campaign can become funded below its
  target until the next pass. `Worth` names this.
* The update has no condition on the amount it replaces (`reconciliation.js:100-108`):
  a job that commits in between is overwritten while its row stays (`stale`),
  against the migration's "always equals"
  (`20260626_reconciliation_adjustment_contribution.sql:4-6`).
* Sponsor matches are credited to `raised_amount` and never arrive in the wallet:
  a pass takes them off again, and the rows then differ from the total by them.
* A release whose attempt is in flight has no withdrawal request yet, and a late
  job can turn `in_progress` back into `funded`: a pass then subtracts a payout
  from `raised_amount`, and the later milestones get a share of less (`lowered`;
  `milestoneAutoRelease.js:479`).
* A campaign that a correction makes funded gets none of the actions of that
  status.

Submission:

* A path payment refused for its maximum is tried again, and after the second try
  has succeeded it is sent once more, as the counter is not raised
  (`contributionService.js:364-378`, 418-422, against the comment at 323-325).
* The route keeps the row of the intent inside the transaction of the request,
  so that a crash or a lost reply leaves a payment without a row, and the client's
  retry pays again (against `contributionService.js:219-222` and
  `stellarTransactionService.js:3-9`); `PaidOncePerKey` excepts exactly this.
* A poll of a deposit (`anchor.js:652`) has no key: beside a callback it pays the
  deposit twice. A repeated callback can find the row of a failed attempt and
  record `contribution_submitted` without a transaction. The claim in Redis is
  made per transaction, so that `completed` after `pending` counts as a duplicate.
* A crash leaves an idempotency key `processing` for the 24 hours it lives.

Payouts:

* The worker and a resume write the row they read before, over a cancellation or
  a pause in between; a stale resume can set the date back, so that a later pass
  counts a payout that its key forbids; requests on hold are not counted in the
  funds. `overtaken` and `returned` name these. A resume revives a completed
  schedule; the campaign's status and disputes are not looked at.

Milestone release:

* After its lease was taken over, a worker that had prepared its envelope still
  sends it, because `markSubmitted`'s answer is ignored; if the attempt was failed
  meanwhile, an approver can pay a second time (against
  `milestoneAutoRelease.js:21-27`). All properties that need it except
  `overtaken`.
* A manual approval pays the destination it read before its claim. Any failure
  after the claim leaves `claimed_at` set. Votes outlive a rejection. A dispute
  between a submission's checks and its transaction leaves the release scheduled,
  and one that comes after the worker's last check does not stop the payment:
  `StoppedRoundsStayUnpaid` speaks of rounds disputed while they were scheduled.

## 7. What is not modelled, and the plan

`PROJECT.json` gives the status and the reason for every component. The backend
and contracts are about a third of the repository's source; the rest is the React
client, which holds no state of its own that money depends on, and routes that
validate and query. Pure I/O (email, the RPC client), heuristics (fraud scores)
and reports stay out, and so do paths that cannot run in the deployed schema:

* `refundService.processRefund` selects ambiguous columns, so that every call
  ends in an SQL error;
* the worker of recurring contributions sets a status that the table's CHECK
  refuses (`20260926_subscription_campaign_closure.sql:16-17`);
* the platform's approval of a withdrawal sets one that a CHECK refuses
  (`20260824_dispute_arbitrator_resolution.sql:44-50`), and so does the event that
  the creator's share is logged with.

A model of these would show what happens after a statement that never succeeds.

Hazards seen and not covered: the width of `amount * bps` (`escrow/src/lib.rs:321`);
the reconnect counter, a wallet without a cursor, hooks lost in a crash, the
split of a match over pools (`ledgerMonitor.js:74`, 877, 752, 742, 628, 717); the
job dropped above 1.2 times the queue limit (`horizonIngestionWorker.js:253`);
delegated votes that are logged and not counted (`governance.js:294`).

What a continuation would take up, in this order:

1. Ingestion further: backfills requested by an operator, the queue at its
   limit, several pledges.
