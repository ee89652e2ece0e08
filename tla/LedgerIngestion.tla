-------------------------- MODULE LedgerIngestion -------------------------
(***************************************************************************)
(* How the backend records the payments that arrive in one campaign's      *)
(* wallet (backend/src/services/ledgerMonitor.js and                       *)
(* horizonIngestionWorker.js), with the sponsor match made in the same     *)
(* database transaction and the status changes that race with it.          *)
(*                                                                         *)
(* Horizon delivers payments in order from a cursor.  Two pipelines of one *)
(* process receive each of them: the worker queues a payment and runs up   *)
(* to Concurrency jobs at once; the monitor replays what it missed one by  *)
(* one and then starts a job for every payment of its own stream.  A job   *)
(* is onPaymentRecord, cut at its awaits: it reads the campaign's status,  *)
(* commits the contribution, and saves the cursor.  The database survives  *)
(* a crash; queues, jobs, streams and pending hooks do not.                *)
(*                                                                         *)
(* Payments are numbered by paging token.  Payments of other assets and    *)
(* events that are no payments to the wallet change no state here.  Jobs   *)
(* of one stream for one payment in the same step count as one: the later  *)
(* one could only find the receipt of the earlier.                         *)
(***************************************************************************)
EXTENDS TokenSums, Sequences

CONSTANTS
  NPayments,      \* bound: the payments ever made to the wallet
  AmountOf,       \* the amount of each
  Target,         \* the campaign's target_amount
  Pledge, Ratio,  \* one sponsor's pledge_amount and match_ratio
  Concurrency,    \* HORIZON_INGESTION_CONCURRENCY
  InitialCursor,  \* what ledger_stream_cursors holds at first
  MaxFailures,    \* bound: database and REST calls that fail
  MaxMatchFailures, \* bound: failures inside processContributionMatch
  MaxDisconnects, \* bound: streams that break
  MaxCrashes,     \* bound: crashes of the process
  MaxFaults       \* bound: the four together

Payments == 1 .. NPayments
NoCursor == -1
Closed == -1

ASSUME PaymentsAssumption ==
  /\ NPayments \in Nat
  /\ AmountOf \in [Payments -> Nat \ {0}]
ASSUME CampaignAssumption ==
  Target \in Nat \ {0} /\ Pledge \in Nat /\ Ratio \in Nat \ {0}
ASSUME LimitsAssumption ==
  /\ Concurrency \in Nat \ {0} /\ InitialCursor \in {NoCursor, 0}
  /\ {MaxFailures, MaxMatchFailures, MaxDisconnects, MaxCrashes,
      MaxFaults} \subseteq Nat

VARIABLES
  ledger,         \* the payments made: the transaction of each
  (* the database *)
  cursor,         \* ledger_stream_cursors.last_cursor
  receipts,       \* ledger_event_receipts
  rows,           \* how often each payment is in contributions
  matchOf,        \* contributions.match_amount
  matched,        \* campaign_matches.matched_amount
  raised, status, \* of the campaign
  events,         \* campaign_status_events
  (* the process *)
  queue, jobs,    \* the worker's queue; the calls of onPaymentRecord
  seen,           \* the worker's dedupCache
  workerCursor,   \* the worker's cursors
  pending,        \* the worker's pendingCursors
  workerAt,       \* the last payment the worker's stream delivered
  monitor,        \* what watchCampaignWallet is doing
  replayAt, replayTo, \* its replay: the last payment done, the last fetched
  monitorAt,      \* the last payment its stream delivered
  hooks,          \* status actions about to run
  (* history *)
  skipped,        \* payments dropped because the campaign was closed
  failures, matchFailures, disconnects, crashes

database == <<cursor, receipts, rows, matchOf, matched, raised, status>>
announcements == <<events, hooks>>
worker == <<queue, seen, workerCursor, pending, workerAt>>
streams == <<monitor, replayAt, replayTo, monitorAt>>
bounds == <<failures, matchFailures, disconnects, crashes>>
vars == <<ledger, database, announcements, worker, jobs,
          streams, skipped, bounds>>

onLedger == Len(ledger)
OpenStatuses == {"active", "funded"}
(* contributions holds the tx_hash of payment p, for p or for another. *)
TransactionRecorded(p) ==
  \E q \in 1 .. onLedger : p <= onLedger /\ ledger[q] = ledger[p] /\ rows[q] > 0
Job(via, p) == [via |-> via, payment |-> p, step |-> "check"]
MoreFaults == failures + matchFailures + disconnects + crashes < MaxFaults
Smaller(a, b) == IF a < b THEN a ELSE b

---------------------------------------------------------------------------
Init ==
  /\ ledger = <<>>
  /\ cursor = InitialCursor /\ receipts = {}
  /\ rows = [p \in Payments |-> 0] /\ matchOf = [p \in Payments |-> 0]
  /\ matched = 0 /\ raised = 0 /\ status = "active" /\ events = {}
  /\ queue = <<>> /\ jobs = {} /\ seen = {} /\ workerCursor = NoCursor
  /\ pending = NoCursor /\ workerAt = Closed
  /\ monitor = "down" /\ replayAt = 0 /\ replayTo = 0 /\ monitorAt = 0
  /\ hooks = {} /\ skipped = {}
  /\ failures = 0 /\ matchFailures = 0 /\ disconnects = 0 /\ crashes = 0

(* A transaction can pay the wallet more than once. *)
Pay ==
  /\ onLedger < NPayments
  /\ \/ ledger' = Append(ledger, onLedger + 1)
     \/ ledger # <<>> /\ ledger' = Append(ledger, ledger[onLedger])
  /\ UNCHANGED <<database, announcements, worker, jobs,
                 streams, skipped, bounds>>

---------------------------------------------------------------------------
(* The streams.  Where one starts: after the cursor, or `now' without one. *)
(* Slip: a stream starts at `now' whatever the cursor says.                *)
StartAtNow(c) == onLedger

StartAfter(c) == IF c = NoCursor THEN onLedger ELSE c

(* Take jobs off queue q, beside the jobs js that run already. *)
ProcessQueue(q, js) ==
  LET busy == Cardinality({j \in js : j.via = "worker"})
      taken == Smaller(Len(q), Concurrency - busy)
  IN /\ queue' = SubSeq(q, taken + 1, Len(q))
     /\ jobs' = js \cup {Job("worker", q[i]) : i \in 1 .. taken}

WorkerDeliver ==
  LET p == workerAt + 1 IN
  /\ workerAt # Closed /\ workerAt < onLedger
  /\ workerAt' = p
  /\ seen' = seen \cup {p}
  /\ IF p \in seen THEN UNCHANGED <<queue, jobs>>
                   ELSE ProcessQueue(Append(queue, p), jobs)
  /\ UNCHANGED <<ledger, database, announcements,
                 workerCursor, pending, streams, skipped, bounds>>

(* The elements of a finite set of numbers, the smallest first. *)
InOrder(S) ==
  [i \in 1 .. Cardinality(S) |->
     CHOOSE p \in S : Cardinality({q \in S : q <= p}) = i]

(* The worker learns of the payments after cursor c, those up to `fetched' *)
(* from a replay and the later ones from its new stream.                   *)
Missed(c, fetched) ==
  InOrder({p \in StartAfter(c) + 1 .. fetched : p \notin seen})
Listen(c, fetched) ==
  /\ seen' = seen \cup StartAfter(c) + 1 .. fetched
  /\ workerCursor' = IF c = NoCursor THEN NoCursor ELSE fetched
  /\ workerAt' = fetched

(* start() takes up the wallets of open campaigns, loads their cursors and *)
(* replays.  What it queues waits for the next payment or the end of a     *)
(* job: processQueue returns at once while the worker is starting.         *)
Start ==
  /\ monitor = "down" /\ status \in OpenStatuses
  /\ queue' = Missed(cursor, onLedger)
  /\ Listen(cursor, onLedger)
  /\ monitor' = "waiting"
  /\ UNCHANGED <<ledger, database, announcements, pending,
                 jobs, replayAt, replayTo, monitorAt, skipped, bounds>>

(* watchCampaignWallet first registers the wallet with the worker, which   *)
(* goes on from what it knows, or else from the database.                  *)
Register(fetched) ==
  LET known == IF workerCursor = NoCursor THEN cursor ELSE workerCursor IN
  /\ monitor = "waiting"
  /\ monitor' = "connecting"
  /\ Listen(known, fetched)
  /\ IF Missed(known, fetched) = <<>>
     THEN UNCHANGED <<queue, jobs>>
     ELSE ProcessQueue(queue \o Missed(known, fetched), jobs)
  /\ UNCHANGED <<ledger, database, announcements, pending,
                 replayAt, replayTo, monitorAt, skipped>>

RegisterWallet == Register(onLedger) /\ UNCHANGED bounds

(* The request fails; the stream will deliver what is missing. *)
RegisterUnreplayed ==
  LET known == IF workerCursor = NoCursor THEN cursor ELSE workerCursor IN
  /\ failures < MaxFailures /\ MoreFaults
  /\ failures' = failures + 1
  /\ Register(StartAfter(known))
  /\ UNCHANGED <<matchFailures, disconnects, crashes>>

(* After an error the worker reopens its own stream at its own cursor. *)
WorkerReopen ==
  /\ workerAt # Closed
  /\ disconnects < MaxDisconnects /\ MoreFaults
  /\ disconnects' = disconnects + 1
  /\ workerAt' = StartAfter(workerCursor)
  /\ UNCHANGED <<ledger, database, announcements, queue,
                 seen, workerCursor, pending, jobs, streams, skipped,
                 failures, matchFailures, crashes>>

MonitorStep(to) ==
  /\ monitor' = to
  /\ UNCHANGED <<ledger, database, announcements, worker,
                 skipped>>

(* Fetch what came after the saved cursor; a failing request is skipped. *)
BeginReplay ==
  /\ monitor = "connecting"
  /\ IF StartAfter(cursor) < onLedger
     THEN /\ MonitorStep("replaying")
          /\ replayAt' = cursor /\ replayTo' = onLedger
     ELSE MonitorStep("opening") /\ UNCHANGED <<replayAt, replayTo>>
  /\ UNCHANGED <<jobs, monitorAt, bounds>>

ReplayFails ==
  /\ monitor = "connecting"
  /\ failures < MaxFailures /\ MoreFaults
  /\ failures' = failures + 1
  /\ MonitorStep("opening")
  /\ UNCHANGED <<jobs, replayAt, replayTo, monitorAt, matchFailures,
                 disconnects, crashes>>

(* Reading the cursor fails: watchCampaignWallet throws, and nothing watches *)
(* the wallet again but the worker's stream.                               *)
WatchFails ==
  /\ monitor \in {"connecting", "opening"}
  /\ failures < MaxFailures /\ MoreFaults
  /\ failures' = failures + 1
  /\ MonitorStep("abandoned")
  /\ UNCHANGED <<jobs, replayAt, replayTo, monitorAt, matchFailures,
                 disconnects, crashes>>

Replaying == \E j \in jobs : j.via = "replay"

ReplayNext ==
  /\ monitor = "replaying" /\ ~Replaying
  /\ IF replayAt < replayTo
     THEN /\ MonitorStep("replaying")
          /\ replayAt' = replayAt + 1
          /\ jobs' = jobs \cup {Job("replay", replayAt + 1)}
          /\ UNCHANGED replayTo
     ELSE /\ MonitorStep("opening")
          /\ replayAt' = 0 /\ replayTo' = 0
          /\ UNCHANGED jobs
  /\ UNCHANGED <<monitorAt, bounds>>

OpenStream ==
  /\ monitor = "opening"
  /\ MonitorStep("open")
  /\ monitorAt' = StartAfter(cursor)
  /\ UNCHANGED <<jobs, replayAt, replayTo, bounds>>

MonitorDeliver ==
  /\ monitor = "open" /\ monitorAt < onLedger
  /\ MonitorStep("open")
  /\ monitorAt' = monitorAt + 1
  /\ jobs' = jobs \cup {Job("stream", monitorAt + 1)}
  /\ UNCHANGED <<replayAt, replayTo, bounds>>

(* An error of the monitor's stream also unregisters the wallet from the   *)
(* worker, which forgets its cursors but keeps its queue and its jobs.     *)
Disconnect ==
  /\ monitor = "open"
  /\ disconnects < MaxDisconnects /\ MoreFaults
  /\ disconnects' = disconnects + 1
  /\ monitor' = "waiting"
  /\ monitorAt' = 0
  /\ workerAt' = Closed /\ workerCursor' = NoCursor /\ pending' = NoCursor
  /\ UNCHANGED <<ledger, database, announcements, queue,
                 seen, jobs, replayAt, replayTo, skipped, failures,
                 matchFailures, crashes>>

---------------------------------------------------------------------------
(* The jobs. *)
MoveTo(j, step) == jobs' = (jobs \ {j}) \cup {[j EXCEPT !.step = step]}

(* Slip: the cursor is where the stream is, not where the jobs are. *)
FinishAtStream(j) ==
  IF j.via = "worker"
  THEN /\ workerCursor' = j.payment
       /\ pending' = IF workerAt = Closed THEN j.payment ELSE workerAt
       /\ ProcessQueue(queue, jobs \ {j})
       /\ UNCHANGED <<seen, workerAt>>
  ELSE jobs' = jobs \ {j} /\ UNCHANGED worker

(* onPaymentRecord returns, and the worker takes that for success: it moves *)
(* its cursor, whatever the job did, and starts the next.                   *)
Finish(j) ==
  IF j.via = "worker"
  THEN /\ workerCursor' = j.payment /\ pending' = j.payment
       /\ ProcessQueue(queue, jobs \ {j})
       /\ UNCHANGED <<seen, workerAt>>
  ELSE jobs' = jobs \ {j} /\ UNCHANGED worker

CheckStatus(j) ==
  /\ j.step = "check"
  /\ MoveTo(j, IF status \in OpenStatuses THEN "record" ELSE "save")
  /\ skipped' = IF status \in OpenStatuses THEN skipped
                                           ELSE skipped \cup {j.payment}
  /\ UNCHANGED <<ledger, database, announcements, worker,
                 streams, bounds>>

(* A query before the transaction throws: the handler of onPaymentRecord   *)
(* tries to keep the record in failed_payment_records, whose insert names  *)
(* a conflict target the table does not have and throws too; it is logged. *)
CheckFails(j) ==
  /\ j.step = "check"
  /\ failures < MaxFailures /\ MoreFaults
  /\ failures' = failures + 1
  /\ Finish(j)
  /\ UNCHANGED <<ledger, database, announcements, streams,
                 skipped, matchFailures, disconnects, crashes>>

(* Slip: the match ignores what is left of the pledge. *)
MatchUncapped(p) == AmountOf[p] * Ratio

MatchFor(p) == Smaller(AmountOf[p] * Ratio, Pledge - matched)

(* What a payment adds to the campaign. *)
Credit(p) == AmountOf[p] + MatchFor(p)

StatusAfter(p) ==
  IF raised + Credit(p) >= Target THEN "funded" ELSE status

(* Slip: a payment with a receipt is recorded again. *)
FreshWithoutDedup(p) == TRUE

(* Neither the receipt nor the transaction hash is known.  A second payment *)
(* of a recorded transaction is not fresh: it gets a receipt and no row.   *)
Fresh(p) == p \notin receipts /\ ~TransactionRecorded(p)

(* The transaction of recordConfirmedContribution: receipt, contribution,  *)
(* raised amount, status, sponsor match and checkpoint, all or nothing.    *)
(* newly_funded looks at the contribution's own amount.                    *)
Record(j) ==
  LET p == j.payment
      match == MatchFor(p)
      newlyFunded == raised < Target /\ raised + AmountOf[p] >= Target
  IN
  /\ j.step = "record"
  /\ MoveTo(j, "save")
  /\ cursor' = p
  /\ receipts' = receipts \cup {p}
  /\ IF Fresh(p)
     THEN /\ rows' = [rows EXCEPT ![p] = rows[p] + 1]
          /\ matchOf' = [matchOf EXCEPT ![p] = matchOf[p] + match]
          /\ matched' = matched + match
          /\ raised' = raised + Credit(p)
          /\ status' = StatusAfter(p)
          /\ hooks' = IF newlyFunded THEN hooks \cup {"funded"} ELSE hooks
     ELSE UNCHANGED <<rows, matchOf, matched, raised, status, hooks>>
  /\ UNCHANGED <<ledger, events, worker, streams, skipped,
                 bounds>>

(* Slip: the receipt is committed before the rest. *)
ReceiptFirst(j) ==
  /\ j.step = "record"
  /\ failures < MaxFailures /\ MoreFaults
  /\ failures' = failures + 1
  /\ receipts' = receipts \cup {j.payment}
  /\ MoveTo(j, "save")
  /\ UNCHANGED <<ledger, cursor, rows, matchOf, matched, raised, status,
                 announcements, worker, streams, skipped,
                 matchFailures, disconnects, crashes>>

(* The transaction fails: it is rolled back, the error is logged and not   *)
(* thrown, and onPaymentRecord goes on to save the cursor.                 *)
RecordFails(j) ==
  /\ j.step = "record"
  /\ failures < MaxFailures /\ MoreFaults
  /\ failures' = failures + 1
  /\ MoveTo(j, "save")
  /\ UNCHANGED <<ledger, database, announcements, worker,
                 streams, skipped, matchFailures, disconnects, crashes>>

(* Another payment of the same transaction commits between this one's look *)
(* at contributions and its insert, which the unique tx_hash refuses.      *)
RecordCollides(j) ==
  /\ j.step = "record"
  /\ j.payment \notin receipts
  /\ TransactionRecorded(j.payment)
  /\ MoveTo(j, "save")
  /\ UNCHANGED <<ledger, database, announcements, worker,
                 streams, skipped, bounds>>

(* A query of processContributionMatch fails.  Its error is caught, but    *)
(* Postgres has aborted the transaction, so the next query throws.         *)
MatchFails(j) ==
  /\ j.step = "record"
  /\ Fresh(j.payment) /\ matched < Pledge
  /\ matchFailures < MaxMatchFailures /\ MoreFaults
  /\ matchFailures' = matchFailures + 1
  /\ MoveTo(j, "save")
  /\ UNCHANGED <<ledger, database, announcements, worker,
                 streams, skipped, failures, disconnects, crashes>>

SaveCursor(j) ==
  /\ j.step = "save"
  /\ cursor' = j.payment
  /\ Finish(j)
  /\ UNCHANGED <<ledger, receipts, rows, matchOf, matched, raised, status,
                 announcements, streams, skipped, bounds>>

SaveFails(j) ==
  /\ j.step = "save"
  /\ failures < MaxFailures /\ MoreFaults
  /\ failures' = failures + 1
  /\ Finish(j)
  /\ UNCHANGED <<ledger, database, announcements, streams,
                 skipped, matchFailures, disconnects, crashes>>

---------------------------------------------------------------------------
FlushCursors ==
  /\ pending # NoCursor
  /\ pending' = NoCursor
  /\ cursor' = pending
  /\ UNCHANGED <<ledger, receipts, rows, matchOf, matched, raised, status,
                 announcements, queue, seen, workerCursor,
                 workerAt, jobs, streams, skipped, bounds>>

FlushFails ==
  /\ pending # NoCursor
  /\ failures < MaxFailures /\ MoreFaults
  /\ failures' = failures + 1
  /\ pending' = NoCursor
  /\ UNCHANGED <<ledger, database, announcements, queue,
                 seen, workerCursor, workerAt, jobs, streams, skipped,
                 matchFailures, disconnects, crashes>>

(* The hourly refresh of campaignStatusService, one UPDATE on an active    *)
(* campaign, and the hooks it then calls.  The deadline may have passed     *)
(* whenever it runs; nothing else here looks at it.                         *)
RefreshStatus ==
  /\ monitor # "down"
  /\ status = "active"
  /\ status' = IF raised >= Target THEN "funded" ELSE "failed"
  /\ hooks' = hooks \cup {status'}
  /\ UNCHANGED <<ledger, cursor, receipts, rows, matchOf, matched, raised,
                 events, worker, jobs, streams, skipped,
                 bounds>>

(* triggerCampaignStatusActions: at most one event per new status. *)
RunHook(s) ==
  /\ s \in hooks
  /\ hooks' = hooks \ {s}
  /\ events' = events \cup {s}
  /\ UNCHANGED <<ledger, database, worker, jobs, streams,
                 skipped, bounds>>

Crash ==
  /\ monitor # "down"
  /\ crashes < MaxCrashes /\ MoreFaults
  /\ crashes' = crashes + 1
  /\ monitor' = "down"
  /\ queue' = <<>> /\ jobs' = {} /\ seen' = {} /\ hooks' = {}
  /\ workerCursor' = NoCursor /\ pending' = NoCursor /\ workerAt' = Closed
  /\ replayAt' = 0 /\ replayTo' = 0 /\ monitorAt' = 0
  /\ UNCHANGED <<ledger, database, events, skipped, failures,
                 matchFailures, disconnects>>

---------------------------------------------------------------------------
JobStep(j) ==
  \/ CheckStatus(j) \/ Record(j) \/ RecordCollides(j) \/ SaveCursor(j)
JobFailure(j) ==
  \/ CheckFails(j) \/ RecordFails(j) \/ MatchFails(j) \/ SaveFails(j)
StreamStep ==
  \/ Start \/ WorkerDeliver \/ BeginReplay \/ ReplayNext \/ OpenStream
  \/ MonitorDeliver \/ RegisterWallet

Next ==
  \/ Pay
  \/ StreamStep
  \/ WorkerReopen \/ Disconnect
  \/ ReplayFails \/ RegisterUnreplayed \/ WatchFails
  \/ \E j \in jobs : JobStep(j) \/ JobFailure(j)
  \/ FlushCursors \/ FlushFails
  \/ RefreshStatus
  \/ \E s \in {"funded", "failed"} : RunHook(s)
  \/ Crash

Spec == Init /\ [][Next]_vars

(* The event loop does not stop while something is ready: some delivery,    *)
(* some continuation of a job, the flush timer, a scheduled hook.  Nothing  *)
(* is assumed of payments, the refresh, failures or crashes.  *)
FairSpec ==
  /\ Spec
  /\ WF_vars(StreamStep) /\ WF_vars(\E j \in jobs : JobStep(j))
  /\ WF_vars(FlushCursors)
  /\ \A s \in {"funded", "failed"} : WF_vars(RunHook(s))

---------------------------------------------------------------------------
IngestionTypeOK ==
  /\ ledger \in Seq(Payments) /\ onLedger <= NPayments
  /\ cursor \in {NoCursor} \cup 0 .. NPayments
  /\ receipts \subseteq Payments /\ rows \in [Payments -> Nat]
  /\ matchOf \in [Payments -> Nat] /\ matched \in 0 .. Pledge
  /\ raised \in Nat /\ status \in {"active", "funded", "failed"}
  /\ events \subseteq {"funded", "failed"}
  /\ queue \in Seq(Payments)
  /\ jobs \subseteq [via : {"worker", "replay", "stream"},
                     payment : Payments, step : {"check", "record", "save"}]
  /\ seen \subseteq Payments /\ skipped \subseteq Payments
  /\ {workerCursor, pending, workerAt} \subseteq -1 .. NPayments
  /\ monitor \in {"down", "connecting", "replaying", "opening", "open", "waiting",
                 "abandoned"}
  /\ {replayAt, replayTo, monitorAt} \subseteq 0 .. NPayments
  /\ hooks \subseteq {"funded", "failed"}
  /\ {failures, matchFailures, disconnects, crashes} \subseteq Nat

(* A transaction is credited at most once, though two pipelines deliver it, *)
(* replays and restarts deliver it again and jobs interleave.               *)
CreditedOnce ==
  \A p, q \in 1 .. onLedger :
    rows[p] > 0 /\ rows[q] > 0 /\ ledger[p] = ledger[q] => p = q /\ rows[p] = 1

(* raised_amount is what the contributions and their matches add up to. *)
RaisedIsRecorded ==
  /\ raised = Total([p \in Payments |-> rows[p] * AmountOf[p] + matchOf[p]])
  /\ matched = Total(matchOf)

(* A receipt never outlives its contribution: a payment that is refused as *)
(* a duplicate is one of a transaction that is recorded.                   *)
ReceiptMeansRecorded == \A p \in receipts : TransactionRecorded(p)

(* A campaign is `funded' exactly while its target is reached. *)
FundedMeansTarget == status = "funded" <=> raised >= Target

JobsOf(p) == {j \in jobs : j.payment = p}

(* Some stream or replay is still going to deliver payment p. *)
AheadOfAStream(p) ==
  \/ workerAt # Closed /\ p > workerAt
  \/ monitor = "replaying" /\ p \in replayAt + 1 .. replayTo
  \/ monitor = "open" /\ p > monitorAt
  \/ monitor \in {"down", "connecting", "opening", "waiting"} /\ p > cursor

(* As long as nothing fails or crashes, every payment on the ledger is one *)
(* of a recorded transaction, dropped because the campaign had closed,     *)
(* being processed, in the queue, or still to be delivered, though the     *)
(* saved cursor may be far ahead of it and streams break.                  *)
NothingLost ==
  failures + matchFailures + crashes = 0 =>
    \A p \in 1 .. onLedger :
      \/ TransactionRecorded(p) \/ p \in skipped \/ JobsOf(p) # {}
      \/ \E i \in 1 .. Len(queue) : queue[i] = p
      \/ AheadOfAStream(p)

(* What recordConfirmedContribution writes stands or falls together, for    *)
(* every interleaving of jobs, matches, failing transactions and crashes:   *)
(* each transaction once, the total, the pledge used, the receipts and the  *)
(* status; and a transaction it has still to write is in somebody's sight.  *)
RecordsAgree ==
  /\ CreditedOnce /\ RaisedIsRecorded /\ ReceiptMeansRecorded
  /\ FundedMeansTarget /\ NothingLost

(* Payment p is lost though nothing failed: recordConfirmedContribution    *)
(* finds the hash of its transaction in contributions, on the row of       *)
(* another payment, and takes p for a duplicate.  Its amount never reaches *)
(* contributions or raised_amount.                                         *)
DroppedAsDuplicate(p) == rows[p] = 0 /\ TransactionRecorded(p)

Settled(p) ==
  \/ rows[p] > 0 \/ p \in skipped \/ status \notin OpenStatuses
  \/ DroppedAsDuplicate(p)

(* As long as nothing fails or crashes, though streams break and are       *)
(* reopened, of every transaction that pays the wallet one payment is      *)
(* eventually recorded or the campaign has closed: a payment has its own   *)
(* row, or it was dropped as a duplicate of another one that has.          *)
RecordedUnlessFaulty ==
  []<>(\/ failures + matchFailures + crashes > 0
       \/ \A p \in 1 .. onLedger : Settled(p))

(* "The cursor is only advanced after successful processing"               *)
(* (onPaymentRecord), in memory, in the flush and in the checkpoint alike:  *)
(* it moves to payments whose transaction is recorded or that were dropped  *)
(* because the campaign had closed, whatever the other jobs, a crash and a  *)
(* restart do.  A failed transaction is the exception, for RecordFails goes *)
(* on to save the cursor.                                                   *)
CursorFollowsSuccess ==
  [][cursor' # cursor /\ failures + matchFailures = 0 =>
       \E p \in Payments :
         p = cursor' /\ (TransactionRecorded(p) \/ p \in skipped)']_vars

---------------------------------------------------------------------------
(* What the repository says. *)

(* The header: cursors are persisted "so restarts can REST-replay missed    *)
(* operations", so every payment is settled after a crash too.              *)
EveryPaymentRecorded == []<>(\A p \in 1 .. onLedger : Settled(p))
===========================================================================
