--------------------------- MODULE WebhookDelivery ---------------------------
(***************************************************************************)
(* One delivery of an outbound webhook, and the workers that race for it   *)
(* (backend/src/services/webhookDispatcher.js, the replays in              *)
(* backend/src/routes/webhooks.js and routes/admin.js).                    *)
(*                                                                         *)
(* A worker is one call of runDelivery: the immediate dispatch, a retry    *)
(* timer or a poller, in any process.  Each of its statements on the       *)
(* database is a step, and it may stop between any two of them.  How long  *)
(* a wait or a lease lasts is not modelled: `due' becomes true some time   *)
(* after it was reset, so a worker may also be slower than its lease.      *)
(***************************************************************************)
EXTENDS Integers, FiniteSets

CONSTANTS
  Workers,
  MaxAttempts,          \* 5 or, for a campaign's webhooks, 3
  MaxReplays,           \* bound: the replays asked for
  MaxFailures           \* bound: the workers that die or lose the database

NoLease == "no lease"

ASSUME WorkersAssumption == IsFiniteSet(Workers) /\ NoLease \notin Workers
ASSUME AttemptsAssumption == MaxAttempts \in Nat \ {0}
ASSUME DeliveryBoundsAssumption == MaxReplays \in Nat /\ MaxFailures \in Nat

VARIABLES
  status,               \* the row's status; "none": not inserted yet
  attemptCount,         \* attempt_count
  lease,                \* lease_token: the worker it was made for, or NoLease
  due,                  \* next_retry_at, lease_expires_at or, while pending,
                        \* updated_at + lease has passed
  usable,               \* whether the webhook is not revoked, or active
  history,              \* webhook_delivery_attempts, by attempt_number
  deadLetter,           \* whether webhook_dead_letters has a row for it
  calls,                \* dispatches and retry timers pending in memory
  worker,               \* where each worker is, and its claimed.attempt_count
  replays, failures,
  requests              \* the requests ever sent; read by no operation

row == <<status, attemptCount, lease, due>>
bounds == <<replays, failures>>
deliveryVars == <<row, usable, history, deadLetter, calls, worker, bounds,
                  requests>>

Numbers == 1 .. MaxAttempts
Idle == [at |-> "idle", attempt |-> 0]

Init ==
  /\ status = "none" /\ attemptCount = 0 /\ lease = NoLease /\ due = FALSE
  /\ usable = TRUE
  /\ history = [n \in Numbers |-> "none"]
  /\ deadLetter = FALSE
  /\ calls = 0
  /\ worker = [w \in Workers |-> Idle]
  /\ replays = 0 /\ failures = 0
  /\ requests = 0

---------------------------------------------------------------------------
(* The database's own clock. *)
TimePasses ==
  /\ status \in {"pending", "retrying", "delivering"}
  /\ ~due
  /\ due' = TRUE
  /\ UNCHANGED <<status, attemptCount, lease, usable, history, deadLetter,
                 calls, worker, bounds, requests>>

(* emitWebhookEventForUser, emitWebhookEventForCampaign: the row, then the  *)
(* dispatch in memory                                                       *)
Emit ==
  /\ status = "none"
  /\ status' = "pending" /\ due' = FALSE
  /\ calls' = 1
  /\ UNCHANGED <<attemptCount, lease, usable, history, deadLetter, worker,
                 bounds, requests>>

(* The owner revokes the webhook. *)
Revoke ==
  /\ usable
  /\ usable' = FALSE
  /\ UNCHANGED <<row, history, deadLetter, calls, worker, bounds, requests>>

Goto(w, place) == worker' = [worker EXCEPT ![w].at = place]
Return(w) == worker' = [worker EXCEPT ![w] = Idle]

(* A dispatch or a retry timer calls runDelivery. *)
CallFromMemory(w) ==
  /\ worker[w].at = "idle" /\ calls > 0
  /\ calls' = calls - 1
  /\ Goto(w, "claiming")
  /\ UNCHANGED <<row, usable, history, deadLetter, bounds, requests>>

(* processDueDeliveries picks the row: due retries, expired leases, pending *)
(* rows nobody has taken for the length of a lease.                         *)
CallFromPoller(w) ==
  /\ worker[w].at = "idle"
  /\ status \in {"pending", "retrying", "delivering"} /\ due
  /\ Goto(w, "claiming")
  /\ UNCHANGED <<row, usable, history, deadLetter, calls, bounds,
                 requests>>

(* Slip: a row whose lease has expired is nobody's. *)
ClaimableWhenQueued == status = "pending" \/ (status = "retrying" /\ due)

(* CLAIMABLE_STATUS_SQL *)
Claimable == status = "pending" \/ (status \in {"retrying", "delivering"} /\ due)

(* Slip: one attempt too many. *)
MayClaimOnceMore == usable /\ attemptCount <= MaxAttempts /\ Claimable

MayClaim == usable /\ attemptCount < MaxAttempts /\ Claimable

(* Slip: taking over an expired lease is not counted as an attempt. *)
ClaimUncounted(w) ==
  /\ worker[w].at = "claiming" /\ MayClaim
  /\ attemptCount' = IF status = "delivering" THEN attemptCount ELSE attemptCount + 1
  /\ status' = "delivering" /\ lease' = w /\ due' = FALSE
  /\ worker' = [worker EXCEPT ![w] = [at |-> "sending", attempt |-> attemptCount']]
  /\ history' \in {history, [history EXCEPT ![attemptCount'] =
                     IF @ = "none" THEN "started" ELSE @]}
  /\ UNCHANGED <<usable, deadLetter, calls, bounds, requests>>

(* claimDelivery: one conditional UPDATE; the row of the attempt is written *)
(* next unless it exists from before a replay, and failing to write it is   *)
(* ignored.                                                                 *)
Claim(w) ==
  /\ worker[w].at = "claiming" /\ MayClaim
  /\ status' = "delivering" /\ lease' = w /\ due' = FALSE
  /\ attemptCount' = attemptCount + 1
  /\ worker' = [worker EXCEPT ![w] = [at |-> "sending", attempt |-> attemptCount + 1]]
  /\ history' \in {history, [history EXCEPT ![attemptCount + 1] =
                     IF @ = "none" THEN "started" ELSE @]}
  /\ UNCHANGED <<usable, deadLetter, calls, bounds, requests>>

NotClaimed(w) ==
  /\ worker[w].at = "claiming" /\ ~MayClaim
  /\ Goto(w, "unclaimed")
  /\ UNCHANGED <<row, usable, history, deadLetter, calls, bounds,
                 requests>>

(* Slip: a row that is closed out gets no dead letter. *)
CloseQuietly(w) ==
  /\ worker[w].at = "unclaimed"
  /\ IF (~usable \/ attemptCount >= MaxAttempts) /\ Claimable
     THEN status' = "failed" /\ lease' = NoLease /\ due' = FALSE
     ELSE UNCHANGED <<status, lease, due>>
  /\ Return(w)
  /\ UNCHANGED <<attemptCount, usable, history, deadLetter, calls, bounds,
                 requests>>

(* failUnclaimableDelivery: the webhook is gone or the attempts are used up *)
FailUnclaimable(w) ==
  /\ worker[w].at = "unclaimed"
  /\ IF (~usable \/ attemptCount >= MaxAttempts) /\ Claimable
     THEN /\ status' = "failed" /\ lease' = NoLease /\ due' = FALSE
          /\ Goto(w, "burying")
     ELSE UNCHANGED <<status, lease, due>> /\ Return(w)
  /\ UNCHANGED <<attemptCount, usable, history, deadLetter, calls, bounds,
                 requests>>

(* The request: accepted, refused (or its answer lost), or never sent since *)
(* the target is not allowed at this moment.                                *)
Send(w) ==
  /\ worker[w].at = "sending"
  /\ \/ requests' = requests + 1 /\ (Goto(w, "accepted") \/ Goto(w, "refused"))
     \/ Goto(w, "blocked") /\ UNCHANGED requests
  /\ UNCHANGED <<row, usable, history, deadLetter, calls, bounds>>

(* Slip: whoever comes last is right. *)
OwnedByAnyone(w) == status \in {"delivering", "delivered"}

(* The condition of finishAttempt's UPDATE. *)
Owned(w) == lease = w /\ status = "delivering"

Finish(s) == status' = s /\ lease' = NoLease /\ due' = FALSE

(* runDelivery, res.ok *)
RecordDelivered(w) ==
  /\ worker[w].at = "accepted"
  /\ IF Owned(w) THEN Finish("delivered") /\ Goto(w, "logging success")
     ELSE UNCHANGED <<status, lease, due>> /\ Return(w)
  /\ UNCHANGED <<attemptCount, usable, history, deadLetter, calls, bounds,
                 requests>>

(* recordFailure: another try later, or none is left *)
RecordFailure(w) ==
  /\ worker[w].at = "refused"
  /\ IF ~Owned(w) THEN UNCHANGED <<status, lease, due>> /\ Return(w)
     ELSE IF worker[w].attempt >= MaxAttempts
     THEN Finish("failed") /\ Goto(w, "logging last failure")
     ELSE Finish("retrying") /\ Goto(w, "logging failure")
  /\ UNCHANGED <<attemptCount, usable, history, deadLetter, calls, bounds,
                 requests>>

(* runDelivery, isSsrfBlocked: the dead letter is written in any case *)
RecordBlocked(w) ==
  /\ worker[w].at = "blocked"
  /\ IF Owned(w) THEN Finish("failed") /\ Goto(w, "logging last failure")
     ELSE UNCHANGED <<status, lease, due>> /\ Goto(w, "burying")
  /\ UNCHANGED <<attemptCount, usable, history, deadLetter, calls, bounds,
                 requests>>

(* finishDeliveryAttempt *)
LogSuccess(w) ==
  /\ worker[w].at = "logging success"
  /\ history' = [history EXCEPT ![worker[w].attempt] =
                   IF @ = "none" THEN @ ELSE "succeeded"]
  /\ Return(w)
  /\ UNCHANGED <<row, usable, deadLetter, calls, bounds, requests>>

LoggedFailure(w) ==
  history' = [history EXCEPT ![worker[w].attempt] = IF @ = "none" THEN @ ELSE "failed"]

(* finishDeliveryAttempt, then scheduleRetryTimer *)
LogFailure(w) ==
  /\ worker[w].at = "logging failure"
  /\ LoggedFailure(w)
  /\ calls' = calls + 1
  /\ Return(w)
  /\ UNCHANGED <<row, usable, deadLetter, bounds, requests>>

LogLastFailure(w) ==
  /\ worker[w].at = "logging last failure"
  /\ LoggedFailure(w)
  /\ Goto(w, "burying")
  /\ UNCHANGED <<row, usable, deadLetter, calls, bounds, requests>>

(* createDeadLetter *)
CreateDeadLetter(w) ==
  /\ worker[w].at = "burying"
  /\ deadLetter' = TRUE
  /\ Return(w)
  /\ UNCHANGED <<row, usable, history, calls, bounds, requests>>

(* A worker stops: its process dies, a secret cannot be decrypted, the      *)
(* database does not answer.  With the process the pending calls may go.    *)
WorkerFails(w) ==
  /\ worker[w].at # "idle" /\ failures < MaxFailures
  /\ failures' = failures + 1
  /\ calls' \in {0, calls}
  /\ Return(w)
  /\ UNCHANGED <<row, usable, history, deadLetter, replays, requests>>

Requeue ==
  /\ replays < MaxReplays /\ replays' = replays + 1
  /\ status' = "pending" /\ attemptCount' = 0 /\ due' = FALSE
  /\ calls' = calls + 1
  /\ UNCHANGED <<usable, history, deadLetter, worker, failures, requests>>

(* Slip: whatever is not held by a worker can be replayed. *)
OwnerReplaysSettled ==
  /\ usable /\ status \in {"delivered", "failed", "retrying"}
  /\ lease' = NoLease
  /\ Requeue

(* POST /webhooks/deliveries/:id/replay *)
OwnerReplays ==
  /\ usable /\ status \in {"failed", "retrying"}
  /\ lease' = NoLease
  /\ Requeue

(* POST /admin/webhook-dead-letters/:id/replay: of a delivery with a dead   *)
(* letter, which nothing ever resolves; the lease is left as it is          *)
AdminReplays ==
  /\ deadLetter /\ status \in {"failed", "retrying"}
  /\ UNCHANGED lease
  /\ Requeue

WorkerStep(w) ==
  \/ Claim(w) \/ NotClaimed(w) \/ FailUnclaimable(w) \/ Send(w)
  \/ RecordDelivered(w) \/ RecordFailure(w) \/ RecordBlocked(w)
  \/ LogSuccess(w) \/ LogFailure(w) \/ LogLastFailure(w)
  \/ CreateDeadLetter(w)

Next ==
  \/ TimePasses \/ Emit \/ Revoke
  \/ \E w \in Workers :
       CallFromMemory(w) \/ CallFromPoller(w) \/ WorkerStep(w) \/ WorkerFails(w)
  \/ OwnerReplays \/ AdminReplays

(* The clock runs, the poller comes every five seconds, and a worker goes   *)
(* on unless it fails.                                                      *)
Fairness ==
  /\ WF_deliveryVars(TimePasses)
  /\ \A w \in Workers :
       WF_deliveryVars(CallFromPoller(w)) /\ WF_deliveryVars(WorkerStep(w))

Spec == Init /\ [][Next]_deliveryVars
FairSpec == Spec /\ Fairness

---------------------------------------------------------------------------
Statuses == {"none", "pending", "retrying", "delivering", "delivered", "failed"}
Places ==
  {"idle", "claiming", "unclaimed", "sending", "accepted", "refused", "blocked",
   "logging success", "logging failure", "logging last failure", "burying"}

(* Types.  However many workers claim and reclaim it, the count of attempts *)
(* never passes its limit, and a lease exists exactly while delivering.     *)
WebhookTypeOK ==
  /\ status \in Statuses
  /\ attemptCount \in 0 .. MaxAttempts
  /\ lease \in Workers \cup {NoLease}
  /\ due \in BOOLEAN /\ usable \in BOOLEAN /\ deadLetter \in BOOLEAN
  /\ history \in [Numbers -> {"none", "started", "succeeded", "failed"}]
  /\ calls \in Nat
  /\ worker \in [Workers -> [at : Places, attempt : 0 .. MaxAttempts]]
  /\ replays \in Nat /\ failures \in Nat /\ requests \in Nat
  /\ lease # NoLease <=> status = "delivering"

(* The receiver gets no more requests than the attempts allowed between     *)
(* replays, though workers die, leases expire and slow workers send after   *)
(* them: "attempt_count equals the number of attempts actually started"     *)
(* (the comment on delivery claims).                                        *)
RequestsBounded == requests <= MaxAttempts * (replays + 1)

(* A success in the history of attempts is the delivery's own: it was       *)
(* delivered, and for good, whichever worker came late (finishAttempt's     *)
(* lease token, finishDeliveryAttempt only for its holder).                 *)
HistoryTellsDelivery ==
  \A n \in Numbers : history[n] = "succeeded" => status = "delivered"

(* A failed delivery has its dead letter, or a worker that will write it,   *)
(* unless a worker was lost on the way.                                     *)
FailuresAreBuried ==
  status = "failed" /\ failures = 0 =>
    \/ deadLetter
    \/ \E w \in Workers : worker[w].at \in {"logging last failure", "burying"}

(* What became of the delivery is what its history and its dead letter say. *)
OutcomeIsRecorded == HistoryTellsDelivery /\ FailuresAreBuried

(* Every request is one of the attempts allowed, and every outcome is       *)
(* accounted for.                                                           *)
AttemptsAreAccounted == RequestsBounded /\ OutcomeIsRecorded

Promise == INSTANCE WebhookPromise WITH
  outcome <- IF status \in {"delivered", "failed"} THEN status ELSE "open",
  attemptsLeft <- MaxAttempts - attemptCount

(* Claims, leases and replays keep the promise of WebhookPromise: attempts  *)
(* are counted down, a delivery is delivered only after one, and nothing    *)
(* moves a delivered one.                                                   *)
KeepsPromise == Promise!Spec

(* A delivery that was queued is settled, for good if nobody replays it:    *)
(* the poller takes over what crashed workers and lost timers left behind.  *)
EventuallySettled == status # "none" ~> status \in {"delivered", "failed"}
==============================================================================
