-------------------------- MODULE MilestoneRelease --------------------------
(***************************************************************************)
(* The release of one milestone's funds, by the worker once the dispute    *)
(* window of its evidence has elapsed                                      *)
(* (backend/src/services/milestoneAutoRelease.js) or by a platform         *)
(* approver (backend/src/routes/milestones.js).                            *)
(*                                                                         *)
(* Both pay with a transaction of the campaign's Stellar account that      *)
(* carries the account's next sequence number, so that of two transactions *)
(* built on the same number at most one lands.  The worker keeps one row   *)
(* of milestone_auto_release_attempts, leases it for five minutes, stores  *)
(* the signed envelope before it sends it, and finds out by its hash what  *)
(* became of it.  An approver claims the milestone and keeps the envelope  *)
(* in memory.                                                              *)
(*                                                                         *)
(* An action is what runs between two awaits.  The rounds of evidence are  *)
(* numbered; a round stands for its evidence and its destination.  The     *)
(* backers' votes are an input of the checks that count them.  Times are   *)
(* compared only with the clock: a deadline passes by an action of its     *)
(* own, or may have passed wherever that makes no difference.              *)
(***************************************************************************)
EXTENDS Integers, FiniteSets

CONSTANTS
  Workers,          \* passes of processAutoReleases that may overlap
  Approvers,        \* requests of POST /:id/approve
  None,
  MaxRounds,        \* bound: submissions of evidence
  MaxDisturbances,  \* bound: disputes, and other transactions of the account
  MaxFaults         \* bound: workers that stop, or are slower than a lease

ASSUME BoundsAssumption ==
  MaxRounds \in Nat /\ MaxDisturbances \in Nat /\ MaxFaults \in Nat

(* A signed transaction: the round whose destination it pays, the sequence *)
(* number it takes, and who built it.                                      *)
Envelopes ==
  [round : 1 .. MaxRounds, sequence : Nat \ {0}, trigger : {"auto", "manual"}]

ASSUME NoneAssumption == None \notin Envelopes

VARIABLES
  campaign,         \* campaigns.status
  disputes,         \* how many disputes are open
  status,           \* milestones.status
  auto,             \* auto_release_status, none for NULL
  enabled,          \* auto_release_enabled
  due,              \* whether auto_release_at has come
  claimed,          \* whether claimed_at is set
  round,            \* how often evidence was submitted
  submitting,       \* a submission has passed its checks
  attempt,          \* the attempt's status, none without a row
  terms,            \* the round whose evidence and destination it copies
  envelope,         \* its signed_xdr and tx_hash
  withdrawal,       \* the milestone's withdrawal request: its envelope
  sequence,         \* the campaign account's sequence number
  network,          \* envelopes sent that may still land
  landed,           \* envelopes that paid
  spent,            \* envelopes whose transaction failed on the ledger
  late,             \* envelopes past their maxTime
  worker, approver, \* what each is at, and what it holds
  disturbances, faults,          \* counters of the bounds
  disputed,         \* history: rounds disputed while they were scheduled
  rejected,         \* history: rounds a platform approver rejected
  overtaken         \* history: whether an attempt was taken from a worker
                    \* that was still at it

evidence == <<round, submitting>>
row == <<attempt, terms, envelope>>
ledger == <<sequence, network, landed, spent, late>>
actors == <<worker, approver>>
counters == <<disturbances, faults>>
history == <<disputed, rejected, overtaken>>
milestone == <<status, auto, enabled, due, claimed>>
vars == <<campaign, disputes, milestone, evidence, row, withdrawal, ledger,
          actors, counters, history>>

Releasable == {"funded", "in_progress"}
InFlight == {"claimed", "prepared", "submitted"}
IdleWorker == [at |-> "idle", envelope |-> None]
IdleApprover == [at |-> "idle", round |-> 0, envelope |-> None]

Init ==
  /\ campaign = "funded" /\ disputes = 0
  /\ status = "pending" /\ auto = "none" /\ enabled = FALSE
  /\ due = FALSE /\ claimed = FALSE
  /\ round = 0 /\ submitting = FALSE
  /\ attempt = "none" /\ terms = 0 /\ envelope = None
  /\ withdrawal = None
  /\ sequence = 0 /\ network = {} /\ landed = {} /\ spent = {} /\ late = {}
  /\ worker = [w \in Workers |-> IdleWorker]
  /\ approver = [a \in Approvers |-> IdleApprover]
  /\ disturbances = 0 /\ faults = 0
  /\ disputed = {} /\ rejected = {} /\ overtaken = FALSE

----------------------------------------------------------------------------
(* The creator, the backers and the platform's reviewers.                  *)

Configure ==
  /\ status \in {"pending", "rejected"}
  /\ auto \notin {"releasing", "released"}
  /\ enabled' = TRUE /\ auto' = "awaiting_evidence"
  /\ UNCHANGED <<campaign, disputes, status, due, claimed, evidence, row,
                 withdrawal, ledger, actors, counters, history>>

OptOut ==
  /\ status # "released" /\ auto \notin {"releasing", "released"}
  /\ enabled' = FALSE
  /\ auto' = IF auto = "none" THEN "none" ELSE "cancelled"
  /\ UNCHANGED <<campaign, disputes, status, due, claimed, evidence, row,
                 withdrawal, ledger, actors, counters, history>>

(* The submission's checks, and the storage lookup that follows them.      *)
BeginSubmission ==
  /\ ~submitting /\ round < MaxRounds
  /\ campaign \in Releasable
  /\ status \in {"pending", "rejected"}
  /\ submitting' = TRUE
  /\ UNCHANGED <<campaign, disputes, milestone, round, row,
                 withdrawal, ledger, actors, counters, history>>

(* Evidence that satisfies the rule and is in storage is scheduled, unless *)
(* the milestone has had its attempt.                                      *)
Scheduled(qualifies) ==
  CASE ~enabled -> auto
    [] enabled /\ qualifies /\ attempt = "none" -> "scheduled"
    [] OTHER -> "ineligible"

(* The transaction of a submission.  The campaign is not looked at again.  *)
Submit(qualifies) ==
  /\ submitting /\ submitting' = FALSE
  /\ IF status \in {"pending", "rejected"}
       THEN /\ status' = "pending_review"
            /\ round' = round + 1
            /\ auto' = Scheduled(qualifies)
            /\ due' = FALSE
       ELSE UNCHANGED <<status, round, auto, due>>
  /\ UNCHANGED <<campaign, disputes, enabled, claimed, row,
                 withdrawal, ledger, actors, counters, history>>

WindowElapses ==
  /\ auto = "scheduled" /\ ~due
  /\ due' = TRUE
  /\ UNCHANGED <<campaign, disputes, status, auto, enabled, claimed, evidence,
                 row, withdrawal, ledger, actors, counters, history>>

Reject ==
  /\ status = "pending_review" /\ auto # "releasing"
  /\ status' = "rejected"
  /\ auto' = IF enabled THEN "awaiting_evidence" ELSE auto
  /\ rejected' = rejected \cup {round}
  /\ UNCHANGED <<campaign, disputes, enabled, due, claimed, evidence, row,
                 withdrawal, ledger, actors, counters, disputed, overtaken>>

Disturb == disturbances < MaxDisturbances /\ disturbances' = disturbances + 1

(* Slip: only releases whose window is still open are halted.              *)
RaiseDisputeInWindow ==
  /\ Disturb
  /\ disputes' = disputes + 1
  /\ campaign' = "disputed"
  /\ auto' = IF auto = "scheduled" /\ ~due THEN "halted" ELSE auto
  /\ disputed' = IF auto = "scheduled" THEN disputed \cup {round} ELSE disputed
  /\ UNCHANGED <<status, enabled, due, claimed, evidence, row, withdrawal,
                 ledger, actors, faults, rejected, overtaken>>

(* A dispute halts a scheduled release in its own transaction.             *)
RaiseDispute ==
  /\ Disturb
  /\ disputes' = disputes + 1
  /\ campaign' = "disputed"
  /\ auto' = IF auto = "scheduled" THEN "halted" ELSE auto
  /\ disputed' = IF auto = "scheduled" THEN disputed \cup {round} ELSE disputed
  /\ UNCHANGED <<status, enabled, due, claimed, evidence, row, withdrawal,
                 ledger, actors, faults, rejected, overtaken>>

(* A dispute is closed, decided for the creator or decided for the         *)
(* contributors, who are paid back from the campaign's account.            *)
CloseDispute ==
  /\ disputes > 0 /\ disputes' = disputes - 1
  /\ UNCHANGED <<campaign, milestone, evidence, row, withdrawal, ledger,
                 actors, counters, history>>

ReleaseToCreator ==
  /\ disputes > 0 /\ disputes' = disputes - 1
  /\ campaign' = IF campaign = "disputed" THEN "active" ELSE campaign
  /\ UNCHANGED <<milestone, evidence, row, withdrawal, ledger, actors,
                 counters, history>>

RefundContributors ==
  /\ disputes > 0 /\ disputes' = disputes - 1
  /\ campaign' = "refunded"
  /\ sequence' = sequence + 1
  /\ UNCHANGED <<milestone, evidence, row, withdrawal, network, landed, spent,
                 late, actors, counters, history>>

(* A contribution finds an active campaign at its target.                  *)
TargetFound ==
  /\ campaign = "active" /\ campaign' = "funded"
  /\ UNCHANGED <<disputes, milestone, evidence, row, withdrawal, ledger,
                 actors, counters, history>>

(* Another transaction of the campaign's account takes a sequence number.  *)
OtherPayment ==
  /\ Disturb
  /\ sequence' = sequence + 1
  /\ UNCHANGED <<campaign, disputes, milestone, evidence, row, withdrawal,
                 network, landed, spent, late, actors, faults, history>>

----------------------------------------------------------------------------
(* The Stellar network.                                                    *)

MayLand(e) == e.sequence = sequence + 1 /\ e \notin late

Pay(e) ==
  /\ MayLand(e)
  /\ sequence' = sequence + 1
  /\ landed' = landed \cup {e} /\ network' = network \ {e}
  /\ UNCHANGED <<spent, late>>

(* The transaction is in the ledger, and failed: it took its number.       *)
FailOnLedger(e) ==
  /\ MayLand(e)
  /\ sequence' = sequence + 1
  /\ spent' = spent \cup {e} /\ network' = network \ {e}
  /\ UNCHANGED <<landed, late>>

Succeeds(e) == Pay(e) \/ (e \in landed /\ UNCHANGED ledger)

(* An answer with result codes: the envelope is not pending.               *)
IsRefused(e) ==
  \/ FailOnLedger(e)
  \/ network' = network \ {e} /\ UNCHANGED <<sequence, landed, spent, late>>

(* No answer: the envelope may have reached the network or not.            *)
IsLost(e) ==
  /\ network' \in {network, network \cup ({e} \ (landed \cup spent))}
  /\ UNCHANGED <<sequence, landed, spent, late>>

PendingLands ==
  /\ \E e \in network : Pay(e) \/ FailOnLedger(e)
  /\ UNCHANGED <<campaign, disputes, milestone, evidence, row, withdrawal,
                 actors, counters, history>>

EnvelopeExpires ==
  /\ envelope # None /\ envelope \notin late
  /\ late' = late \cup {envelope}
  /\ UNCHANGED <<campaign, disputes, milestone, evidence, row, withdrawal,
                 sequence, network, landed, spent, actors, counters, history>>

----------------------------------------------------------------------------
(* The worker.  Its states:                                                *)
(*   check     nothing was sent; the milestone is looked at again          *)
(*   build     the account's number is read, the envelope built and signed *)
(*   store     the envelope is stored                                      *)
(*   mark      the attempt is to be marked submitted                       *)
(*   send      the envelope is sent                                        *)
(*   ask       it was refused: its hash is looked up                       *)
(*   look      it was submitted before: its hash is looked up              *)
(*   recheck   it has not landed and may be sent again                     *)
(*   fail, finalize   the attempt is closed                                *)

Goes(w, at) == worker' = [worker EXCEPT ![w].at = at]
Holds(w, at, e) == worker' = [worker EXCEPT ![w] = [at |-> at, envelope |-> e]]
Rests(w) == worker' = [worker EXCEPT ![w] = IdleWorker]

Blocked == \/ status # "pending_review"
           \/ campaign \notin Releasable
           \/ disputes > 0

(* What decideFire lets through to the last checks.                        *)
Fires == /\ auto = "scheduled" /\ due
         /\ attempt = "none" /\ ~claimed

(* A release that is due is claimed or halted under the row's lock.  The   *)
(* checks of evidence, votes, destination, percentages and amount are one  *)
(* input.                                                                  *)
ClaimDue(w, sound) ==
  /\ worker[w].at = "idle" /\ Fires
  /\ IF Blocked \/ ~sound
       THEN /\ auto' = "halted"
            /\ UNCHANGED <<claimed, row, worker>>
       ELSE /\ auto' = "releasing" /\ claimed' = TRUE
            /\ attempt' = "claimed" /\ terms' = round
            /\ envelope' = None
            /\ Holds(w, "check", None)
  /\ UNCHANGED <<campaign, disputes, status, enabled, due, evidence,
                 withdrawal, ledger, approver, counters, history>>

(* Slip: an attempt that was sent is not resumed.                          *)
RecoverUnsent(w) ==
  /\ worker[w].at = "idle"
  /\ attempt \in {"claimed", "prepared"}
  /\ Holds(w, "check", envelope)
  /\ IF \E o \in Workers : worker[o].at # "idle"
       THEN faults < MaxFaults /\ faults' = faults + 1 /\ overtaken' = TRUE
       ELSE UNCHANGED <<faults, overtaken>>
  /\ UNCHANGED <<campaign, disputes, milestone, evidence, row, withdrawal,
                 ledger, approver, disturbances, disputed, rejected>>

(* An attempt whose lease has run out is leased and resumed.  The lease is  *)
(* never renewed, so it may have run out wherever its holder is.           *)
Recover(w) ==
  /\ worker[w].at = "idle"
  /\ attempt \in InFlight
  /\ Holds(w, IF attempt = "submitted" THEN "look" ELSE "check", envelope)
  /\ IF \E o \in Workers : worker[o].at # "idle"
       THEN faults < MaxFaults /\ faults' = faults + 1 /\ overtaken' = TRUE
       ELSE UNCHANGED <<faults, overtaken>>
  /\ UNCHANGED <<campaign, disputes, milestone, evidence, row, withdrawal,
                 ledger, approver, disturbances, disputed, rejected>>

Check(w) ==
  /\ worker[w].at = "check"
  /\ Goes(w, IF Blocked THEN "fail"
             ELSE IF worker[w].envelope = None THEN "build" ELSE "mark")
  /\ UNCHANGED <<campaign, disputes, milestone, evidence, row, withdrawal,
                 ledger, approver, counters, history>>

Build(w) ==
  /\ worker[w].at = "build"
  /\ \/ Holds(w, "store",
              [round |-> terms, sequence |-> sequence + 1, trigger |-> "auto"])
     \/ Goes(w, "fail")
  /\ UNCHANGED <<campaign, disputes, milestone, evidence, row, withdrawal,
                 ledger, approver, counters, history>>

(* Slip: the status is written and the envelope is not.                    *)
StoreStatus(w) ==
  /\ worker[w].at = "store"
  /\ IF attempt = "claimed"
       THEN attempt' = "prepared" /\ Goes(w, "mark")
       ELSE Rests(w) /\ UNCHANGED attempt
  /\ UNCHANGED <<campaign, disputes, milestone, evidence, terms, envelope,
                 withdrawal, ledger, approver, counters, history>>

Store(w) ==
  /\ worker[w].at = "store"
  /\ IF attempt = "claimed"
       THEN /\ attempt' = "prepared" /\ envelope' = worker[w].envelope
            /\ Goes(w, "mark")
       ELSE /\ Rests(w)
            /\ UNCHANGED <<attempt, envelope>>
  /\ UNCHANGED <<campaign, disputes, milestone, evidence, terms,
                 withdrawal, ledger, approver, counters, history>>

(* Slip: the envelope is sent before the attempt is marked.                *)
SendUnmarked(w) ==
  /\ worker[w].at = "mark"
  /\ Goes(w, "send")
  /\ UNCHANGED <<campaign, disputes, milestone, evidence, row, withdrawal,
                 ledger, approver, counters, history>>

(* Whether a row was marked is not looked at.                              *)
MarkSubmitted(w) ==
  /\ worker[w].at = "mark"
  /\ attempt' = IF attempt \in {"prepared", "submitted"} THEN "submitted"
                ELSE attempt
  /\ Goes(w, "send")
  /\ UNCHANGED <<campaign, disputes, milestone, evidence, terms, envelope,
                 withdrawal, ledger, approver, counters, history>>

Send(w) ==
  /\ worker[w].at = "send"
  /\ LET e == worker[w].envelope IN
     \/ Succeeds(e) /\ Goes(w, "finalize")
     \/ IsRefused(e) /\ Goes(w, "ask")
     \/ IsLost(e) /\ Rests(w)
  /\ UNCHANGED <<campaign, disputes, milestone, evidence, row, withdrawal,
                 approver, counters, history>>

(* A refused envelope that did not pay counts as failed.                   *)
Ask(w) ==
  /\ worker[w].at = "ask"
  /\ Goes(w, IF worker[w].envelope \in landed THEN "finalize" ELSE "fail")
  /\ UNCHANGED <<campaign, disputes, milestone, evidence, row, withdrawal,
                 ledger, approver, counters, history>>

(* Slip: what is not found is taken for failed before it expires.          *)
LookOnce(w) ==
  /\ worker[w].at = "look"
  /\ Goes(w, IF worker[w].envelope \in landed THEN "finalize" ELSE "fail")
  /\ UNCHANGED <<campaign, disputes, milestone, evidence, row, withdrawal,
                 ledger, approver, counters, history>>

Look(w) ==
  /\ worker[w].at = "look"
  /\ LET e == worker[w].envelope IN
     Goes(w, CASE e \in landed -> "finalize"
               [] e \in spent \/ (e \in late /\ e \notin landed) -> "fail"
               [] OTHER -> "recheck")
  /\ UNCHANGED <<campaign, disputes, milestone, evidence, row, withdrawal,
                 ledger, approver, counters, history>>

Recheck(w) ==
  /\ worker[w].at = "recheck"
  /\ IF Blocked THEN Rests(w) ELSE Goes(w, "mark")
  /\ UNCHANGED <<campaign, disputes, milestone, evidence, row, withdrawal,
                 ledger, approver, counters, history>>

(* failAttempt: the milestone goes back to manual review.                  *)
Fail(w) ==
  /\ worker[w].at = "fail" /\ Rests(w)
  /\ IF attempt \in InFlight
       THEN /\ attempt' = "failed"
            /\ IF status = "pending_review"
                 THEN auto' = "failed" /\ claimed' = FALSE
                 ELSE UNCHANGED <<auto, claimed>>
       ELSE UNCHANGED <<attempt, auto, claimed>>
  /\ UNCHANGED <<campaign, disputes, status, enabled, due, evidence, terms,
                 envelope, withdrawal, ledger, approver, counters, history>>

(* setCampaignStatusFromMilestoneProgress                                  *)
Progresses ==
  campaign' \in IF campaign \in {"funded", "in_progress", "completed"}
                THEN {"in_progress", "completed"} ELSE {campaign}

(* finalizeRelease looks at the milestone, and of the attempt only whether *)
(* it is confirmed.                                                        *)
Finalize(w) ==
  /\ worker[w].at = "finalize" /\ Rests(w)
  /\ attempt' = "confirmed"
  /\ IF attempt # "confirmed" /\ status # "released"
       THEN /\ status' = "released" /\ auto' = "released"
            /\ withdrawal' = envelope
            /\ Progresses
       ELSE UNCHANGED <<status, auto, withdrawal, campaign>>
  /\ UNCHANGED <<disputes, enabled, due, claimed, evidence, terms, envelope,
                 ledger, approver, counters, history>>

(* The process stops, or a call throws out of the pass.                    *)
WorkerStops(w) ==
  /\ worker[w].at # "idle" /\ faults < MaxFaults
  /\ faults' = faults + 1 /\ Rests(w)
  /\ UNCHANGED <<campaign, disputes, milestone, evidence, row, withdrawal,
                 ledger, approver, disturbances, history>>

----------------------------------------------------------------------------
(* The platform approver.                                                  *)

(* The milestone is read, and not again before the claim.                  *)
Approve(a) ==
  /\ approver[a].at = "idle"
  /\ campaign \in Releasable /\ status = "pending_review"
  /\ approver' = [approver EXCEPT ![a] =
                    [at |-> "claim", round |-> round, envelope |-> None]]
  /\ UNCHANGED <<campaign, disputes, milestone, evidence, row, withdrawal,
                 ledger, worker, counters, history>>

Claim(a) ==
  /\ approver[a].at = "claim"
  /\ IF status = "pending_review" /\ ~claimed
       THEN claimed' = TRUE /\ approver' = [approver EXCEPT ![a].at = "build"]
       ELSE claimed' = claimed /\ approver' = [approver EXCEPT ![a] = IdleApprover]
  /\ UNCHANGED <<campaign, disputes, status, auto, enabled, due, evidence,
                 row, withdrawal, ledger, worker, counters, history>>

BuildRelease(a) ==
  /\ approver[a].at = "build"
  /\ approver' = [approver EXCEPT ![a].at = "send",
                    ![a].envelope = [round |-> approver[a].round,
                                     sequence |-> sequence + 1,
                                     trigger |-> "manual"]]
  /\ UNCHANGED <<campaign, disputes, milestone, evidence, row, withdrawal,
                 ledger, worker, counters, history>>

SendRelease(a) ==
  /\ approver[a].at = "send"
  /\ LET e == approver[a].envelope IN
     \/ Succeeds(e) /\ approver' = [approver EXCEPT ![a].at = "record"]
     \/ (IsRefused(e) \/ IsLost(e)) /\ approver' = [approver EXCEPT ![a] = IdleApprover]
  /\ UNCHANGED <<campaign, disputes, milestone, evidence, row, withdrawal,
                 worker, counters, history>>

(* The release is recorded, unless one is.                                 *)
RecordRelease(a) ==
  /\ approver[a].at = "record"
  /\ approver' = [approver EXCEPT ![a] = IdleApprover]
  /\ IF withdrawal = None
       THEN /\ withdrawal' = approver[a].envelope
            /\ status' = "released"
            /\ auto' = IF auto = "none" THEN "none" ELSE "superseded"
            /\ Progresses
       ELSE UNCHANGED <<withdrawal, status, auto, campaign>>
  /\ UNCHANGED <<disputes, enabled, due, claimed, evidence, row, ledger,
                 worker, counters, history>>

(* A failed signature or call, a rollback or a crash: claimed_at stays.    *)
ApproverStops(a) ==
  /\ approver[a].at # "idle"
  /\ approver' = [approver EXCEPT ![a] = IdleApprover]
  /\ UNCHANGED <<campaign, disputes, milestone, evidence, row, withdrawal,
                 ledger, worker, counters, history>>

----------------------------------------------------------------------------
Requests ==
  \/ Configure \/ OptOut \/ BeginSubmission
  \/ \E qualifies \in BOOLEAN : Submit(qualifies)
  \/ Reject
  \/ RaiseDispute \/ CloseDispute \/ ReleaseToCreator \/ RefundContributors

Environment ==
  \/ WindowElapses \/ TargetFound \/ OtherPayment
  \/ PendingLands \/ EnvelopeExpires

Advance(w) ==
  \/ Check(w) \/ Build(w) \/ Store(w) \/ MarkSubmitted(w) \/ Send(w)
  \/ Ask(w) \/ Look(w) \/ Recheck(w) \/ Fail(w) \/ Finalize(w)

Next ==
  \/ Requests \/ Environment
  \/ \E w \in Workers :
       \/ \E sound \in BOOLEAN : ClaimDue(w, sound)
       \/ Recover(w) \/ Advance(w) \/ WorkerStops(w)
  \/ \E a \in Approvers :
       \/ Approve(a) \/ Claim(a) \/ BuildRelease(a) \/ SendRelease(a)
       \/ RecordRelease(a) \/ ApproverStops(a)

Spec == Init /\ [][Next]_vars

(* Envelopes expire, and while an attempt is in flight some pass of the    *)
(* worker goes on with it or, a minute later, takes it up.                 *)
FairSpec ==
  /\ Spec
  /\ WF_vars(EnvelopeExpires)
  /\ WF_vars(\E w \in Workers : Recover(w) \/ Advance(w))

----------------------------------------------------------------------------
(* Every column and every step an actor is at keeps its type, and a stored *)
(* attempt has its envelope.                                               *)
ReleaseTypeOK ==
  /\ campaign \in {"active", "funded", "in_progress", "completed",
                   "disputed", "refunded"}
  /\ disputes \in Nat
  /\ status \in {"pending", "pending_review", "rejected", "released"}
  /\ auto \in {"none", "awaiting_evidence", "scheduled", "halted",
               "ineligible", "releasing", "released", "failed", "cancelled",
               "superseded"}
  /\ enabled \in BOOLEAN /\ due \in BOOLEAN /\ claimed \in BOOLEAN
  /\ round \in 0 .. MaxRounds
  /\ submitting \in BOOLEAN
  /\ attempt \in {"none", "confirmed", "failed"} \cup InFlight
  /\ terms \in 0 .. MaxRounds
  /\ envelope \in Envelopes \cup {None}
  /\ withdrawal \in Envelopes \cup {None}
  /\ sequence \in Nat
  /\ network \subseteq Envelopes /\ landed \subseteq Envelopes
  /\ spent \subseteq Envelopes /\ late \subseteq Envelopes
  /\ worker \in [Workers ->
       [at : {"idle", "check", "build", "store", "mark", "send", "ask",
              "look", "recheck", "fail", "finalize"},
        envelope : Envelopes \cup {None}]]
  /\ approver \in [Approvers ->
       [at : {"idle", "claim", "build", "send", "record"},
        round : 0 .. MaxRounds, envelope : Envelopes \cup {None}]]
  /\ disturbances \in 0 .. MaxDisturbances /\ faults \in 0 .. MaxFaults
  /\ disputed \subseteq 1 .. MaxRounds /\ rejected \subseteq 1 .. MaxRounds
  /\ overtaken \in BOOLEAN
  /\ attempt \in {"prepared", "submitted", "confirmed"} => envelope # None

(* Whatever stops, gets lost or is asked twice, a milestone is paid once,  *)
(* by worker or approver: a payment that is not recorded yet keeps the     *)
(* milestone claimed.  Only when an attempt is taken from a worker that is *)
(* slower than its lease may both pay.                                     *)
PaidOnce ==
  ~overtaken =>
    /\ Cardinality(landed) <= 1
    /\ landed # {} /\ status # "released" => claimed

(* What the rows say is so: a released milestone was paid, with the        *)
(* envelope that its withdrawal request records; a confirmed attempt paid; *)
(* and an attempt is failed once its envelope can no longer land.          *)
RowsTellTheLedger ==
  /\ status = "released" <=> withdrawal # None
  /\ withdrawal # None => withdrawal \in landed
  /\ attempt = "confirmed" => envelope \in landed
  /\ attempt = "failed" /\ ~overtaken =>
       envelope \notin landed /\ (envelope \in network => ~MayLand(envelope))

(* Nobody is paid automatically for evidence that was disputed while its   *)
(* release was scheduled, however the dispute ends, nor for evidence that  *)
(* was rejected.                                                           *)
StoppedRoundsStayUnpaid ==
  \A e \in landed : e.trigger = "auto" =>
    e.round \notin disputed /\ (e.round \in rejected => overtaken)

(* An attempt does not stay in flight: it is confirmed or handed back.     *)
AttemptsSettle == attempt \in InFlight ~> attempt \in {"confirmed", "failed"}

============================================================================
