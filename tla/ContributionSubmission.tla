---------------------- MODULE ContributionSubmission ----------------------
(***************************************************************************)
(* How a custodial contribution is submitted, and what keeps a retry from  *)
(* paying twice (backend/src/services/contributionService.js,              *)
(* stellarTransactionService.js, middleware/idempotency.js,                *)
(* routes/contributions.js and routes/anchor.js).                          *)
(*                                                                         *)
(* Three callers share submitCustodialContribution, cut here at its awaits: *)
(*   - POST /contributions, behind the idempotency middleware.  The row of *)
(*     the intent, the payment and the answer lie inside ONE database      *)
(*     transaction, so until its COMMIT nobody sees the row;               *)
(*   - the anchor's callback for a deposit, behind a claim in Redis and    *)
(*     with the event as its key.  Its queries commit one by one;          *)
(*   - the client's poll of a deposit, without a claim and without a key.  *)
(*                                                                         *)
(* A crash stops every call; database, Redis and ledger survive it.  One   *)
(* actor, one scope.  A key does not expire while a call of it runs: a     *)
(* call does not last the 24 hours a key lives.                            *)
(***************************************************************************)
EXTENDS Integers

CONSTANTS
  Keys,           \* the Idempotency-Keys a client uses
  Deposits,       \* anchor deposits; their callbacks bear their ids
  DepositAssets,  \* what the anchors pay out
  None,
  MaxCalls,       \* bound: requests, callbacks and polls
  MaxFailures,    \* bound: queries that fail, replies that are lost
  MaxCrashes,     \* bound: crashes of the process
  MaxExpiries     \* bound: keys whose time to live ends

Calls == 1 .. MaxCalls

(* The campaign's own asset, or one that is converted on the way. *)
Assets == {"same", "cross"}
Vias == {"route", "callback", "poll"}
Steps == {"claim", "look", "read", "sync", "select", "insert",
          "submit", "resubmit", "again", "undo", "mark", "record", "accept",
          "refuse", "keep_accept", "keep_refuse", "done"}
Answers == [accepted : BOOLEAN, tx : Calls \cup {None}]
CallRecords ==
  [via : Vias, of : Keys \cup Deposits, asset : Assets,
   said : {None, "pending_anchor", "completed", "failed"},
   tx : Calls \cup {None}, step : Steps]

(* None is a NULL of the database: no name, no answer and no call. *)
ASSUME NamesAssumption ==
  /\ None \notin Keys \cup Deposits \cup Calls
  /\ None \notin Answers /\ None \notin CallRecords
ASSUME LimitsAssumption ==
  {MaxCalls, MaxFailures, MaxCrashes, MaxExpiries} \subseteq Nat
ASSUME DepositAssumption == DepositAssets \subseteq Assets

VARIABLES
  keys,           \* idempotency_keys
  events,         \* the anchor:event:<id> keys in Redis
  deposits,       \* anchor_deposits
  rows,           \* the row of stellar_transactions each call committed
  paid,           \* how many payments each call made on the ledger
  anchor,         \* what the anchor says of each deposit
  calls,          \* the calls, by number
  replies,        \* the answers clients got in the current life of a key
  failures, crashes, expiries

bounds == <<failures, crashes, expiries>>
submissionVars == <<keys, events, deposits, rows, paid, anchor, calls, replies, bounds>>

Free == [status |-> "free", asset |-> None, answer |-> None]
Unused(r) == calls[r] = None /\ \A q \in 1 .. r - 1 : calls[q] # None
Running == {r \in Calls : calls[r] # None /\ calls[r].step # "done"}
At(r, step) == r \in Running /\ calls[r].step = step
Via(r, via) == calls[r].via = via

(* The idempotency key that two calls share; a poll has none. *)
SameKey(q, r) ==
  /\ ~Via(r, "poll")
  /\ calls[q] # None
  /\ calls[q].via = calls[r].via /\ calls[q].of = calls[r].of

---------------------------------------------------------------------------
SubmissionInit ==
  /\ keys = [k \in Keys |-> Free]
  /\ events = {}
  /\ deposits \in [Deposits -> [status : {"pending_anchor"}, tx : {None},
                                asset : DepositAssets]]
  /\ rows = [r \in Calls |-> "none"] /\ paid = [r \in Calls |-> 0]
  /\ anchor = [d \in Deposits |-> "pending_anchor"]
  /\ calls = [r \in Calls |-> None]
  /\ replies = [k \in Keys |-> {}]
  /\ failures = 0 /\ crashes = 0 /\ expiries = 0

Begin(via, of, asset, said) ==
  /\ \E r \in Calls :
       /\ Unused(r)
       /\ calls' = [calls EXCEPT ![r] =
            [via |-> via, of |-> of, asset |-> asset, said |-> said,
             tx |-> None, step |-> IF via = "poll" THEN "read" ELSE "claim"]]
  /\ UNCHANGED <<keys, events, deposits, rows, paid, anchor, replies, bounds>>

(* A client posts a contribution; a retry has the same key, if perhaps     *)
(* another body.                                                           *)
Post(k, asset) == Begin("route", k, asset, None)

(* The provider calls back, perhaps late or again, with a status the       *)
(* transaction has or had.                                                 *)
Callback(d) ==
  \E said \in {"pending_anchor", anchor[d]} :
    Begin("callback", d, deposits[d].asset, said)

Poll(d) == Begin("poll", d, deposits[d].asset, anchor[d])

AnchorSettles(d) ==
  /\ anchor[d] = "pending_anchor"
  /\ \E s \in {"completed", "failed"} : anchor' = [anchor EXCEPT ![d] = s]
  /\ UNCHANGED <<keys, events, deposits, rows, paid, calls, replies, bounds>>

Carry(r, step, tx) == calls' = [calls EXCEPT ![r].step = step, ![r].tx = tx]
Goto(r, step) ==
  Carry(r, step, IF step = "done" THEN None ELSE calls[r].tx)

Fails ==
  /\ failures < MaxFailures
  /\ failures' = failures + 1
  /\ UNCHANGED <<crashes, expiries>>

---------------------------------------------------------------------------
(* The idempotency middleware: one INSERT claims a free or expired key. *)
Claim(r) ==
  LET k == calls[r].of IN
  /\ At(r, "claim") /\ Via(r, "route")
  /\ IF keys[k].status = "free"
     THEN /\ keys' = [keys EXCEPT ![k] = [status |-> "processing",
                        asset |-> calls[r].asset, answer |-> None]]
          /\ Goto(r, "select")
     ELSE Goto(r, "look") /\ UNCHANGED keys
  /\ UNCHANGED <<events, deposits, rows, paid, anchor, replies, bounds>>

(* The body is told apart by its hash: here, by the asset it sends. *)
(* Slip: any finished answer is replayed, whatever the body. *)
ReplayAnyBody(r) == keys[calls[r].of].status = "finished"

Replayed(r) ==
  LET row == keys[calls[r].of] IN
  row.status = "finished" /\ row.asset = calls[r].asset

(* A key that is taken: the finished answer is replayed, a different body  *)
(* or a call in progress is a conflict.                                    *)
Look(r) ==
  LET k == calls[r].of IN
  /\ At(r, "look")
  /\ Goto(r, "done")
  /\ replies' = IF Replayed(r)
                THEN [replies EXCEPT ![k] = @ \cup
                       {[asset |-> calls[r].asset, answer |-> keys[k].answer]}]
                ELSE replies
  /\ UNCHANGED <<keys, events, deposits, rows, paid, anchor, bounds>>

(* res.json starts to store the answer and sends it, without waiting.      *)
Reply(r) ==
  LET k == calls[r].of IN
  /\ \/ At(r, "accept") \/ At(r, "refuse")
  /\ replies' = [replies EXCEPT ![k] = @ \cup
       {[asset |-> calls[r].asset,
         answer |-> [accepted |-> calls[r].step = "accept",
                     tx |-> calls[r].tx]]}]
  /\ Goto(r, IF calls[r].step = "accept" THEN "keep_accept" ELSE "keep_refuse")
  /\ UNCHANGED <<keys, events, deposits, rows, paid, anchor, bounds>>

(* Slip: the key is finished before the answer is there to be stored. *)
PersistStatusOnly(r) ==
  /\ \/ At(r, "keep_accept") \/ At(r, "keep_refuse")
  /\ keys' = [keys EXCEPT ![calls[r].of].status = "finished"]
  /\ Goto(r, "done")
  /\ UNCHANGED <<events, deposits, rows, paid, anchor, replies, bounds>>

Persist(r) ==
  LET k == calls[r].of IN
  /\ \/ At(r, "keep_accept") \/ At(r, "keep_refuse")
  /\ keys' = [keys EXCEPT ![k].status = "finished",
       ![k].answer = [accepted |-> calls[r].step = "keep_accept",
                      tx |-> calls[r].tx]]
  /\ Goto(r, "done")
  /\ UNCHANGED <<events, deposits, rows, paid, anchor, replies, bounds>>

PersistFails(r) ==
  /\ \/ At(r, "keep_accept") \/ At(r, "keep_refuse")
  /\ Fails
  /\ Goto(r, "done")
  /\ UNCHANGED <<keys, events, deposits, rows, paid, anchor, replies>>

(* Its time to live over, the row can be claimed again. *)
Expire(k) ==
  /\ keys[k].status # "free"
  /\ ~\E r \in Running : Via(r, "route") /\ calls[r].of = k
  /\ expiries < MaxExpiries
  /\ expiries' = expiries + 1
  /\ keys' = [keys EXCEPT ![k] = Free]
  /\ replies' = [replies EXCEPT ![k] = {}]
  /\ UNCHANGED <<events, deposits, rows, paid, anchor, calls,
                 failures, crashes>>

---------------------------------------------------------------------------
(* The anchor's callback claims its event once, and the claim fails open.  *)
ClaimEvent(r) ==
  LET d == calls[r].of IN
  /\ At(r, "claim") /\ Via(r, "callback")
  /\ \/ /\ Goto(r, IF d \in events THEN "done" ELSE "read")
        /\ events' = events \cup {d}
        /\ UNCHANGED bounds
     \/ Goto(r, "read") /\ Fails /\ UNCHANGED events
  /\ UNCHANGED <<keys, deposits, rows, paid, anchor, replies>>

(* Both callers of a deposit read its session, and go by it to the end. *)
Read(r) ==
  /\ At(r, "read")
  /\ Carry(r, "sync", deposits[calls[r].of].tx)
  /\ UNCHANGED <<keys, events, deposits, rows, paid, anchor, replies, bounds>>

(* They store what the anchor says, and a completed deposit without a      *)
(* transaction becomes a contribution.                                     *)
Sync(r) ==
  LET d == calls[r].of
      said == calls[r].said IN
  /\ At(r, "sync")
  /\ deposits' = [deposits EXCEPT ![d].status =
       CASE said # "completed"    -> said
         [] calls[r].tx # None    -> "contribution_submitted"
         [] OTHER                 -> "deposit_completed"]
  /\ Goto(r, IF said = "completed" /\ calls[r].tx = None THEN "select"
                                                         ELSE "done")
  /\ UNCHANGED <<keys, events, rows, paid, anchor, replies, bounds>>

(* The answer of a call that threw.  The route's transaction is rolled     *)
(* back; the callback gives its event back, if Redis lets it, so that the  *)
(* provider's retry is accepted; a poll that has begun to contribute leaves *)
(* the deposit as completed.                                               *)
Throw(r) ==
  LET d == calls[r].of IN
  IF Via(r, "route")
  THEN Carry(r, "refuse", None) /\ UNCHANGED <<events, deposits>>
  ELSE /\ Carry(r, "done", None)
       /\ events' \in {events, IF Via(r, "callback") THEN events \ {d}
                                                     ELSE events}
       /\ deposits' = IF Via(r, "poll") /\ calls[r].step \notin {"read", "sync"}
                      THEN [deposits EXCEPT ![d].status = "deposit_completed"]
                      ELSE deposits

(* The campaign has closed, or the contribution is against its policy. *)
Decline(r) ==
  /\ At(r, "select")
  /\ IF Via(r, "route")
     THEN Goto(r, "refuse") /\ UNCHANGED deposits
     ELSE /\ Goto(r, "done")
          /\ deposits' = [deposits EXCEPT ![calls[r].of].status = "failed"]
  /\ UNCHANGED <<keys, events, rows, paid, anchor, replies, bounds>>

(* A query before the payment fails. *)
QueryFails(r) ==
  /\ \E step \in {"read", "sync", "select", "insert"} : At(r, step)
  /\ Fails
  /\ Throw(r)
  /\ UNCHANGED <<keys, rows, paid, anchor, replies>>

---------------------------------------------------------------------------
(* submitCustodialContribution.  A row with the call's key is reused, with *)
(* its tx_hash, whatever its status.                                       *)
After(r) == IF Via(r, "route") THEN "accept" ELSE "record"
SeenBefore(r) == {q \in Calls : rows[q] # "none" /\ SameKey(q, r)}

Select(r) ==
  /\ At(r, "select")
  /\ IF SeenBefore(r) = {}
     THEN Goto(r, "insert")
     ELSE \E q \in SeenBefore(r) :
            Carry(r, After(r), IF rows[q] = "submitted" THEN q ELSE None)
  /\ UNCHANGED <<keys, events, deposits, rows, paid, anchor, replies, bounds>>

(* The row of the route stays inside its transaction. *)
Visible(r, status) ==
  rows' = IF Via(r, "route") THEN rows ELSE [rows EXCEPT ![r] = status]

Insert(r) ==
  /\ At(r, "insert")
  /\ IF SeenBefore(r) = {}
     THEN /\ Goto(r, "submit") /\ Visible(r, "pending")
          /\ UNCHANGED <<events, deposits>>
     ELSE Throw(r) /\ UNCHANGED rows
  /\ UNCHANGED <<keys, paid, anchor, replies, bounds>>

(* One submission: it lands, it is refused, or it lands and the answer is  *)
(* lost, which looks like a refusal.                                       *)
Submission(r, next) ==
  \/ /\ paid' = [paid EXCEPT ![r] = @ + 1]
     /\ \/ Carry(r, next, r) /\ UNCHANGED bounds
        \/ Goto(r, "undo") /\ Fails
  \/ Goto(r, "undo") /\ UNCHANGED <<paid, bounds>>

Submit(r) ==
  /\ At(r, "submit")
  /\ \/ Submission(r, "mark")
     \/ /\ calls[r].asset = "cross"       \* PATH_PAYMENT_OVER_SENDMAX
        /\ Goto(r, "resubmit") /\ UNCHANGED <<paid, bounds>>
  /\ UNCHANGED <<keys, events, deposits, rows, anchor, replies>>

(* Re-quote and retry.  When that has succeeded, the code looks at the     *)
(* first error and at a counter nobody has raised, and does it again.      *)
Resubmit(r) ==
  /\ \/ At(r, "resubmit") /\ Submission(r, "again")
     \/ At(r, "again") /\ Submission(r, "mark")
  /\ UNCHANGED <<keys, events, deposits, rows, anchor, replies>>

(* Slip: a failed attempt leaves no row, so that it can be retried. *)
UndoDeletesRow(r) ==
  /\ At(r, "undo")
  /\ Visible(r, "none")
  /\ Throw(r)
  /\ UNCHANGED <<keys, paid, anchor, replies, bounds>>

Undo(r) ==
  /\ At(r, "undo")
  /\ Visible(r, "failed")
  /\ Throw(r)
  /\ UNCHANGED <<keys, paid, anchor, replies, bounds>>

UndoFails(r) ==
  /\ At(r, "undo")
  /\ Fails
  /\ Throw(r)
  /\ UNCHANGED <<keys, rows, paid, anchor, replies>>

(* The row is marked as submitted, and the route commits. *)
Mark(r) ==
  /\ At(r, "mark")
  /\ rows' = [rows EXCEPT ![r] = "submitted"]
  /\ Goto(r, After(r))
  /\ UNCHANGED <<keys, events, deposits, paid, anchor, replies, bounds>>

MarkFails(r) ==
  /\ At(r, "mark")
  /\ Fails
  /\ Throw(r)
  /\ UNCHANGED <<keys, rows, paid, anchor, replies>>

StoreTransaction(r) ==
  /\ At(r, "record")
  /\ deposits' = [deposits EXCEPT
       ![calls[r].of].status = "contribution_submitted",
       ![calls[r].of].tx = calls[r].tx]
  /\ Goto(r, "done")
  /\ UNCHANGED <<keys, events, rows, paid, anchor, replies, bounds>>

StoreTransactionFails(r) ==
  /\ At(r, "record")
  /\ Fails
  /\ Throw(r)
  /\ UNCHANGED <<keys, rows, paid, anchor, replies>>

Crash ==
  /\ Running # {}
  /\ crashes < MaxCrashes
  /\ crashes' = crashes + 1
  /\ calls' = [r \in Calls |->
       IF r \in Running THEN [calls[r] EXCEPT !.step = "done", !.tx = None]
                        ELSE calls[r]]
  /\ UNCHANGED <<keys, events, deposits, rows, paid, anchor, replies,
                 failures, expiries>>

---------------------------------------------------------------------------
RouteStep(r) ==
  \/ Claim(r) \/ Look(r) \/ Reply(r) \/ Persist(r) \/ PersistFails(r)
DepositStep(r) ==
  \/ ClaimEvent(r) \/ Read(r) \/ Sync(r)
  \/ StoreTransaction(r) \/ StoreTransactionFails(r)
ServiceStep(r) ==
  \/ Decline(r) \/ QueryFails(r)
  \/ Select(r) \/ Insert(r) \/ Submit(r) \/ Resubmit(r)
  \/ Undo(r) \/ UndoFails(r) \/ Mark(r) \/ MarkFails(r)

SubmissionNext ==
  \/ \E k \in Keys : Expire(k) \/ \E asset \in Assets : Post(k, asset)
  \/ \E d \in Deposits : Callback(d) \/ Poll(d) \/ AnchorSettles(d)
  \/ \E r \in Running : RouteStep(r) \/ DepositStep(r) \/ ServiceStep(r)
  \/ Crash

SubmissionSpec == SubmissionInit /\ [][SubmissionNext]_submissionVars

---------------------------------------------------------------------------
SubmissionTypeOK ==
  /\ keys \in [Keys -> [status : {"free", "processing", "finished"},
                        asset : Assets \cup {None},
                        answer : Answers \cup {None}]]
  /\ \A k \in Keys : keys[k].status = "finished" <=> keys[k].answer # None
  /\ events \subseteq Deposits
  /\ deposits \in [Deposits ->
       [status : {"pending_anchor", "deposit_completed", "failed",
                  "contribution_submitted"},
        tx : Calls \cup {None}, asset : Assets]]
  /\ rows \in [Calls -> {"none", "pending", "submitted", "failed"}]
  /\ paid \in [Calls -> 0 .. 2]
  /\ anchor \in [Deposits -> {"pending_anchor", "completed", "failed"}]
  /\ calls \in [Calls -> CallRecords \cup {None}]
  /\ replies \in [Keys -> SUBSET [asset : Assets, answer : Answers]]
  /\ {failures, crashes, expiries} \subseteq Nat

Paying(r) == calls[r] # None /\ paid[r] > 0

(* "A retry with the same idempotencyKey reuses the existing row/result    *)
(* instead of paying twice": of the calls with one key at most one pays,   *)
(* though callbacks are repeated, their claims fail open, replies are lost *)
(* and the process crashes between any two queries.  The exception is the  *)
(* route, whose row is lost with its transaction: by a failure, a crash or *)
(* a path payment that is tried again after it was made.                   *)
PaidOncePerKey ==
  \A q, r \in Calls :
    q # r /\ Paying(q) /\ Paying(r) /\ SameKey(q, r) =>
      /\ Via(q, "route") /\ "none" \in {rows[q], rows[r]}
      /\ \/ failures + crashes > 0
         \/ "cross" \in {calls[q].asset, calls[r].asset}

(* In one life of a key all clients that get an answer get the same one,   *)
(* for the same body; and when a contribution is said to be accepted, or a *)
(* deposit names its transaction, that payment is on the ledger and in its *)
(* row.                                                                    *)
AnswersAreTrue ==
  /\ \A k \in Keys : \A a, b \in replies[k] : a = b
  /\ \A k \in Keys : \A a \in replies[k] :
       a.answer.accepted =>
         \E r \in Calls : /\ r = a.answer.tx /\ Paying(r)
                          /\ rows[r] = "submitted" /\ calls[r].of = k
  /\ \A d \in Deposits :
       deposits[d].tx # None =>
         /\ Paying(deposits[d].tx) /\ rows[deposits[d].tx] = "submitted"
         /\ calls[deposits[d].tx].of = d
===========================================================================
