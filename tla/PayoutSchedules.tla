-------------------------- MODULE PayoutSchedules --------------------------
(***************************************************************************)
(* Recurring payouts of one campaign                                       *)
(* (backend/src/services/payoutScheduleService.js).                        *)
(*                                                                         *)
(* A worker takes a Postgres advisory lock, reads the schedules that are   *)
(* due, and for each of them looks at the funds and raises a withdrawal    *)
(* request in a transaction that also moves the schedule on.  It writes    *)
(* what it computed from the row it read at first, and never looks at the  *)
(* row again.  The lock belongs to a connection: when that breaks,         *)
(* Postgres gives the lock to the next worker, and the first goes on.      *)
(*                                                                         *)
(* Meanwhile the creator pauses, resumes and cancels schedules, requests   *)
(* are denied, and disputes put them on hold.  A date is a natural number  *)
(* and a cadence one step of it; the payouts of a schedule are told apart  *)
(* by their dates, as its idempotency keys are.                            *)
(***************************************************************************)
EXTENDS Integers, FiniteSets, TokenSums

CONSTANTS
  Schedules,
  Workers,        \* processes that run processDuePayoutSchedules
  AmountOf,       \* what a schedule pays at each date
  LimitOf,        \* max_occurrences
  EndOf,          \* end_date
  Raised,         \* the campaign's raised_amount
  LastDate,       \* bound: the last date considered
  MaxDenied       \* bound: requests that are denied

Dates == 0 .. LastDate
Occurrences == Schedules \X Dates

ASSUME PartiesAssumption == IsFiniteSet(Schedules)
ASSUME TermsAssumption ==
  /\ AmountOf \in [Schedules -> Nat \ {0}]
  /\ LimitOf \in [Schedules -> Nat \ {0}]
  /\ EndOf \in [Schedules -> Nat \ {0}]
  /\ Raised \in Nat
ASSUME BoundsAssumption == LastDate \in Nat /\ MaxDenied \in Nat

VARIABLES
  today,
  schedules,      \* recurring_payout_schedules
  requests,       \* how many withdrawal requests each payout raised
  standing,       \* their status
  runs,           \* the keys in recurring_payout_runs
  resuming,       \* the row a resume has read, while it computes
  lock,           \* who holds the advisory lock: nobody or one worker
  workers,        \* what each is at, and the rows it has read
  overtaken,      \* history: schedules that ended or were paid while a
                  \* resume computed, and were resumed all the same
  returned,       \* history: payouts that came back from a hold
  lockLost        \* history: whether a held lock was lost

ledger == <<requests, standing, runs>>
history == <<overtaken, returned, lockLost>>
scheduleVars == <<today, schedules, ledger, resuming, lock, workers, history>>

Absent == [status |-> "absent", next |-> 0, count |-> 0]
NoDate == LastDate + 2
Idle == [step |-> "idle", due |-> {}, at |-> {}]

(* What counts against the campaign's funds: requests that are pending. *)
Committed ==
  Total([x \in Occurrences |->
           IF standing[x] = "pending" THEN requests[x] * AmountOf[x[1]] ELSE 0])

RunsOf(s) == {x \in runs : x[1] = s}

---------------------------------------------------------------------------
SchedulesInit ==
  /\ today = 0
  /\ schedules = [s \in Schedules |-> Absent]
  /\ requests = [x \in Occurrences |-> 0]
  /\ standing = [x \in Occurrences |-> "none"]
  /\ runs = {}
  /\ resuming = [s \in Schedules |-> NoDate]
  /\ lock = {}
  /\ workers = [w \in Workers |-> Idle]
  /\ overtaken = {} /\ returned = {} /\ lockLost = FALSE

DayPasses ==
  /\ today < LastDate
  /\ today' = today + 1
  /\ UNCHANGED <<schedules, ledger, resuming, lock, workers, history>>

(* The creator's calls. *)
SetSchedule(s, row) ==
  /\ schedules' = [schedules EXCEPT ![s] = row]
  /\ UNCHANGED <<today, ledger, lock, workers, returned, lockLost>>

CreatePayoutSchedule(s) ==
  /\ schedules[s].status = "absent"
  /\ \E start \in today .. LastDate :
       /\ start < EndOf[s]
       /\ SetSchedule(s, [status |-> "active", next |-> start, count |-> 0])
  /\ UNCHANGED <<resuming, overtaken>>

PausePayoutSchedule(s) ==
  /\ schedules[s].status = "active"
  /\ SetSchedule(s, [schedules[s] EXCEPT !.status = "paused"])
  /\ UNCHANGED <<resuming, overtaken>>

CancelPayoutSchedule(s) ==
  /\ schedules[s].status \notin {"absent", "cancelled"}
  /\ SetSchedule(s, [schedules[s] EXCEPT !.status = "cancelled"])
  /\ UNCHANGED <<resuming, overtaken>>

(* A resume reads the paused row, skips the dates that lapsed, and writes  *)
(* whatever the row has become.                                            *)
ResumeReads(s) ==
  /\ schedules[s].status = "paused"
  /\ resuming[s] = NoDate
  /\ resuming' = [resuming EXCEPT ![s] =
       IF schedules[s].next > today THEN schedules[s].next ELSE today + 1]
  /\ UNCHANGED <<today, schedules, ledger, lock, workers, history>>

ResumeWrites(s) ==
  /\ resuming[s] # NoDate
  /\ SetSchedule(s, [schedules[s] EXCEPT !.status = "active",
                                         !.next = resuming[s]])
  /\ resuming' = [resuming EXCEPT ![s] = NoDate]
  /\ overtaken' =
       IF schedules[s].status = "paused" /\ \A x \in RunsOf(s) : x[2] < resuming[s]
       THEN overtaken ELSE overtaken \cup {s}

(* The creator or the platform turns a request down. *)
Deny(x) ==
  /\ standing[x] = "pending"
  /\ Cardinality({y \in Occurrences : standing[y] = "denied"}) < MaxDenied
  /\ standing' = [standing EXCEPT ![x] = "denied"]
  /\ UNCHANGED <<today, schedules, requests, runs, resuming, lock, workers,
                 history>>

(* A dispute puts every pending request of the campaign on hold; decided   *)
(* for the creator, it returns them (here: once).                          *)
Move(from, to) ==
  /\ \E x \in Occurrences : standing[x] = from
  /\ standing' = [x \in Occurrences |->
                    IF standing[x] = from THEN to ELSE standing[x]]
  /\ UNCHANGED <<today, schedules, requests, runs, resuming, lock, workers,
                 overtaken, lockLost>>

Dispute ==
  /\ returned = {}
  /\ Move("pending", "on_hold")
  /\ UNCHANGED returned

Resolve ==
  /\ Move("on_hold", "pending")
  /\ returned' = returned \cup {x \in Occurrences : standing[x] = "on_hold"}

---------------------------------------------------------------------------
(* processDuePayoutSchedules. *)
Step(w, step) == workers' = [workers EXCEPT ![w].step = step]

(* Slip: the pass goes on though another worker has the lock. *)
LockAnyway(w) ==
  /\ workers[w].step = "idle"
  /\ lock' = lock \cup {w}
  /\ Step(w, "locked")
  /\ UNCHANGED <<today, schedules, ledger, resuming, history>>

TryLock(w) ==
  /\ workers[w].step = "idle"
  /\ lock = {}
  /\ lock' = {w}
  /\ Step(w, "locked")
  /\ UNCHANGED <<today, schedules, ledger, resuming, history>>

(* One query takes the rows as they are; the end of the pass releases the  *)
(* lock, if it is still this worker's.                                     *)
SelectDue(w) ==
  LET due == {s \in Schedules : /\ schedules[s].status = "active"
                                /\ schedules[s].next <= today} IN
  /\ workers[w].step = "locked"
  /\ workers' = [workers EXCEPT ![w] =
       [step |-> "pass", at |-> {},
        due |-> {[s |-> s, row |-> schedules[s]] : s \in due}]]
  /\ UNCHANGED <<today, schedules, ledger, resuming, lock, history>>

Unlock(w) ==
  /\ workers[w].step = "pass" /\ workers[w].due = {}
  /\ lock' = lock \ {w}
  /\ workers' = [workers EXCEPT ![w] = Idle]
  /\ UNCHANGED <<today, schedules, ledger, resuming, history>>

(* The rows are taken in the order of their dates. *)
Earliest(w) ==
  {i \in workers[w].due : \A j \in workers[w].due : i.row.next <= j.row.next}

(* Slip: the payout is compared with all that was raised. *)
CoveredAlone(i) == AmountOf[i.s] <= Raised

Covered(i) == Committed + AmountOf[i.s] <= Raised

(* A payout the funds do not cover is left for a later pass.               *)
CheckFunds(w) ==
  /\ workers[w].step = "pass"
  /\ \E i \in Earliest(w) :
       workers' = [workers EXCEPT ![w] =
         [step |-> IF Covered(i) THEN "raise" ELSE "pass",
          due |-> workers[w].due \ {i},
          at |-> IF Covered(i) THEN {i} ELSE {}]]
  /\ UNCHANGED <<today, schedules, ledger, resuming, lock, history>>

(* The row after a payout, from the row that was read. *)
Advanced(i) ==
  LET count == i.row.count + 1
      next == i.row.next + 1 IN
  [status |-> IF count >= LimitOf[i.s] \/ next > EndOf[i.s]
              THEN "completed" ELSE "active",
   next |-> next, count |-> count]

Leave(w) == workers' = [workers EXCEPT ![w].step = "pass", ![w].at = {}]

(* Slip: the key of a run is stored, but not looked for. *)
RaiseUnchecked(i) ==
  LET x == <<i.s, i.row.next>> IN
  /\ runs' = runs \cup {x}
  /\ requests' = [requests EXCEPT ![x] = @ + 1]
  /\ standing' = [standing EXCEPT ![x] = "pending"]

Raise(i) ==
  LET x == <<i.s, i.row.next>> IN
  IF x \in runs
  THEN UNCHANGED ledger
  ELSE /\ runs' = runs \cup {x}
       /\ requests' = [requests EXCEPT ![x] = @ + 1]
       /\ standing' = [standing EXCEPT ![x] = "pending"]

(* One transaction: the request, unless this date has a run, and the row   *)
(* of the schedule, whatever it is by now.                                 *)
RaiseRequest(w) ==
  /\ workers[w].step = "raise"
  /\ \E i \in workers[w].at :
       /\ Raise(i)
       /\ schedules' = [schedules EXCEPT ![i.s] = Advanced(i)]
  /\ Leave(w)
  /\ UNCHANGED <<today, resuming, lock, history>>

(* Another worker has committed the key since it was looked for: the       *)
(* unique index lets the transaction fail.                                 *)
RaiseCollides(w) ==
  /\ workers[w].step = "raise"
  /\ \E i \in workers[w].at : <<i.s, i.row.next>> \in runs
  /\ Leave(w)
  /\ UNCHANGED <<today, schedules, ledger, resuming, lock, history>>

(* A failed query ends the pass before it has begun, or skips a schedule.  *)
QueryFails(w) ==
  /\ \/ workers[w].step = "locked" /\ Step(w, "pass")
     \/ /\ workers[w].step = "pass"
        /\ \E i \in Earliest(w) : workers' = [workers EXCEPT ![w].due = @ \ {i}]
     \/ workers[w].step = "raise" /\ Leave(w)
  /\ UNCHANGED <<today, schedules, ledger, resuming, lock, history>>

(* The connection of the lock breaks: considered once. *)
LoseLock ==
  /\ lock # {} /\ ~lockLost
  /\ lock' = {} /\ lockLost' = TRUE
  /\ UNCHANGED <<today, schedules, ledger, resuming, workers,
                 overtaken, returned>>

Crash(w) ==
  /\ workers[w].step # "idle"
  /\ lock' = lock \ {w}
  /\ workers' = [workers EXCEPT ![w] = Idle]
  /\ UNCHANGED <<today, schedules, ledger, resuming, history>>

---------------------------------------------------------------------------
CreatorStep(s) ==
  \/ CreatePayoutSchedule(s) \/ PausePayoutSchedule(s)
  \/ CancelPayoutSchedule(s) \/ ResumeReads(s) \/ ResumeWrites(s)
WorkerStep(w) ==
  \/ TryLock(w) \/ SelectDue(w) \/ CheckFunds(w) \/ RaiseRequest(w)
  \/ RaiseCollides(w) \/ QueryFails(w) \/ Unlock(w) \/ Crash(w)

SchedulesNext ==
  \/ DayPasses \/ LoseLock \/ Dispute \/ Resolve
  \/ \E x \in Occurrences : Deny(x)
  \/ \E s \in Schedules : CreatorStep(s)
  \/ \E w \in Workers : WorkerStep(w)

SchedulesSpec == SchedulesInit /\ [][SchedulesNext]_scheduleVars

---------------------------------------------------------------------------
Rows == [status : {"absent", "active", "paused", "completed", "cancelled"},
         next : 0 .. LastDate + 1, count : Nat]
Items == [s : Schedules, row : Rows]

PayoutTypeOK ==
  /\ today \in Dates
  /\ schedules \in [Schedules -> Rows]
  /\ requests \in [Occurrences -> Nat]
  /\ standing \in [Occurrences -> {"none", "pending", "on_hold", "denied"}]
  /\ runs \subseteq Occurrences
  /\ resuming \in [Schedules -> 0 .. NoDate]
  /\ lock = {} \/ \E w \in Workers : lock = {w}
  /\ workers \in [Workers -> [step : {"idle", "locked", "pass", "raise"},
                              due : SUBSET Items, at : SUBSET Items]]
  /\ overtaken \subseteq Schedules /\ returned \subseteq Occurrences
  /\ lockLost \in BOOLEAN

(* "concurrent payout schedule runs create only one withdrawal request"    *)
(* (payoutSchedules.test.js): a date of a schedule raises one request and  *)
(* has a run for it, and not before it has come, though the lock is lost   *)
(* and several workers hold the same row.  And while no lock is lost, a    *)
(* schedule pays as often as it counts and no more than max_occurrences,   *)
(* through pauses, failures and crashes; but for a resume of what ended or *)
(* was paid meanwhile.                                                     *)
PaidAsScheduled ==
  /\ \A x \in Occurrences :
       /\ requests[x] = IF x \in runs THEN 1 ELSE 0
       /\ requests[x] > 0 => x[2] <= today
  /\ \A s \in Schedules \ overtaken :
       ~lockLost =>
         /\ schedules[s].count = Cardinality(RunsOf(s))
         /\ schedules[s].count <= LimitOf[s]

(* "Check available funds without overdraw" (processDuePayoutSchedules):   *)
(* while no lock is lost, the pending payouts stay within what was raised, *)
(* though the check and the request are separated by queries; but for      *)
(* requests that return from a dispute, as those on hold are not counted.  *)
PayoutsWithinFunds ==
  ~lockLost =>
    Total([x \in Occurrences |->
             IF standing[x] = "pending" /\ x \notin returned
             THEN requests[x] * AmountOf[x[1]] ELSE 0]) <= Raised

(* The payouts are those of the schedules and within the funds.            *)
PayoutsAreSound == PaidAsScheduled /\ PayoutsWithinFunds
============================================================================
