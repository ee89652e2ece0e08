---------------------------- MODULE PayoutProofs ----------------------------
(***************************************************************************)
(* The money that is paid out of a campaign's wallet.                      *)
(*                                                                         *)
(* Recurring payouts, for any schedules, workers, amounts, limits and      *)
(* dates: the types of PayoutSchedules, that every date pays once and no   *)
(* schedule pays beyond its limit, and that the pending payouts stay       *)
(* within the funds.                                                       *)
(*                                                                         *)
(* The treasury contract and the backend's side of it, for every policy,   *)
(* every set of contributors and any number of withdrawals.                *)
(***************************************************************************)
EXTENDS PayoutSchedules, TreasuryDesk, TokenSumTheorems

---------------------------------------------------------------------------
(* Types, in parts, and that a worker only holds rows that were due: the   *)
(* date it is about to pay is one that has come.                           *)
ScheduleTypeOK ==
  /\ today \in Dates
  /\ schedules \in [Schedules -> Rows]
  /\ resuming \in [Schedules -> 0 .. NoDate]
  /\ overtaken \subseteq Schedules

LedgerTypeOK ==
  /\ requests \in [Occurrences -> Nat]
  /\ standing \in [Occurrences -> {"none", "pending", "on_hold", "denied"}]
  /\ runs \subseteq Occurrences
  /\ returned \subseteq Occurrences

DueItems == {i \in Items : i.row.next \in Dates}

WorkerStates == [step : {"idle", "locked", "pass", "raise"},
                 due : SUBSET DueItems, at : SUBSET DueItems]

LockTypeOK ==
  /\ lock = {} \/ \E w \in Workers : lock = {w}
  /\ lockLost \in BOOLEAN

Typed ==
  /\ ScheduleTypeOK /\ LedgerTypeOK /\ LockTypeOK
  /\ workers \in [Workers -> WorkerStates]

LEMMA TypedIsType == Typed => PayoutTypeOK
<1>. SUFFICES ASSUME Typed PROVE PayoutTypeOK
  OBVIOUS
<1>1. DueItems \subseteq Items
  BY DEF DueItems
<1>2. workers \in [Workers -> [step : {"idle", "locked", "pass", "raise"},
                               due : SUBSET Items, at : SUBSET Items]]
  BY <1>1 DEF Typed, WorkerStates
<1>. QED
  BY <1>2 DEF Typed, ScheduleTypeOK, LedgerTypeOK, LockTypeOK, PayoutTypeOK

LEMMA ItemFacts ==
  ASSUME NEW i \in DueItems
  PROVE  /\ i.s \in Schedules /\ i.row \in Rows /\ i.row.next \in Dates
         /\ i.row.next \in 0 .. LastDate /\ i.row.count \in Nat
         /\ <<i.s, i.row.next>> \in Occurrences
         /\ Advanced(i) \in Rows
<1>1. i.s \in Schedules /\ i.row \in Rows /\ i.row.next \in Dates
  BY DEF DueItems, Items
<1>2. i.row.next \in 0 .. LastDate /\ i.row.count \in Nat
  BY <1>1 DEF Dates, Rows
<1>3. <<i.s, i.row.next>> \in Occurrences
  BY <1>1 DEF Occurrences
<1>4. i.row.next + 1 \in 0 .. LastDate + 1 /\ i.row.count + 1 \in Nat
  BY <1>2, BoundsAssumption
<1>5. Advanced(i) \in Rows
  BY <1>4 DEF Advanced, Rows
<1>. QED BY <1>1, <1>2, <1>3, <1>5

(* The moves of one worker. *)
LEMMA WorkersStep ==
  ASSUME Typed, [SchedulesNext]_scheduleVars
  PROVE  workers' \in [Workers -> WorkerStates]
<1>. USE DEF Typed
<1>1. ASSUME NEW w \in Workers, NEW r \in WorkerStates,
             workers' = [workers EXCEPT ![w] = r]
      PROVE  workers' \in [Workers -> WorkerStates]
  BY <1>1
<1>2. ASSUME NEW w \in Workers, TryLock(w) PROVE workers' \in [Workers -> WorkerStates]
  BY <1>2 DEF TryLock, Step, WorkerStates
<1>3. ASSUME NEW w \in Workers, SelectDue(w) PROVE workers' \in [Workers -> WorkerStates]
  <2>. DEFINE due == {s \in Schedules : /\ schedules[s].status = "active"
                                        /\ schedules[s].next <= today}
              items == {[s |-> s, row |-> schedules[s]] : s \in due}
  <2>1. ASSUME NEW s \in due PROVE [s |-> s, row |-> schedules[s]] \in DueItems
    <3>1. schedules[s] \in Rows /\ today \in 0 .. LastDate
      BY DEF ScheduleTypeOK, Dates
    <3>2. schedules[s].next \in Dates
      BY <3>1, BoundsAssumption DEF Rows, Dates
    <3>. QED BY <3>1, <3>2 DEF DueItems, Items
  <2>2. items \subseteq DueItems
    BY <2>1
  <2>3. workers' = [workers EXCEPT ![w] = [step |-> "pass", at |-> {}, due |-> items]]
    BY <1>3 DEF SelectDue
  <2>. HIDE DEF items
  <2>4. [step |-> "pass", at |-> {}, due |-> items] \in WorkerStates
    BY <2>2 DEF WorkerStates
  <2>. QED BY <2>3, <2>4
<1>4. ASSUME NEW w \in Workers, CheckFunds(w) PROVE workers' \in [Workers -> WorkerStates]
  <2>1. PICK i \in workers[w].due :
          workers' = [workers EXCEPT ![w] =
            [step |-> IF Covered(i) THEN "raise" ELSE "pass",
             due |-> workers[w].due \ {i},
             at |-> IF Covered(i) THEN {i} ELSE {}]]
    BY <1>4 DEF CheckFunds, Earliest
  <2>. QED BY <2>1 DEF WorkerStates
<1>5. ASSUME NEW w \in Workers, Leave(w) PROVE workers' \in [Workers -> WorkerStates]
  BY <1>5 DEF Leave, WorkerStates
<1>6. ASSUME NEW w \in Workers, workers' = [workers EXCEPT ![w] = Idle]
      PROVE  workers' \in [Workers -> WorkerStates]
  BY <1>6 DEF Idle, WorkerStates
<1>7. ASSUME NEW w \in Workers, QueryFails(w) PROVE workers' \in [Workers -> WorkerStates]
  <2>1. CASE Step(w, "pass")
    BY <2>1 DEF Step, WorkerStates
  <2>2. ASSUME NEW i, workers' = [workers EXCEPT ![w].due = @ \ {i}]
        PROVE  workers' \in [Workers -> WorkerStates]
    BY <2>2 DEF WorkerStates
  <2>. QED BY <1>5, <1>7, <2>1, <2>2 DEF QueryFails
<1>8. ASSUME NEW w \in Workers, RaiseRequest(w) \/ RaiseCollides(w)
      PROVE  workers' \in [Workers -> WorkerStates]
  BY <1>5, <1>8 DEF RaiseRequest, RaiseCollides
<1>9. ASSUME NEW w \in Workers, Unlock(w) \/ Crash(w)
      PROVE  workers' \in [Workers -> WorkerStates]
  BY <1>6, <1>9 DEF Unlock, Crash
<1>10. ASSUME NEW s \in Schedules, CreatorStep(s) PROVE workers' = workers
  BY <1>10 DEF CreatorStep, CreatePayoutSchedule, PausePayoutSchedule,
               CancelPayoutSchedule, ResumeReads, ResumeWrites, SetSchedule
<1>11. CASE \/ DayPasses \/ LoseLock \/ Dispute \/ Resolve
            \/ \E x \in Occurrences : Deny(x)
            \/ UNCHANGED scheduleVars
  BY <1>11 DEF DayPasses, LoseLock, Dispute, Resolve, Move, Deny, scheduleVars
<1>. HIDE DEF Typed
<1>12. workers \in [Workers -> WorkerStates]
  BY DEF Typed
<1>. QED
  BY <1>2, <1>3, <1>4, <1>7, <1>8, <1>9, <1>10, <1>11, <1>12
     DEF SchedulesNext, WorkerStep

LEMMA ScheduleStep ==
  ASSUME Typed, [SchedulesNext]_scheduleVars
  PROVE  ScheduleTypeOK'
<1>1. /\ today \in 0 .. LastDate /\ schedules \in [Schedules -> Rows]
      /\ resuming \in [Schedules -> 0 .. NoDate] /\ overtaken \subseteq Schedules
      /\ LastDate \in Nat
  BY BoundsAssumption DEF Typed, ScheduleTypeOK, Dates
<1>2. ASSUME NEW s \in Schedules, NEW r \in Rows, SetSchedule(s, r)
      PROVE  /\ today' \in Dates
             /\ schedules' \in [Schedules -> Rows]
  BY <1>1, <1>2 DEF SetSchedule, Dates
<1>3. ASSUME NEW s \in Schedules, CreatePayoutSchedule(s) PROVE ScheduleTypeOK'
  <2>1. PICK start \in today .. LastDate :
          SetSchedule(s, [status |-> "active", next |-> start, count |-> 0])
    BY <1>3 DEF CreatePayoutSchedule
  <2>2. [status |-> "active", next |-> start, count |-> 0] \in Rows
    BY <1>1 DEF Rows
  <2>. QED BY <1>1, <1>2, <1>3, <2>1, <2>2 DEF CreatePayoutSchedule, ScheduleTypeOK
<1>4. ASSUME NEW s \in Schedules, PausePayoutSchedule(s) \/ CancelPayoutSchedule(s)
      PROVE  ScheduleTypeOK'
  <2>1. /\ [schedules[s] EXCEPT !.status = "paused"] \in Rows
        /\ [schedules[s] EXCEPT !.status = "cancelled"] \in Rows
    BY <1>1 DEF Rows
  <2>. QED BY <1>1, <1>2, <1>4, <2>1
           DEF PausePayoutSchedule, CancelPayoutSchedule, ScheduleTypeOK
<1>5. ASSUME NEW s \in Schedules, ResumeReads(s) PROVE ScheduleTypeOK'
  <2>1. schedules[s].next \in 0 .. NoDate /\ today + 1 \in 0 .. NoDate
    BY <1>1 DEF Rows, NoDate
  <2>2. resuming' \in [Schedules -> 0 .. NoDate]
    BY <1>1, <1>5, <2>1 DEF ResumeReads
  <2>. QED BY <1>1, <1>5, <2>2 DEF ResumeReads, ScheduleTypeOK, Dates, history
<1>6. ASSUME NEW s \in Schedules, ResumeWrites(s) PROVE ScheduleTypeOK'
  <2>1. resuming[s] \in 0 .. LastDate + 1
    BY <1>1, <1>6 DEF ResumeWrites, NoDate
  <2>2. [schedules[s] EXCEPT !.status = "active", !.next = resuming[s]] \in Rows
    BY <1>1, <2>1 DEF Rows
  <2>3. resuming' \in [Schedules -> 0 .. NoDate]
    BY <1>1, <1>6 DEF ResumeWrites, NoDate
  <2>. QED BY <1>1, <1>2, <1>6, <2>2, <2>3 DEF ResumeWrites, ScheduleTypeOK
<1>7. CASE DayPasses
  BY <1>1, <1>7 DEF DayPasses, ScheduleTypeOK, Dates, history
<1>8. ASSUME NEW w \in Workers, RaiseRequest(w) PROVE ScheduleTypeOK'
  <2>1. PICK i \in workers[w].at : schedules' = [schedules EXCEPT ![i.s] = Advanced(i)]
    BY <1>8 DEF RaiseRequest
  <2>2. i \in DueItems
    BY <2>1 DEF Typed, WorkerStates
  <2>3. schedules' \in [Schedules -> Rows]
    BY <1>1, <2>1, <2>2, ItemFacts
  <2>. QED BY <1>1, <1>8, <2>3 DEF RaiseRequest, ScheduleTypeOK, Dates, history
<1>9. ASSUME UNCHANGED <<today, schedules, resuming, overtaken>> PROVE ScheduleTypeOK'
  BY <1>1, <1>9 DEF ScheduleTypeOK, Dates
<1>10. CASE LoseLock \/ Dispute \/ Resolve \/ (\E x \in Occurrences : Deny(x))
            \/ UNCHANGED scheduleVars
  BY <1>9, <1>10 DEF LoseLock, Dispute, Resolve, Move, Deny, scheduleVars, history
<1>11. ASSUME NEW w \in Workers,
              \/ TryLock(w) \/ SelectDue(w) \/ CheckFunds(w) \/ RaiseCollides(w)
              \/ QueryFails(w) \/ Unlock(w) \/ Crash(w)
       PROVE  ScheduleTypeOK'
  BY <1>9, <1>11 DEF TryLock, SelectDue, CheckFunds, RaiseCollides, QueryFails,
                     Unlock, Crash, history
<1>. QED
  BY <1>3, <1>4, <1>5, <1>6, <1>7, <1>8, <1>10, <1>11
     DEF SchedulesNext, CreatorStep, WorkerStep

LEMMA LedgerStep ==
  ASSUME Typed, [SchedulesNext]_scheduleVars
  PROVE  LedgerTypeOK'
<1>. USE DEF Typed
<1>1. ASSUME NEW w \in Workers, RaiseRequest(w) PROVE LedgerTypeOK'
  <2>1. PICK i \in workers[w].at : Raise(i)
    BY <1>1 DEF RaiseRequest
  <2>2. <<i.s, i.row.next>> \in Occurrences
    <3>1. i \in DueItems
      BY <2>1 DEF WorkerStates
    <3>. QED BY <3>1, ItemFacts
  <2>3. returned' = returned
    BY <1>1 DEF RaiseRequest, history
  <2>. QED BY <2>1, <2>2, <2>3 DEF Raise, LedgerTypeOK, ledger
<1>2. ASSUME NEW x \in Occurrences, Deny(x) PROVE LedgerTypeOK'
  BY <1>2 DEF Deny, LedgerTypeOK, history
<1>3. CASE Dispute
  BY <1>3 DEF Dispute, Move, LedgerTypeOK
<1>4. CASE Resolve
  BY <1>4 DEF Resolve, Move, LedgerTypeOK
<1>5. ASSUME UNCHANGED <<ledger, returned>> PROVE LedgerTypeOK'
  BY <1>5 DEF LedgerTypeOK, ledger
<1>6. ASSUME NEW s \in Schedules, CreatorStep(s) PROVE LedgerTypeOK'
  BY <1>5, <1>6 DEF CreatorStep, CreatePayoutSchedule, PausePayoutSchedule,
               CancelPayoutSchedule, ResumeReads, ResumeWrites, SetSchedule, history
<1>7. ASSUME NEW w \in Workers,
              \/ TryLock(w) \/ SelectDue(w) \/ CheckFunds(w) \/ RaiseCollides(w)
              \/ QueryFails(w) \/ Unlock(w) \/ Crash(w)
       PROVE  LedgerTypeOK'
  BY <1>5, <1>7 DEF TryLock, SelectDue, CheckFunds, RaiseCollides, QueryFails,
                     Unlock, Crash, history
<1>8. CASE DayPasses \/ LoseLock \/ UNCHANGED scheduleVars
  BY <1>5, <1>8 DEF DayPasses, LoseLock, scheduleVars, history
<1>. QED
  BY <1>1, <1>2, <1>3, <1>4, <1>6, <1>7, <1>8 DEF SchedulesNext, WorkerStep

LEMMA LockStep ==
  ASSUME Typed, [SchedulesNext]_scheduleVars
  PROVE  LockTypeOK'
<1>. USE DEF LockTypeOK
<1>0. LockTypeOK
  BY DEF Typed
<1>1. ASSUME NEW w \in Workers, TryLock(w) PROVE LockTypeOK'
  BY <1>0, <1>1 DEF TryLock, history
<1>2. ASSUME NEW w \in Workers, Unlock(w) \/ Crash(w) PROVE LockTypeOK'
  BY <1>0, <1>2 DEF Unlock, Crash, history
<1>3. CASE LoseLock
  BY <1>3 DEF LoseLock
<1>4. ASSUME UNCHANGED <<lock, lockLost>> PROVE LockTypeOK'
  BY <1>0, <1>4
<1>5. ASSUME NEW s \in Schedules, CreatorStep(s) PROVE LockTypeOK'
  BY <1>4, <1>5 DEF CreatorStep, CreatePayoutSchedule, PausePayoutSchedule,
               CancelPayoutSchedule, ResumeReads, ResumeWrites, SetSchedule, history
<1>6. ASSUME NEW w \in Workers,
              \/ SelectDue(w) \/ CheckFunds(w) \/ RaiseCollides(w)
              \/ QueryFails(w) \/ RaiseRequest(w)
       PROVE  LockTypeOK'
  BY <1>4, <1>6 DEF SelectDue, CheckFunds, RaiseCollides, QueryFails,
                    RaiseRequest, history
<1>7. CASE \/ DayPasses \/ Dispute \/ Resolve
           \/ \E x \in Occurrences : Deny(x)
           \/ UNCHANGED scheduleVars
  BY <1>4, <1>7 DEF DayPasses, Dispute, Resolve, Move, Deny, scheduleVars, history
<1>. QED
  BY <1>1, <1>2, <1>3, <1>5, <1>6, <1>7 DEF SchedulesNext, WorkerStep

LEMMA TypesHold == SchedulesSpec => []Typed
<1>1. SchedulesInit => Typed
  <2>. SUFFICES ASSUME SchedulesInit PROVE Typed
    OBVIOUS
  <2>1. 0 \in Dates /\ NoDate \in 0 .. NoDate /\ Absent \in Rows
    BY BoundsAssumption DEF Dates, NoDate, Absent, Rows
  <2>2. ScheduleTypeOK
    BY <2>1 DEF SchedulesInit, ScheduleTypeOK
  <2>3. LedgerTypeOK
    BY DEF SchedulesInit, LedgerTypeOK
  <2>4. LockTypeOK
    BY DEF SchedulesInit, LockTypeOK
  <2>5. workers \in [Workers -> WorkerStates]
    BY DEF SchedulesInit, Idle, WorkerStates
  <2>. QED BY <2>2, <2>3, <2>4, <2>5 DEF Typed
<1>2. Typed /\ [SchedulesNext]_scheduleVars => Typed'
  <2>. SUFFICES ASSUME Typed, [SchedulesNext]_scheduleVars PROVE Typed'
    OBVIOUS
  <2>. QED
    BY WorkersStep, ScheduleStep, LedgerStep, LockStep
       DEF Typed, WorkerStates, DueItems, Items, Rows, Dates
<1>. QED BY <1>1, <1>2, PTL DEF SchedulesSpec

(* Types, over any schedules, dates and limits. *)
THEOREM TypeCorrect == SchedulesSpec => []PayoutTypeOK
BY TypesHold, TypedIsType, PTL

---------------------------------------------------------------------------
(* A worker holds the rows of different schedules, and only during a pass. *)
Held(w) == workers[w].due \cup workers[w].at

Apart(r) ==
  /\ r.step \in {"idle", "locked"} => r.due = {}
  /\ r.step # "raise" => r.at = {}
  /\ \A i, j \in r.due \cup r.at : i.s = j.s => i = j
  /\ r.due \cap r.at = {}

HeldApart == \A w \in Workers : Apart(workers[w])

(* Nobody works without the lock until it has been lost. *)
LockRespected ==
  ~lockLost => \A w \in Workers : workers[w].step # "idle" => lock = {w}

(* The steps that leave every worker where it is. *)
LEMMA WorkersStay ==
  ASSUME \/ DayPasses \/ LoseLock \/ Dispute \/ Resolve \/ UNCHANGED scheduleVars
         \/ \E x \in Occurrences : Deny(x)
         \/ \E s \in Schedules : CreatorStep(s)
  PROVE  workers' = workers
<1>1. ASSUME NEW s \in Schedules, CreatorStep(s) PROVE workers' = workers
  BY <1>1 DEF CreatorStep, CreatePayoutSchedule, PausePayoutSchedule,
              CancelPayoutSchedule, ResumeReads, ResumeWrites, SetSchedule
<1>2. CASE \/ DayPasses \/ LoseLock \/ Dispute \/ Resolve \/ UNCHANGED scheduleVars
           \/ \E x \in Occurrences : Deny(x)
  BY <1>2 DEF DayPasses, LoseLock, Dispute, Resolve, Move, Deny, scheduleVars
<1>. QED BY <1>1, <1>2

(* A worker only gets rows from SelectDue, and only moves itself. *)
LEMMA WorkerMoves ==
  ASSUME Typed, HeldApart, NEW w \in Workers, WorkerStep(w)
  PROVE  \E r \in WorkerStates :
           /\ workers' = [workers EXCEPT ![w] = r]
           /\ Apart(r)
           /\ ~SelectDue(w) => r.due \subseteq workers[w].due
                               /\ r.due \cup r.at \subseteq Held(w)
           /\ ~CheckFunds(w) => r.at \subseteq workers[w].at
           /\ RaiseRequest(w) => r.at = {}
<1>. DEFINE old == workers[w]
            Good(r) == /\ workers' = [workers EXCEPT ![w] = r]
                       /\ Apart(r)
                       /\ ~SelectDue(w) => r.due \subseteq workers[w].due
                                           /\ r.due \cup r.at \subseteq Held(w)
                       /\ ~CheckFunds(w) => r.at \subseteq workers[w].at
                       /\ RaiseRequest(w) => r.at = {}
<1>1. old \in WorkerStates /\ Apart(old)
  BY DEF Typed, HeldApart
<1>2. workers' \in [Workers -> WorkerStates]
  <2>1. SchedulesNext
    BY DEF SchedulesNext
  <2>. QED BY <2>1, WorkersStep
<1>3. ASSUME NEW r, Good(r) PROVE \E q \in WorkerStates : Good(q)
  <2>1. workers'[w] = r
    BY <1>3 DEF Typed
  <2>. QED BY <1>2, <1>3, <2>1
<1>4. CASE TryLock(w)
  <2>1. Good([old EXCEPT !.step = "locked"])
    BY <1>1, <1>4 DEF TryLock, Step, Apart, WorkerStates, Held, RaiseRequest
  <2>. QED BY <1>3, <2>1
<1>5. CASE SelectDue(w)
  <2>. DEFINE due == {s \in Schedules : /\ schedules[s].status = "active"
                                        /\ schedules[s].next <= today}
              r == [step |-> "pass", at |-> {},
                    due |-> {[s |-> s, row |-> schedules[s]] : s \in due}]
  <2>1. Apart(r)
    BY DEF Apart
  <2>2. workers' = [workers EXCEPT ![w] = r]
    BY <1>5 DEF SelectDue
  <2>. QED BY <1>3, <1>5, <2>1, <2>2
<1>6. CASE CheckFunds(w)
  <2>1. PICK i \in old.due :
          workers' = [workers EXCEPT ![w] =
            [step |-> IF Covered(i) THEN "raise" ELSE "pass",
             due |-> workers[w].due \ {i},
             at |-> IF Covered(i) THEN {i} ELSE {}]]
    BY <1>6 DEF CheckFunds, Earliest
  <2>2. old.step = "pass" /\ ~RaiseRequest(w)
    BY <1>6 DEF CheckFunds, RaiseRequest
  <2>. DEFINE r == [step |-> IF Covered(i) THEN "raise" ELSE "pass",
                    due |-> workers[w].due \ {i},
                    at |-> IF Covered(i) THEN {i} ELSE {}]
  <2>3. Apart(r)
    BY <1>1, <2>1 DEF Apart
  <2>4. r.due \subseteq old.due /\ r.due \cup r.at \subseteq Held(w)
    BY <2>1 DEF Held
  <2>. QED BY <1>3, <1>6, <2>1, <2>2, <2>3, <2>4
<1>7. ASSUME Leave(w), old.step = "raise" PROVE \E q \in WorkerStates : Good(q)
  <2>1. Good([old EXCEPT !.step = "pass", !.at = {}])
    BY <1>1, <1>7 DEF Leave, Apart, WorkerStates, Held
  <2>. QED BY <1>3, <2>1
<1>8. CASE RaiseRequest(w) \/ RaiseCollides(w)
  BY <1>7, <1>8 DEF RaiseRequest, RaiseCollides
<1>9. ASSUME workers' = [workers EXCEPT ![w] = Idle]
      PROVE  \E q \in WorkerStates : Good(q)
  <2>1. Good(Idle)
    BY <1>9 DEF Idle, Apart
  <2>. QED BY <1>3, <2>1
<1>10. CASE Unlock(w) \/ Crash(w)
  BY <1>9, <1>10 DEF Unlock, Crash
<1>11. CASE QueryFails(w)
  <2>1. CASE old.step = "locked" /\ Step(w, "pass")
    <3>1. Good([old EXCEPT !.step = "pass"])
      BY <1>1, <2>1 DEF Step, Apart, WorkerStates, Held, RaiseRequest
    <3>. QED BY <1>3, <3>1
  <2>2. ASSUME old.step = "pass", NEW i \in Earliest(w),
               workers' = [workers EXCEPT ![w].due = @ \ {i}]
        PROVE  \E q \in WorkerStates : Good(q)
    <3>1. Good([old EXCEPT !.due = @ \ {i}])
      BY <1>1, <2>2 DEF Apart, WorkerStates, Held, RaiseRequest
    <3>. QED BY <1>3, <3>1
  <2>. QED BY <1>7, <1>11, <2>1, <2>2 DEF QueryFails
<1>. QED
  BY <1>4, <1>5, <1>6, <1>8, <1>10, <1>11 DEF WorkerStep

LEMMA HeldStep ==
  ASSUME Typed, HeldApart, [SchedulesNext]_scheduleVars
  PROVE  HeldApart'
<1>1. ASSUME NEW w \in Workers, WorkerStep(w) PROVE HeldApart'
  <2>1. PICK r \in WorkerStates : workers' = [workers EXCEPT ![w] = r] /\ Apart(r)
    BY <1>1, WorkerMoves
  <2>2. ASSUME NEW v \in Workers PROVE Apart(workers'[v])
    BY <2>1 DEF HeldApart, Typed
  <2>. QED BY <2>2 DEF HeldApart, Apart
<1>2. ASSUME workers' = workers PROVE HeldApart'
  BY <1>2 DEF HeldApart, Apart
<1>. QED BY <1>1, <1>2, WorkersStay DEF SchedulesNext

LEMMA LockRespectedStep ==
  ASSUME Typed, LockRespected, [SchedulesNext]_scheduleVars
  PROVE  LockRespected'
<1>. SUFFICES ASSUME ~lockLost', NEW v \in Workers, workers'[v].step # "idle"
              PROVE  lock' = {v}
  BY DEF LockRespected
<1>0. workers \in [Workers -> WorkerStates]
  BY DEF Typed
<1>1. ASSUME NEW w \in Workers, TryLock(w) PROVE lock' = {v}
  BY <1>0, <1>1 DEF TryLock, Step, LockRespected, history, WorkerStates
<1>2. ASSUME NEW w \in Workers, Unlock(w) \/ Crash(w) PROVE lock' = {v}
  <2>1. /\ workers' = [workers EXCEPT ![w] = Idle] /\ lock' = lock \ {w}
        /\ ~lockLost
    BY <1>2 DEF Unlock, Crash, history
  <2>2. v # w /\ workers[v].step # "idle"
    BY <1>0, <2>1 DEF Idle
  <2>3. lock = {v}
    BY <2>1, <2>2 DEF LockRespected
  <2>. QED BY <2>1, <2>2, <2>3
<1>3. ASSUME UNCHANGED <<lock, lockLost>>,
             workers'[v].step # "idle" => workers[v].step # "idle"
      PROVE  lock' = {v}
  BY <1>3 DEF LockRespected
<1>4. ASSUME NEW w \in Workers,
             \/ SelectDue(w) \/ CheckFunds(w) \/ RaiseRequest(w)
             \/ RaiseCollides(w) \/ QueryFails(w)
      PROVE  lock' = {v}
  <2>1. UNCHANGED <<lock, lockLost>> /\ workers[w].step # "idle"
    BY <1>4 DEF SelectDue, CheckFunds, RaiseRequest, RaiseCollides, QueryFails,
                history
  <2>2. v # w => workers'[v] = workers[v]
    BY <1>0, <1>4 DEF SelectDue, CheckFunds, RaiseRequest, RaiseCollides,
                      QueryFails, Leave, Step
  <2>. QED BY <1>3, <2>1, <2>2
<1>5. CASE LoseLock
  BY <1>5 DEF LoseLock
<1>6. CASE \/ DayPasses \/ Dispute \/ Resolve \/ UNCHANGED scheduleVars
           \/ \E x \in Occurrences : Deny(x)
  BY <1>3, <1>6 DEF DayPasses, Dispute, Resolve, Move, Deny, scheduleVars, history
<1>7. ASSUME NEW s \in Schedules, CreatorStep(s) PROVE lock' = {v}
  BY <1>3, <1>7 DEF CreatorStep, CreatePayoutSchedule, PausePayoutSchedule,
              CancelPayoutSchedule, ResumeReads, ResumeWrites, SetSchedule, history
<1>. QED
  BY <1>1, <1>2, <1>4, <1>5, <1>6, <1>7 DEF SchedulesNext, WorkerStep


LEMMA ApartHolds == SchedulesSpec => [](HeldApart /\ LockRespected)
<1>1. SchedulesInit => HeldApart /\ LockRespected
  BY DEF SchedulesInit, Idle, HeldApart, Apart, LockRespected
<1>2. Typed /\ (HeldApart /\ LockRespected) /\ [SchedulesNext]_scheduleVars
        => (HeldApart /\ LockRespected)'
  BY HeldStep, LockRespectedStep
<1>. QED BY <1>1, <1>2, TypesHold, PTL DEF SchedulesSpec

---------------------------------------------------------------------------
(* Payments. *)
PaidOnce ==
  \A x \in Occurrences : requests[x] = IF x \in runs THEN 1 ELSE 0

(* Only RaiseRequest writes requests and runs. *)
LEMMA OnlyRaisePays ==
  ASSUME [SchedulesNext]_scheduleVars, ~ \E w \in Workers : RaiseRequest(w)
  PROVE  UNCHANGED <<requests, runs>>
<1>1. ASSUME NEW w \in Workers, WorkerStep(w) PROVE UNCHANGED <<requests, runs>>
  BY <1>1 DEF WorkerStep, TryLock, SelectDue, CheckFunds, RaiseCollides,
              QueryFails, Unlock, Crash, ledger
<1>2. ASSUME NEW s \in Schedules, CreatorStep(s) PROVE UNCHANGED <<requests, runs>>
  BY <1>2 DEF CreatorStep, CreatePayoutSchedule, PausePayoutSchedule,
              CancelPayoutSchedule, ResumeReads, ResumeWrites, SetSchedule, ledger
<1>3. CASE \/ DayPasses \/ LoseLock \/ Dispute \/ Resolve \/ UNCHANGED scheduleVars
           \/ \E x \in Occurrences : Deny(x)
  BY <1>3 DEF DayPasses, LoseLock, Dispute, Resolve, Move, Deny, scheduleVars, ledger
<1>. QED BY <1>1, <1>2, <1>3 DEF SchedulesNext

(* What a request raises. *)
LEMMA RaiseFacts ==
  ASSUME Typed, NEW w \in Workers, RaiseRequest(w)
  PROVE  \E i \in DueItems :
           /\ i \in workers[w].at /\ workers[w].step = "raise"
           /\ Raise(i)
           /\ schedules' = [schedules EXCEPT ![i.s] = Advanced(i)]
           /\ UNCHANGED history
<1>1. PICK i \in workers[w].at :
        Raise(i) /\ schedules' = [schedules EXCEPT ![i.s] = Advanced(i)]
  BY DEF RaiseRequest
<1>2. i \in DueItems
  BY <1>1 DEF Typed, WorkerStates
<1>. QED BY <1>1, <1>2 DEF RaiseRequest

LEMMA PaidOnceStep ==
  ASSUME Typed, PaidOnce, [SchedulesNext]_scheduleVars
  PROVE  PaidOnce'
<1>1. ASSUME NEW w \in Workers, RaiseRequest(w) PROVE PaidOnce'
  <2>1. PICK i \in DueItems : Raise(i)
    BY <1>1, RaiseFacts
  <2>2. <<i.s, i.row.next>> \in Occurrences
    BY ItemFacts
  <2>. QED
    BY <2>1, <2>2 DEF Raise, PaidOnce, Typed, LedgerTypeOK, ledger, Occurrences
<1>2. CASE ~ \E w \in Workers : RaiseRequest(w)
  BY <1>2, OnlyRaisePays DEF PaidOnce, Occurrences
<1>. QED BY <1>1, <1>2

(* What a schedule, and the rows that were read of it, say of its runs. *)
Counted(s) ==
  /\ schedules[s].count = Cardinality(RunsOf(s))
  /\ schedules[s].count <= LimitOf[s]
  /\ schedules[s].status \in {"active", "paused"} => schedules[s].count < LimitOf[s]
  /\ schedules[s].status = "absent" => schedules[s].count = 0
  /\ \A x \in RunsOf(s) : x[2] < schedules[s].next

HeldCounted(s) ==
  \A w \in Workers : \A i \in Held(w) :
    i.s = s => /\ i.row.count = schedules[s].count /\ i.row.count < LimitOf[s]
               /\ \A x \in RunsOf(s) : x[2] < i.row.next

AllCounted ==
  ~lockLost => \A s \in Schedules \ overtaken : Counted(s) /\ HeldCounted(s)

LEMMA OccurrencesFinite == IsFiniteSet(Occurrences)
<1>1. IsFiniteSet(0 .. LastDate)
  BY BoundsAssumption, FS_Interval
<1>2. IsFiniteSet(Schedules \X (0 .. LastDate))
  BY <1>1, PartiesAssumption, FS_Product
<1>. QED BY <1>2 DEF Occurrences, Dates

LEMMA RunsFinite ==
  ASSUME Typed, NEW s
  PROVE  /\ IsFiniteSet(RunsOf(s)) /\ Cardinality(RunsOf(s)) \in Nat
         /\ \A x \in RunsOf(s) : x[2] \in Nat
         /\ Cardinality(RunsOf(s)) = 0 => RunsOf(s) = {}
<1>1. IsFiniteSet(Occurrences)
  BY OccurrencesFinite
<1>2. RunsOf(s) \subseteq Occurrences
  BY DEF Typed, LedgerTypeOK, RunsOf
<1>3. IsFiniteSet(RunsOf(s))
  BY <1>1, <1>2, FS_Subset
<1>4. \A x \in RunsOf(s) : x[2] \in Nat
  BY <1>2 DEF Occurrences, Dates
<1>. QED BY <1>3, <1>4, FS_CardinalityType, FS_EmptySet

(* A lock once lost stays lost, and a schedule once overtaken stays so. *)
LEMMA HistoryGrows ==
  ASSUME [SchedulesNext]_scheduleVars
  PROVE  /\ lockLost => lockLost'
         /\ overtaken \subseteq overtaken'
<1>1. ASSUME NEW w \in Workers, WorkerStep(w) 
      PROVE  lockLost' = lockLost /\ overtaken \subseteq overtaken'
  BY <1>1 DEF WorkerStep, TryLock, SelectDue, CheckFunds, RaiseCollides,
              RaiseRequest, QueryFails, Unlock, Crash, history
<1>2. ASSUME NEW s \in Schedules, CreatorStep(s)
      PROVE  lockLost' = lockLost /\ overtaken \subseteq overtaken'
  BY <1>2 DEF CreatorStep, CreatePayoutSchedule, PausePayoutSchedule,
              CancelPayoutSchedule, ResumeReads, ResumeWrites, SetSchedule, history
<1>3. ASSUME LoseLock PROVE lockLost' /\ overtaken \subseteq overtaken'
  <2>1. lockLost'
    BY <1>3, Zenon DEF LoseLock
  <2>2. overtaken' = overtaken
    BY <1>3 DEF LoseLock
  <2>3. overtaken \subseteq overtaken'
    BY <2>2
  <2>. QED BY <2>1, <2>3, Zenon
<1>4. ASSUME \/ DayPasses \/ Dispute \/ Resolve \/ UNCHANGED scheduleVars
             \/ \E x \in Occurrences : Deny(x)
      PROVE  lockLost' = lockLost /\ overtaken \subseteq overtaken'
  BY <1>4 DEF DayPasses, Dispute, Resolve, Move, Deny, scheduleVars, history
<1>5. ASSUME lockLost' = lockLost PROVE lockLost => lockLost'
  BY <1>5, Zenon
<1>6. (lockLost' = lockLost \/ lockLost') /\ overtaken \subseteq overtaken'
  BY <1>1, <1>2, <1>3, <1>4 DEF SchedulesNext
<1>. QED BY <1>5, <1>6, Zenon

LEMMA CountedStep ==
  ASSUME Typed, HeldApart, LockRespected, AllCounted, [SchedulesNext]_scheduleVars
  PROVE  AllCounted'
<1>. SUFFICES ASSUME ~lockLost', NEW s \in Schedules, s \notin overtaken'
              PROVE  Counted(s)' /\ HeldCounted(s)'
  BY DEF AllCounted
<1>1. ~lockLost /\ s \notin overtaken
  BY HistoryGrows
<1>2. Counted(s) /\ HeldCounted(s)
  BY <1>1 DEF AllCounted
<1>3. /\ schedules \in [Schedules -> Rows] /\ LimitOf[s] \in Nat \ {0}
      /\ schedules[s] \in Rows
      /\ workers \in [Workers -> WorkerStates]
  BY TermsAssumption DEF Typed, ScheduleTypeOK
<1>4. ASSUME \A v \in Workers : Held(v)' \subseteq Held(v),
             UNCHANGED runs, schedules'[s].count = schedules[s].count
      PROVE  HeldCounted(s)'
  BY <1>2, <1>4 DEF HeldCounted, RunsOf
<1>5. ASSUME UNCHANGED runs, schedules'[s] = schedules[s]
      PROVE  Counted(s)'
  BY <1>2, <1>5 DEF Counted, RunsOf
<1>6. ASSUME NEW w \in Workers, WorkerStep(w), ~SelectDue(w), NEW v \in Workers
      PROVE  Held(v)' \subseteq Held(v)
  BY <1>3, <1>6, WorkerMoves DEF Held
<1>7. ASSUME NEW w \in Workers, RaiseRequest(w) PROVE Counted(s)' /\ HeldCounted(s)'
  <2>1. PICK i \in DueItems :
          /\ i \in workers[w].at /\ workers[w].step = "raise" /\ Raise(i)
          /\ schedules' = [schedules EXCEPT ![i.s] = Advanced(i)]
    BY <1>7, RaiseFacts
  <2>2. \A v \in Workers : Held(v)' \subseteq Held(v)
    BY <1>6, <1>7 DEF WorkerStep, RaiseRequest, SelectDue
  <2>3. i \in Held(w) /\ i.s \in Schedules /\ i.row.next \in Nat /\ i.row.count \in Nat
    <3>1. i.row.next \in 0 .. LastDate /\ LastDate \in Nat
      BY ItemFacts, BoundsAssumption
    <3>2. i.row.next \in Nat
      BY <3>1
    <3>. QED BY <2>1, <3>2, ItemFacts DEF Held
  <2>4. CASE i.s # s
    <3>1. RunsOf(s)' = RunsOf(s) /\ schedules'[s] = schedules[s]
      BY <1>3, <2>1, <2>4 DEF Raise, RunsOf, ledger
    <3>. QED BY <1>2, <2>2, <3>1 DEF Counted, HeldCounted
  <2>5. CASE i.s = s
    <3>. DEFINE x == <<s, i.row.next>>
    <3>1. /\ i.row.count = schedules[s].count /\ i.row.count < LimitOf[s]
          /\ \A y \in RunsOf(s) : y[2] < i.row.next
      BY <1>2, <2>3, <2>5 DEF HeldCounted
    <3>2. x \notin RunsOf(s) /\ x \notin runs
      BY <2>3, <3>1 DEF RunsOf
    <3>3. RunsOf(s)' = RunsOf(s) \cup {x}
      BY <2>1, <2>5, <3>2 DEF Raise, RunsOf
    <3>4. Cardinality(RunsOf(s)') = Cardinality(RunsOf(s)) + 1
      <4>1. IsFiniteSet(RunsOf(s))
        BY RunsFinite
      <4>. QED BY <3>2, <3>3, <4>1, FS_AddElement
    <3>5. schedules'[s] = Advanced(i)
      BY <1>3, <2>1, <2>5
    <3>6. /\ Advanced(i).count = i.row.count + 1 /\ Advanced(i).next = i.row.next + 1
          /\ Advanced(i).status \in {"active", "completed"}
          /\ Advanced(i).status = "active" => i.row.count + 1 < LimitOf[s]
      BY <1>3, <2>3, <2>5 DEF Advanced
    <3>7. i.row.count + 1 <= LimitOf[s]
      BY <1>3, <2>3, <3>1
    <3>8. \A y \in RunsOf(s)' : y[2] < i.row.next + 1
      <4>1. \A y \in RunsOf(s) : y[2] < i.row.next + 1
        BY <2>3, <3>1, RunsFinite
      <4>2. x[2] < i.row.next + 1
        BY <2>3
      <4>. QED BY <3>3, <4>1, <4>2
    <3>9. Counted(s)'
      <4>1. i.row.count + 1 = Cardinality(RunsOf(s)')
        BY <1>2, <3>1, <3>4 DEF Counted
      <4>. QED BY <3>5, <3>6, <3>7, <3>8, <4>1 DEF Counted
    <3>10. ASSUME NEW v \in Workers, NEW j \in Held(v)' PROVE j.s # s
      <4>1. j \in Held(v)
        BY <2>2, <3>10
      <4>2. CASE v = w
        <5>1. workers'[w].at = {} /\ workers'[w].due \subseteq workers[w].due
          BY <1>3, <1>7, WorkerMoves DEF WorkerStep, RaiseRequest, SelectDue
        <5>2. j \in workers[w].due
          BY <3>10, <4>2, <5>1 DEF Held
        <5>3. Apart(workers[w])
          BY DEF HeldApart
        <5>4. j # i
          BY <2>1, <5>2, <5>3 DEF Apart
        <5>. QED BY <2>3, <2>5, <4>1, <4>2, <5>3, <5>4 DEF Apart, Held
      <4>3. CASE v # w
        <5>1. workers[v].step = "idle"
          BY <1>1, <2>1, <4>3 DEF LockRespected
        <5>2. Held(v) = {}
          BY <5>1 DEF HeldApart, Apart, Held
        <5>. QED BY <4>1, <5>2
      <4>. QED BY <4>2, <4>3
    <3>. QED BY <3>9, <3>10 DEF HeldCounted
  <2>. QED BY <2>4, <2>5
<1>8. ASSUME NEW w \in Workers, SelectDue(w) PROVE Counted(s)' /\ HeldCounted(s)'
  <2>. DEFINE due == {t \in Schedules : /\ schedules[t].status = "active"
                                        /\ schedules[t].next <= today}
              items == {[s |-> t, row |-> schedules[t]] : t \in due}
  <2>1. /\ workers' = [workers EXCEPT ![w] = [step |-> "pass", at |-> {}, due |-> items]]
        /\ UNCHANGED <<schedules, runs>>
    BY <1>8 DEF SelectDue, ledger
  <2>2. ASSUME NEW v \in Workers, NEW j \in Held(v)', j.s = s
        PROVE  /\ j.row.count = schedules[s].count /\ j.row.count < LimitOf[s]
               /\ \A x \in RunsOf(s) : x[2] < j.row.next
    <3>1. CASE v # w
      <4>1. j \in Held(v)
        BY <1>3, <2>1, <2>2, <3>1 DEF Held
      <4>. QED BY <1>2, <2>2, <4>1 DEF HeldCounted
    <3>2. CASE v = w
      <4>1. j \in items
        BY <1>3, <2>1, <2>2, <3>2 DEF Held
      <4>2. PICK t \in due : j = [s |-> t, row |-> schedules[t]]
        BY <4>1
      <4>3. j.row = schedules[s] /\ schedules[s].status = "active"
        BY <2>2, <4>2
      <4>. QED BY <1>2, <4>3 DEF Counted
    <3>. QED BY <3>1, <3>2
  <2>3. RunsOf(s)' = RunsOf(s)
    BY <2>1 DEF RunsOf
  <2>. QED BY <1>5, <2>1, <2>2, <2>3 DEF HeldCounted
<1>9. ASSUME NEW w \in Workers,
             \/ TryLock(w) \/ CheckFunds(w) \/ RaiseCollides(w)
             \/ QueryFails(w) \/ Unlock(w) \/ Crash(w)
      PROVE  Counted(s)' /\ HeldCounted(s)'
  <2>1. UNCHANGED <<schedules, runs>>
    BY <1>9 DEF TryLock, CheckFunds, RaiseCollides, QueryFails, Unlock, Crash, ledger
  <2>2. WorkerStep(w)
    BY <1>9 DEF WorkerStep
  <2>3. CASE SelectDue(w)
    BY <1>8, <2>3
  <2>. QED BY <1>4, <1>5, <1>6, <2>1, <2>2, <2>3
<1>10. ASSUME workers' = workers PROVE \A v \in Workers : Held(v)' \subseteq Held(v)
  BY <1>10 DEF Held
<1>11. CASE \/ DayPasses \/ LoseLock \/ Dispute \/ Resolve \/ UNCHANGED scheduleVars
            \/ \E x \in Occurrences : Deny(x)
  <2>1. UNCHANGED <<schedules, runs>>
    BY <1>11 DEF DayPasses, LoseLock, Dispute, Resolve, Move, Deny, scheduleVars, ledger
  <2>. QED BY <1>4, <1>5, <1>10, <1>11, <2>1, WorkersStay
<1>12. ASSUME NEW t \in Schedules, CreatorStep(t)
       PROVE  Counted(s)' /\ HeldCounted(s)'
  <2>1. workers' = workers /\ runs' = runs
    BY <1>12, WorkersStay
       DEF CreatorStep, CreatePayoutSchedule, PausePayoutSchedule, ledger,
           CancelPayoutSchedule, ResumeReads, ResumeWrites, SetSchedule
  <2>2. CASE schedules'[s] = schedules[s]
    BY <1>4, <1>5, <1>10, <2>1, <2>2
  <2>3. CASE t # s
    BY <1>3, <1>12, <2>2, <2>3
       DEF CreatorStep, CreatePayoutSchedule, PausePayoutSchedule,
           CancelPayoutSchedule, ResumeReads, ResumeWrites, SetSchedule
  <2>4. CASE CreatePayoutSchedule(s)
    <3>1. /\ schedules[s].count = 0
          /\ schedules'[s].count = 0 /\ schedules'[s].status = "active"
      BY <1>2, <1>3, <2>4 DEF CreatePayoutSchedule, SetSchedule, Counted
    <3>2. RunsOf(s) = {}
      BY <1>2, <3>1, RunsFinite DEF Counted
    <3>3. Counted(s)'
      BY <1>2, <1>3, <2>1, <3>1, <3>2 DEF Counted, RunsOf
    <3>. QED BY <1>4, <1>10, <2>1, <3>1, <3>3
  <2>5. CASE PausePayoutSchedule(s) \/ CancelPayoutSchedule(s)
    <3>1. /\ schedules'[s].count = schedules[s].count
          /\ schedules'[s].next = schedules[s].next
          /\ \/ schedules'[s].status = "cancelled"
             \/ schedules'[s].status = "paused" /\ schedules[s].status = "active"
      BY <1>3, <2>5 DEF PausePayoutSchedule, CancelPayoutSchedule, SetSchedule, Rows
    <3>2. Counted(s)'
      BY <1>2, <2>1, <3>1 DEF Counted, RunsOf
    <3>. QED BY <1>4, <1>10, <2>1, <3>1, <3>2
  <2>6. CASE ResumeReads(s)
    BY <2>2, <2>6 DEF ResumeReads
  <2>7. CASE ResumeWrites(s)
    <3>1. /\ schedules'[s].count = schedules[s].count
          /\ schedules'[s].next = resuming[s] /\ schedules'[s].status = "active"
      BY <1>3, <2>7 DEF ResumeWrites, SetSchedule, Rows
    <3>2. schedules[s].status = "paused" /\ \A x \in RunsOf(s) : x[2] < resuming[s]
      BY <2>7 DEF ResumeWrites
    <3>3. Counted(s)'
      BY <1>2, <2>1, <3>1, <3>2 DEF Counted, RunsOf
    <3>. QED BY <1>4, <1>10, <2>1, <3>1, <3>3
  <2>. QED BY <1>12, <2>3, <2>4, <2>5, <2>6, <2>7 DEF CreatorStep
<1>. QED
  BY <1>7, <1>8, <1>9, <1>11, <1>12 DEF SchedulesNext, WorkerStep

(* A worker holds rows of dates that have come, so that no date is paid    *)
(* early.                                                                  *)
NoneEarly ==
  /\ \A w \in Workers : \A i \in Held(w) : i.row.next <= today
  /\ \A x \in Occurrences : requests[x] > 0 => x[2] <= today

LEMMA NoneEarlyStep ==
  ASSUME Typed, HeldApart, NoneEarly, [SchedulesNext]_scheduleVars
  PROVE  NoneEarly'
<1>1. today \in Int /\ today' \in Int /\ today <= today'
  <2>1. today \in Nat
    BY BoundsAssumption DEF Typed, ScheduleTypeOK, Dates
  <2>2. today' = today \/ today' = today + 1
    BY DEF SchedulesNext, DayPasses, LoseLock, Dispute, Resolve, Move, Deny, CreatorStep,
           CreatePayoutSchedule, PausePayoutSchedule, CancelPayoutSchedule, ResumeReads,
           ResumeWrites, SetSchedule, WorkerStep, TryLock, SelectDue, CheckFunds,
           RaiseRequest, RaiseCollides, QueryFails, Unlock, Crash, scheduleVars
  <2>. QED BY <2>1, <2>2
<1>2. ASSUME NEW w \in Workers, NEW i \in Held(w)' PROVE i.row.next <= today'
  <2>1. workers \in [Workers -> WorkerStates]
    BY DEF Typed
  <2>2. i \in Held(w) \/ i.row.next <= today
    <3>1. ASSUME NEW v \in Workers, WorkerStep(v)
          PROVE  i \in Held(w) \/ i.row.next <= today
      <4>1. CASE SelectDue(v)
        <5>1. CASE w = v
          <6>1. /\ workers'[v].at = {}
                /\ workers'[v].due =
                     {[s |-> s, row |-> schedules[s]] : s \in
                        {s \in Schedules : /\ schedules[s].status = "active"
                                           /\ schedules[s].next <= today}}
            BY <2>1, <4>1 DEF SelectDue
          <6>2. i \in workers'[v].due
            BY <1>2, <5>1, <6>1 DEF Held
          <6>3. PICK s \in Schedules : /\ i = [s |-> s, row |-> schedules[s]]
                                       /\ schedules[s].next <= today
            BY <6>1, <6>2
          <6>. QED BY <6>3
        <5>2. CASE w # v
          BY <1>2, <2>1, <4>1, <5>2 DEF SelectDue, Held
        <5>. QED BY <5>1, <5>2
      <4>2. CASE ~SelectDue(v)
        <5>1. PICK r \in WorkerStates : /\ workers' = [workers EXCEPT ![v] = r]
                                        /\ r.due \cup r.at \subseteq Held(v)
          BY <3>1, <4>2, WorkerMoves
        <5>. QED BY <1>2, <2>1, <5>1 DEF Held
      <4>. QED BY <4>1, <4>2
    <3>2. CASE UNCHANGED workers
      BY <1>2, <3>2 DEF Held
    <3>3. UNCHANGED workers \/ \E v \in Workers : WorkerStep(v)
      BY DEF SchedulesNext, DayPasses, LoseLock, Dispute, Resolve, Move, Deny, CreatorStep,
             CreatePayoutSchedule, PausePayoutSchedule, CancelPayoutSchedule, ResumeReads,
             ResumeWrites, SetSchedule, scheduleVars
    <3>. QED BY <3>1, <3>2, <3>3
  <2>3. i.row.next \in Int
    <3>1. workers' \in [Workers -> WorkerStates]
      BY WorkersStep
    <3>. QED BY <1>2, <3>1, BoundsAssumption DEF WorkerStates, DueItems, Dates, Held
  <2>. QED BY <1>1, <2>2, <2>3 DEF NoneEarly
<1>3. ASSUME NEW x \in Occurrences, requests'[x] > 0 PROVE x[2] <= today'
  <2>1. x[2] \in Int
    BY BoundsAssumption DEF Occurrences, Dates
  <2>2. requests[x] > 0 \/ x[2] <= today
    <3>1. ASSUME NEW v \in Workers, RaiseRequest(v)
          PROVE  requests[x] > 0 \/ x[2] <= today
      <4>1. PICK i \in DueItems : i \in workers[v].at /\ Raise(i)
        BY <3>1, RaiseFacts
      <4>2. i.row.next <= today
        BY <4>1 DEF NoneEarly, Held
      <4>. QED BY <1>3, <4>1, <4>2 DEF Raise, ledger, Typed, LedgerTypeOK
    <3>2. CASE ~ \E v \in Workers : RaiseRequest(v)
      BY <1>3, <3>2, OnlyRaisePays
    <3>. QED BY <3>1, <3>2
  <2>. QED BY <1>1, <2>1, <2>2 DEF NoneEarly
<1>. QED BY <1>2, <1>3 DEF NoneEarly, Occurrences, Dates

(* A date of a schedule raises at most one request, whoever holds its row, *)
(* and none before it has come; while no lock is lost, a schedule pays as  *)
(* often as it counts, within its limit.                                   *)
THEOREM PaymentsFollowSchedule == SchedulesSpec => []PaidAsScheduled
<1>. DEFINE Inv == PaidOnce /\ AllCounted /\ NoneEarly
<1>1. SchedulesInit => Inv
  <2>. SUFFICES ASSUME SchedulesInit PROVE PaidOnce /\ AllCounted /\ NoneEarly
    OBVIOUS
  <2>1. PaidOnce /\ NoneEarly
    BY DEF SchedulesInit, PaidOnce, NoneEarly, Held, Idle
  <2>2. ASSUME NEW s \in Schedules PROVE Counted(s) /\ HeldCounted(s)
    <3>1. schedules[s] = Absent /\ RunsOf(s) = {} /\ \A w \in Workers : Held(w) = {}
      BY DEF SchedulesInit, RunsOf, Held, Idle
    <3>. QED BY <3>1, TermsAssumption, FS_EmptySet DEF Counted, HeldCounted, Absent
  <2>. QED BY <2>1, <2>2 DEF AllCounted
<1>2. Typed /\ (HeldApart /\ LockRespected) /\ Inv /\ [SchedulesNext]_scheduleVars => Inv'
  BY PaidOnceStep, CountedStep, NoneEarlyStep
<1>3. Inv => PaidAsScheduled
  BY DEF PaidOnce, AllCounted, Counted, NoneEarly, PaidAsScheduled
<1>. HIDE DEF Inv
<1>. QED BY <1>1, <1>2, <1>3, TypesHold, ApartHolds, PTL DEF SchedulesSpec

---------------------------------------------------------------------------
(* Funds: what is pending and never came back from a dispute, and what a   *)
(* worker that has checked the funds is about to add.                      *)
Pending ==
  [x \in Occurrences |->
     IF standing[x] = "pending" /\ x \notin returned
     THEN requests[x] * AmountOf[x[1]] ELSE 0]

FundsKept ==
  ~lockLost =>
    /\ Total(Pending) <= Raised
    /\ \A w \in Workers : \A i \in workers[w].at :
         Total(Pending) + AmountOf[i.s] <= Raised

LEMMA AmountsType ==
  ASSUME Typed, NEW x \in Occurrences
  PROVE  requests[x] * AmountOf[x[1]] \in Nat
<1>1. requests[x] \in Nat /\ AmountOf[x[1]] \in Nat
  BY TermsAssumption DEF Typed, LedgerTypeOK, Occurrences
<1>. QED BY <1>1, MulNat

LEMMA PendingType ==
  ASSUME Typed
  PROVE  Pending \in [Occurrences -> Nat] /\ Total(Pending) \in Nat
<1>1. Pending \in [Occurrences -> Nat]
  BY AmountsType DEF Pending
<1>. QED BY <1>1, OccurrencesFinite, TotalType

(* What the funds check counts covers what is pending. *)
LEMMA PendingIsCommitted ==
  ASSUME Typed
  PROVE  Total(Pending) <= Committed /\ Committed \in Nat
<1>. DEFINE all == [x \in Occurrences |->
                      IF standing[x] = "pending"
                      THEN requests[x] * AmountOf[x[1]] ELSE 0]
<1>1. all \in [Occurrences -> Nat]
  BY AmountsType
<1>2. \A x \in Occurrences : Pending[x] <= all[x]
  BY AmountsType DEF Pending
<1>. HIDE DEF all
<1>3. Total(Pending) <= Total(all) /\ Total(all) \in Nat
  BY <1>1, <1>2, PendingType, OccurrencesFinite, TotalMono, TotalType
<1>. QED BY <1>3 DEF Committed, all

(* A step that raises nothing raises no total. *)
LEMMA PendingShrinks ==
  ASSUME Typed, [SchedulesNext]_scheduleVars, requests' = requests,
         \A x \in Occurrences :
           standing'[x] = "pending" /\ x \notin returned'
             => standing[x] = "pending" /\ x \notin returned
  PROVE  Total(Pending') <= Total(Pending) /\ Total(Pending') \in Nat
<1>1. Pending' = [x \in Occurrences |->
                    IF standing'[x] = "pending" /\ x \notin returned'
                    THEN requests[x] * AmountOf[x[1]] ELSE 0]
  BY DEF Pending, Occurrences, Dates
<1>2. Pending' \in [Occurrences -> Nat]
  BY <1>1, AmountsType
<1>3. \A x \in Occurrences : Pending'[x] <= Pending[x]
  BY <1>1, AmountsType DEF Pending
<1>. QED BY <1>2, <1>3, PendingType, OccurrencesFinite, TotalMono, TotalType

LEMMA RaisesTotal ==
  ASSUME Typed, PaidOnce, NEW i \in DueItems, Raise(i), returned' = returned
  PROVE  Total(Pending') \in Nat /\ Total(Pending') <= Total(Pending) + AmountOf[i.s]
<1>. DEFINE x == <<i.s, i.row.next>>
<1>0. x \in Occurrences /\ AmountOf[i.s] \in Nat /\ i.s \in Schedules
  BY ItemFacts, TermsAssumption
<1>1. CASE x \in runs
  <2>1. Pending' = Pending
    BY <1>1 DEF Raise, ledger, Pending, Occurrences, Dates
  <2>. QED BY <1>0, <2>1, PendingType
<1>2. CASE x \notin runs
  <2>1. /\ requests' = [requests EXCEPT ![x] = @ + 1]
        /\ standing' = [standing EXCEPT ![x] = "pending"]
        /\ requests[x] = 0
    BY <1>0, <1>2 DEF Raise, PaidOnce
  <2>. DEFINE v == IF x \in returned THEN 0 ELSE AmountOf[i.s]
  <2>2. requests'[x] * AmountOf[x[1]] = AmountOf[i.s]
    BY <1>0, <2>1 DEF Typed, LedgerTypeOK
  <2>3. requests[x] * AmountOf[x[1]] = 0
    BY <1>0, <2>1
  <2>4. standing'[x] = "pending"
    BY <1>0, <2>1 DEF Typed, LedgerTypeOK
  <2>5. \A y \in Occurrences : y # x => requests'[y] = requests[y]
                                        /\ standing'[y] = standing[y]
    BY <2>1 DEF Typed, LedgerTypeOK
  <2>6. Pending' = [y \in Occurrences |->
                    IF standing'[y] = "pending" /\ y \notin returned
                    THEN requests'[y] * AmountOf[y[1]] ELSE 0]
    BY DEF Pending, Occurrences, Dates
  <2>7. Pending[x] = 0
    BY <1>0, <2>3 DEF Pending
  <2>. HIDE DEF x
  <2>8. Pending' = [Pending EXCEPT ![x] = v]
    <3>1. Pending'[x] = v
      BY <1>0, <2>2, <2>4, <2>6
    <3>2. \A y \in Occurrences : y # x => Pending'[y] = Pending[y]
      BY <2>5, <2>6 DEF Pending
    <3>3. DOMAIN Pending' = Occurrences /\ Pending' = [y \in Occurrences |-> Pending'[y]]
      BY <2>6
    <3>. QED BY <1>0, <3>1, <3>2, <3>3 DEF Pending
  <2>. HIDE DEF v
  <2>9. v \in Nat /\ v <= AmountOf[i.s]
    BY <1>0 DEF v
  <2>10. Total(Pending') = Total(Pending) - 0 + v
    BY <1>0, <2>7, <2>8, <2>9, PendingType, OccurrencesFinite, TotalUpdate
  <2>. QED BY <1>0, <2>9, <2>10, PendingType
<1>. QED BY <1>1, <1>2

LEMMA FundsStep ==
  ASSUME Typed, HeldApart, LockRespected, PaidOnce, FundsKept, [SchedulesNext]_scheduleVars
  PROVE  FundsKept'
<1>. SUFFICES ASSUME ~lockLost'
              PROVE  /\ Total(Pending') <= Raised
                     /\ \A w \in Workers : \A i \in workers'[w].at :
                          Total(Pending') + AmountOf[i.s] <= Raised
  BY DEF FundsKept
<1>1. ~lockLost
  BY HistoryGrows
<1>2. /\ Total(Pending) <= Raised /\ Raised \in Nat /\ Total(Pending) \in Nat
      /\ \A w \in Workers : \A i \in workers[w].at :
           i \in DueItems /\ AmountOf[i.s] \in Nat
           /\ Total(Pending) + AmountOf[i.s] <= Raised
  <2>1. \A w \in Workers : \A i \in workers[w].at : i \in DueItems
    BY DEF Typed, WorkerStates
  <2>. QED BY <1>1, <2>1, ItemFacts, PendingType, TermsAssumption DEF FundsKept
<1>3. workers \in [Workers -> WorkerStates]
  BY DEF Typed
<1>4. ASSUME Total(Pending') <= Total(Pending), Total(Pending') \in Nat,
             \A w \in Workers : workers'[w].at \subseteq workers[w].at
      PROVE  /\ Total(Pending') <= Raised
             /\ \A w \in Workers : \A i \in workers'[w].at :
                  Total(Pending') + AmountOf[i.s] <= Raised
  BY <1>2, <1>4
<1>5. ASSUME NEW w \in Workers, RaiseRequest(w)
      PROVE  /\ Total(Pending') <= Raised
             /\ \A v \in Workers : workers'[v].at = {}
  <2>1. PICK i \in DueItems :
          /\ i \in workers[w].at /\ workers[w].step = "raise" /\ Raise(i)
          /\ UNCHANGED history
    BY <1>5, RaiseFacts
  <2>2. Total(Pending') \in Nat /\ Total(Pending') <= Total(Pending) + AmountOf[i.s]
    BY <2>1, RaisesTotal DEF history
  <2>3. Total(Pending') <= Raised
    BY <1>2, <2>1, <2>2
  <2>4. ASSUME NEW v \in Workers PROVE workers'[v].at = {}
    <3>1. PICK r \in WorkerStates : workers' = [workers EXCEPT ![w] = r] /\ r.at = {}
      BY <1>5, WorkerMoves DEF WorkerStep
    <3>2. v # w => workers[v].step = "idle"
      BY <1>1, <2>1 DEF LockRespected
    <3>3. v # w => workers[v].at = {}
      BY <3>2 DEF HeldApart, Apart
    <3>. QED BY <1>3, <3>1, <3>3
  <2>. QED BY <2>3, <2>4
<1>6. ASSUME NEW w \in Workers, CheckFunds(w)
      PROVE  /\ Total(Pending') <= Raised
             /\ \A v \in Workers : \A i \in workers'[v].at :
                  Total(Pending') + AmountOf[i.s] <= Raised
  <2>1. PICK i \in workers[w].due :
          workers' = [workers EXCEPT ![w] =
            [step |-> IF Covered(i) THEN "raise" ELSE "pass",
             due |-> workers[w].due \ {i},
             at |-> IF Covered(i) THEN {i} ELSE {}]]
    BY <1>6 DEF CheckFunds, Earliest
  <2>2. Pending' = Pending
    BY <1>6 DEF CheckFunds, ledger, history, Pending, Occurrences, Dates
  <2>3. i.s \in Schedules /\ AmountOf[i.s] \in Nat
    <3>1. i \in DueItems
      BY <2>1 DEF Typed, WorkerStates
    <3>. QED BY <3>1, ItemFacts, TermsAssumption
  <2>4. Covered(i) => Total(Pending) + AmountOf[i.s] <= Raised
    BY <1>2, <2>3, PendingIsCommitted DEF Covered
  <2>5. ASSUME NEW v \in Workers, NEW j \in workers'[v].at
        PROVE  j \in workers[v].at \/ (j = i /\ Covered(i))
    BY <1>3, <2>1, <2>5
  <2>. QED BY <1>2, <2>2, <2>4, <2>5
<1>7. ASSUME NEW w \in Workers, WorkerStep(w), ~RaiseRequest(w), ~CheckFunds(w)
      PROVE  /\ Total(Pending') <= Raised
             /\ \A v \in Workers : \A i \in workers'[v].at :
                  Total(Pending') + AmountOf[i.s] <= Raised
  <2>1. UNCHANGED <<ledger, returned>>
    BY <1>7 DEF WorkerStep, TryLock, SelectDue, RaiseCollides,
                QueryFails, Unlock, Crash, history
  <2>2. Pending' = Pending
    BY <2>1 DEF ledger, Pending, Occurrences, Dates
  <2>3. ASSUME NEW v \in Workers PROVE workers'[v].at \subseteq workers[v].at
    BY <1>3, <1>7, WorkerMoves
  <2>. QED BY <1>2, <1>4, <2>2, <2>3
<1>8. CASE \/ DayPasses \/ LoseLock \/ UNCHANGED scheduleVars
           \/ \E s \in Schedules : CreatorStep(s)
  <2>1. UNCHANGED <<ledger, returned>>
    BY <1>8 DEF DayPasses, LoseLock, scheduleVars, CreatorStep, CreatePayoutSchedule,
                PausePayoutSchedule, CancelPayoutSchedule, ResumeReads,
                ResumeWrites, SetSchedule, history
  <2>2. Pending' = Pending
    BY <2>1 DEF ledger, Pending, Occurrences, Dates
  <2>. QED BY <1>2, <1>4, <1>8, <2>2, WorkersStay
<1>9. CASE Dispute \/ Resolve \/ \E x \in Occurrences : Deny(x)
  <2>1. requests' = requests
    BY <1>9 DEF Dispute, Resolve, Move, Deny
  <2>2. ASSUME NEW x \in Occurrences, standing'[x] = "pending", x \notin returned'
        PROVE  standing[x] = "pending" /\ x \notin returned
    <3>1. CASE Dispute
      BY <2>2, <3>1 DEF Dispute, Move
    <3>2. CASE Resolve
      BY <2>2, <3>2 DEF Resolve, Move
    <3>3. ASSUME NEW y \in Occurrences, Deny(y)
          PROVE  standing[x] = "pending" /\ x \notin returned
      BY <2>2, <3>3 DEF Deny, history, Typed, LedgerTypeOK
    <3>. QED BY <1>9, <3>1, <3>2, <3>3
  <2>3. Total(Pending') <= Total(Pending) /\ Total(Pending') \in Nat
    BY <2>1, <2>2, PendingShrinks
  <2>. QED BY <1>4, <1>9, <2>3, WorkersStay
<1>. QED BY <1>2, <1>5, <1>6, <1>7, <1>8, <1>9 DEF SchedulesNext

(* While no lock is lost, the pending payouts that no dispute has returned *)
(* stay within what was raised, though the check is not in the transaction *)
(* that raises the request.                                                *)
THEOREM FundsAreKept == SchedulesSpec => []PayoutsWithinFunds
<1>1. SchedulesInit => PaidOnce /\ FundsKept
  <2>. SUFFICES ASSUME SchedulesInit PROVE PaidOnce /\ FundsKept
    OBVIOUS
  <2>1. PaidOnce
    BY DEF SchedulesInit, PaidOnce
  <2>2. Pending = [x \in Occurrences |-> 0]
    BY DEF SchedulesInit, Pending
  <2>3. Total(Pending) = 0
    BY <2>2, TotalZero
  <2>4. \A w \in Workers : workers[w].at = {}
    BY DEF SchedulesInit, Idle
  <2>. QED BY <2>1, <2>3, <2>4, TermsAssumption DEF FundsKept
<1>2. Typed /\ (HeldApart /\ LockRespected) /\ PaidOnce /\ FundsKept
        /\ [SchedulesNext]_scheduleVars
        => PaidOnce' /\ FundsKept'
  BY PaidOnceStep, FundsStep
<1>3. PaidOnce /\ FundsKept => PayoutsWithinFunds
  BY DEF FundsKept, Pending, PayoutsWithinFunds
<1>. QED BY <1>1, <1>2, <1>3, TypesHold, ApartHolds, PTL DEF SchedulesSpec

(* Whatever the passes, lost locks, disputes and denials: a date pays once, *)
(* and while the lock is respected no schedule pays beyond its limit and    *)
(* the funds are not overdrawn (processDuePayoutSchedules).                 *)
THEOREM PayoutsSound == SchedulesSpec => []PayoutsAreSound
BY PaymentsFollowSchedule, FundsAreKept, PTL DEF PayoutsAreSound

---------------------------------------------------------------------------
(* The treasury. *)

(* What was executed has a time, and the last time is the one remembered;  *)
(* what is parked was requested when the hold was over, and nothing was    *)
(* requested later than now.                                               *)
TimesRecorded ==
  /\ now >= 1 /\ lastWithdrawalAt <= now
  /\ \A id \in Recorded : executedAt[id] \in 1 .. lastWithdrawalAt
  /\ \A id \in Ids : parked[id] > 0 => now >= HoldUntil
  /\ \A id \in Ids : requestedAt[id] <= now
  /\ approvedBy \subseteq Recorded

(* An answer not yet written down is about something that happened.        *)
AnswersAreReal ==
  /\ \A id \in Ids :
       Call("requested", id) \in answered \/ Call("approved", id) \in answered
         => executed[id] > 0
  /\ Call("refunded", 0) \in answered => refunded /\ refundEvents = 0

(* Before the refund nothing was returned.                                 *)
NothingReturned ==
  ~refunded => /\ \A c \in Contributors : refundPaid[c] = 0
               /\ refundPool = 0

TreasuryInv ==
  /\ DeskTypeOK
  /\ IdsInOrder /\ TimesRecorded /\ NothingReturned /\ AnswersAreReal
  /\ PolicyKept /\ AccountsAgree

---------------------------------------------------------------------------
(* What steps that leave some of the state alone keep.                      *)
LEMMA PolicyFrame ==
  ASSUME TreasuryInv, UNCHANGED <<policy, executed, executedAt, approvedBy, requestedAt>>
  PROVE  PolicyKept'
BY DEF TreasuryInv, PolicyKept, HeldAndAudited, CooldownBeforeRequest,
       CooldownUnlessAudited, Recorded, HoldUntil

LEMMA TimesFrame ==
  ASSUME TreasuryInv, now' >= now, now' \in Nat,
         UNCHANGED <<policy, parked, executed, executedAt, approvedBy, requestedAt,
                     lastWithdrawalAt>>
  PROVE  TimesRecorded'
<1>1. /\ now \in Nat /\ HoldUntil \in Int /\ lastWithdrawalAt \in Nat
      /\ requestedAt \in [Ids -> Nat]
  BY PoliciesAssumption, TreasuryBoundsAssumption
     DEF TreasuryInv, DeskTypeOK, TreasuryTypeOK, HoldUntil
<1>2. HoldUntil' = HoldUntil /\ Recorded' = Recorded
  BY DEF HoldUntil, Recorded
<1>. QED BY <1>1, <1>2 DEF TreasuryInv, TimesRecorded

LEMMA BooksFrame ==
  ASSUME TreasuryInv, UNCHANGED <<contributions, totalReceived, totalWithdrawn, executed>>,
         UNCHANGED <<refunded, refundPaid, withdrawnAtRefund>>
  PROVE  BooksBalance'
BY DEF TreasuryInv, AccountsAgree, BooksBalance, ReceivedIsSum, HistoryIsComplete,
       NeverOverdrawn

LEMMA RefundFrame ==
  ASSUME TreasuryInv, UNCHANGED refundState, contributions' \in [Contributors -> Nat],
         \A c \in Contributors : contributions[c] <= contributions'[c]
  PROVE  NothingReturned' /\ RefundReturnsPool'
<1>1. refunded' = refunded /\ refundPaid' = refundPaid /\ refundPool' = refundPool
  BY DEF refundState
<1>2. /\ contributions \in [Contributors -> Nat] /\ refundPaid \in [Contributors -> Nat]
      /\ NothingReturned /\ RefundReturnsPool
  BY DEF TreasuryInv, AccountsAgree, DeskTypeOK, TreasuryTypeOK
<1>3. NothingReturned'
  BY <1>1, <1>2 DEF NothingReturned
<1>4. RefundReturnsPool'
  BY <1>1, <1>2 DEF RefundReturnsPool
<1>. QED BY <1>3, <1>4

LEMMA DeskFrame ==
  ASSUME TreasuryInv, UNCHANGED <<row, answered, refundEvents, refunded>>,
         \A id \in Ids : executed[id] > 0 => executed'[id] > 0
  PROVE  RowsAreReal' /\ AnswersAreReal'
<1>1. RowsAreReal /\ AnswersAreReal
  BY DEF TreasuryInv, AccountsAgree
<1>2. RowsAreReal'
  BY <1>1 DEF RowsAreReal
<1>3. AnswersAreReal'
  BY <1>1 DEF AnswersAreReal
<1>. QED BY <1>2, <1>3

---------------------------------------------------------------------------
(* The numbers of the policy in force. *)
LEMMA PolicyType ==
  ASSUME TreasuryTypeOK
  PROVE  /\ policy.minHold \in Nat /\ policy.cooldown \in Nat
         /\ policy.auditorAbove \in Nat
         /\ HoldUntil \in Nat /\ AvailableBalance \in Int
  BY PoliciesAssumption, TreasuryBoundsAssumption
     DEF TreasuryTypeOK, ValidPolicy, HoldUntil, AvailableBalance

(* Paying a withdrawal, on either path, keeps the books, the times and the  *)
(* policy: its id was not used before, the money is there, the hold is over *)
(* and either an auditor signs or the amount is small and the cooldown over.*)
LEMMA ExecuteKeeps ==
  ASSUME TreasuryInv, NEW id \in Ids, NEW amount \in Nat, NEW audited \in BOOLEAN,
         amount > 0, executed[id] = 0, amount <= AvailableBalance,
         now >= HoldUntil,
         ~audited => amount <= policy.auditorAbove /\ CooledDown,
         ~audited => \A i \in Recorded : i < id,
         Execute(id, amount, audited),
         requestedAt' = IF audited THEN requestedAt
                                   ELSE [requestedAt EXCEPT ![id] = now],
         UNCHANGED <<now, configuration, books, refundState>>
  PROVE  /\ held' \in Nat /\ totalWithdrawn' \in Nat /\ lastWithdrawalAt' \in Nat
         /\ executed' \in [Ids -> Nat] /\ executedAt' \in [Ids -> Nat]
         /\ approvedBy' \subseteq Ids /\ requestedAt' \in [Ids -> Nat]
         /\ executed'[id] = amount /\ \A i \in Ids \ {id} : executed'[i] = executed[i]
         /\ BooksBalance' /\ PolicyKept'
         /\ (\A i \in Ids : parked'[i] > 0 => parked[i] > 0) => TimesRecorded'
<1>0. /\ TreasuryTypeOK /\ TimesRecorded /\ BooksBalance /\ HeldAndAudited
      /\ CooldownBeforeRequest /\ CooldownUnlessAudited /\ IsFiniteSet(Ids)
  <2>1. IsFiniteSet(Ids)
    BY FS_Interval, TreasuryBoundsAssumption DEF Ids
  <2>. QED BY <2>1 DEF TreasuryInv, DeskTypeOK, AccountsAgree, PolicyKept
<1>1. /\ amount <= held /\ held' = held - amount
      /\ totalWithdrawn' = totalWithdrawn + amount
      /\ lastWithdrawalAt' = now
      /\ executed' = [executed EXCEPT ![id] = amount]
      /\ executedAt' = [executedAt EXCEPT ![id] = now]
      /\ approvedBy' = IF audited THEN approvedBy \cup {id} ELSE approvedBy
  BY DEF Execute
<1>2. /\ UNCHANGED <<now, policy, contributions, totalReceived>>
      /\ UNCHANGED <<refunded, refundPaid, withdrawnAtRefund>>
      /\ HoldUntil' = HoldUntil
  BY DEF configuration, books, HoldUntil, refundState
<1>3. /\ now \in Nat /\ now >= 1 /\ held \in Nat /\ totalWithdrawn \in Nat
      /\ totalReceived \in Nat /\ lastWithdrawalAt \in Nat /\ lastWithdrawalAt <= now
      /\ executed \in [Ids -> Nat] /\ executedAt \in [Ids -> Nat]
      /\ requestedAt \in [Ids -> Nat] /\ \A i \in Ids : requestedAt[i] <= now
      /\ approvedBy \subseteq Recorded /\ Recorded \subseteq Ids /\ Ids \subseteq Nat
  <2>1. Ids \subseteq Nat
    BY TreasuryBoundsAssumption DEF Ids
  <2>2. \A i \in Ids : requestedAt[i] <= now
    BY <1>0 DEF TimesRecorded
  <2>3. approvedBy \subseteq Recorded /\ Recorded \subseteq Ids
    BY <1>0 DEF TimesRecorded, Recorded
  <2>4. now >= 1 /\ lastWithdrawalAt <= now
    BY <1>0 DEF TimesRecorded
  <2>. QED BY <1>0, <2>1, <2>2, <2>3, <2>4 DEF TreasuryTypeOK
<1>4. /\ executed' \in [Ids -> Nat] /\ executedAt' \in [Ids -> Nat]
      /\ executed'[id] = amount /\ executedAt'[id] = now
      /\ \A i \in Ids \ {id} : executed'[i] = executed[i] /\ executedAt'[i] = executedAt[i]
  BY <1>1, <1>3
<1>5. Recorded' = Recorded \cup {id} /\ id \notin Recorded
  BY <1>4 DEF Recorded
<1>6. /\ approvedBy \subseteq approvedBy' /\ approvedBy' \subseteq approvedBy \cup {id}
      /\ audited => id \in approvedBy'
  BY <1>1
<1>7. held' \in Nat /\ totalWithdrawn' \in Nat /\ lastWithdrawalAt' \in Nat
  BY <1>1, <1>3
<1>8. BooksBalance'
  <2>1. Total(executed') = Total(executed) - executed[id] + amount
    BY <1>0, <1>1, <1>3, TotalUpdate
  <2>2. HistoryIsComplete'
    BY <1>0, <1>1, <1>3, <2>1 DEF BooksBalance, HistoryIsComplete
  <2>3. NeverOverdrawn'
    BY <1>0, <1>1, <1>2, <1>3 DEF BooksBalance, NeverOverdrawn, AvailableBalance
  <2>4. ReceivedIsSum'
    BY <1>0, <1>2 DEF BooksBalance, ReceivedIsSum
  <2>. QED BY <2>2, <2>3, <2>4 DEF BooksBalance
<1>9. HeldAndAudited'
  <2> SUFFICES ASSUME NEW i \in Recorded'
               PROVE  /\ executedAt'[i] >= HoldUntil
                      /\ executed'[i] > policy.auditorAbove => i \in approvedBy'
    BY <1>2 DEF HeldAndAudited
  <2>1. CASE i = id
    <3>1. audited \/ amount <= policy.auditorAbove
      OBVIOUS
    <3>2. policy.auditorAbove \in Nat
      BY <1>0, PolicyType
    <3>. QED BY <1>4, <1>6, <2>1, <3>1, <3>2
  <2>2. CASE i # id
    <3>1. i \in Recorded /\ i \in Ids \ {id}
      BY <1>3, <1>5, <2>2
    <3>2. /\ executedAt[i] >= HoldUntil
          /\ executed[i] > policy.auditorAbove => i \in approvedBy
      BY <1>0, <3>1 DEF HeldAndAudited
    <3>. QED BY <1>4, <1>6, <3>1, <3>2
  <2>. QED BY <2>1, <2>2
<1>10. /\ requestedAt' \in [Ids -> Nat] /\ \A i \in Ids : requestedAt'[i] <= now
       /\ \A i \in Ids : requestedAt'[i] = requestedAt[i] \/ (i = id /\ ~audited)
       /\ ~audited => requestedAt'[id] = now
       /\ policy.cooldown \in Nat
       /\ \A k \in Recorded : executedAt[k] \in 1 .. lastWithdrawalAt
       /\ ~audited => \A k \in Recorded : executedAt[k] + policy.cooldown <= now
  <2>1. policy.cooldown \in Nat /\ \A k \in Recorded : executedAt[k] \in 1 .. lastWithdrawalAt
    BY <1>0, PolicyType DEF TimesRecorded
  <2>2. ASSUME ~audited, NEW k \in Recorded
        PROVE  executedAt[k] + policy.cooldown <= now
    <3>1. CooledDown /\ executedAt[k] \in 1 .. lastWithdrawalAt
      BY <2>1, <2>2
    <3>. QED BY <1>3, <2>1, <3>1 DEF CooledDown
  <2>. QED BY <1>3, <2>1, <2>2
<1>11. CooldownBeforeRequest'
  <2> SUFFICES ASSUME NEW i \in Recorded', NEW j \in Ids, executedAt'[i] < requestedAt'[j]
               PROVE  executedAt'[i] + policy.cooldown <= requestedAt'[j]
    BY <1>2 DEF CooldownBeforeRequest
  <2>1. i # id /\ i \in Recorded /\ i \in Ids /\ executedAt'[i] = executedAt[i]
    BY <1>3, <1>4, <1>5, <1>10
  <2>2. CASE requestedAt'[j] = requestedAt[j]
    BY <1>0, <2>1, <2>2 DEF CooldownBeforeRequest
  <2>3. CASE j = id /\ ~audited
    BY <1>10, <2>1, <2>3
  <2>. QED BY <1>10, <2>2, <2>3
<1>12. CooldownUnlessAudited'
  <2> SUFFICES ASSUME NEW j \in Recorded', j \notin approvedBy'
               PROVE  /\ executedAt'[j] = requestedAt'[j]
                      /\ \A i \in Recorded' \ approvedBy' :
                           i < j => executedAt'[i] + policy.cooldown <= executedAt'[j]
    BY <1>2 DEF CooldownUnlessAudited
  <2>1. CASE j = id
    <3>1. ~audited
      BY <1>6, <2>1
    <3>2. ASSUME NEW i \in Recorded' \ approvedBy', i < j
          PROVE  executedAt'[i] + policy.cooldown <= executedAt'[j]
      <4>1. i # id /\ i \in Recorded /\ i \in Ids \ {id}
        BY <1>3, <1>5, <2>1, <3>2
      <4>. QED BY <1>4, <1>10, <2>1, <3>1, <4>1
    <3>. QED BY <1>4, <1>10, <2>1, <3>1, <3>2
  <2>2. CASE j # id
    <3>1. j \in Recorded /\ j \in Ids \ {id} /\ j \notin approvedBy
      BY <1>3, <1>5, <1>6, <2>2
    <3>2. executedAt'[j] = requestedAt'[j]
      BY <1>0, <1>4, <1>10, <3>1 DEF CooldownUnlessAudited
    <3>3. ASSUME NEW i \in Recorded' \ approvedBy', i < j
          PROVE  executedAt'[i] + policy.cooldown <= executedAt'[j]
      <4>1. CASE i = id
        <5>1. ~audited
          BY <1>6, <3>3, <4>1
        <5>2. j < id
          BY <3>1, <5>1
        <5>. QED BY <1>3, <3>1, <3>3, <4>1, <5>2
      <4>2. CASE i # id
        <5>1. i \in Recorded \ approvedBy /\ i \in Ids \ {id}
          BY <1>3, <1>5, <1>6, <3>3, <4>2
        <5>. QED BY <1>0, <1>4, <3>1, <3>3, <5>1 DEF CooldownUnlessAudited
      <4>. QED BY <4>1, <4>2
    <3>. QED BY <3>2, <3>3
  <2>. QED BY <2>1, <2>2
<1>13. ASSUME \A i \in Ids : parked'[i] > 0 => parked[i] > 0
       PROVE  TimesRecorded'
  <2>1. \A i \in Recorded' : executedAt'[i] \in 1 .. lastWithdrawalAt'
    <3> SUFFICES ASSUME NEW i \in Recorded' PROVE executedAt'[i] \in 1 .. lastWithdrawalAt'
      OBVIOUS
    <3>1. CASE i = id
      BY <1>1, <1>3, <1>4, <3>1
    <3>2. CASE i # id
      <4>1. executedAt[i] \in 1 .. lastWithdrawalAt /\ i \in Ids \ {id}
        BY <1>0, <1>3, <1>5, <3>2 DEF TimesRecorded
      <4>. QED BY <1>1, <1>3, <1>4, <4>1
    <3>. QED BY <3>1, <3>2
  <2>2. \A i \in Ids : parked'[i] > 0 => now' >= HoldUntil'
    BY <1>2
  <2>3. now' >= 1 /\ lastWithdrawalAt' <= now' /\ approvedBy' \subseteq Recorded'
    BY <1>1, <1>2, <1>3, <1>5, <1>6
  <2>. QED BY <1>2, <1>10, <2>1, <2>2, <2>3 DEF TimesRecorded
<1>. QED BY <1>3, <1>4, <1>5, <1>6, <1>7, <1>8, <1>9, <1>10, <1>11, <1>12, <1>13
         DEF PolicyKept

---------------------------------------------------------------------------
(* Each step keeps the invariant. *)

(* A credited payment is booked. *)
LEMMA IndexStep ==
  ASSUME TreasuryInv, NEW c \in Contributors, NEW amount \in ContributionAmounts,
         IndexContribution(c, amount)
  PROVE  TreasuryInv'
<1>1. /\ amount > 0 /\ totalReceived' = totalReceived + amount
      /\ contributions' = [contributions EXCEPT ![c] = contributions[c] + amount]
      /\ UNCHANGED <<now, configuration, withdrawals, numbering, paused, refundState,
                     parked, held, arrived, deskVars>>
  BY DEF IndexContribution, ReceiveContribution, Book
<1>2. /\ UNCHANGED <<now, policy, hasAuditor, totalWithdrawn, lastWithdrawalAt>>
      /\ UNCHANGED <<executed, approvedBy, executedAt, nextId, requestedAt, paused>>
      /\ UNCHANGED <<refunded, refundPaid, refundPool, withdrawnAtRefund>>
      /\ UNCHANGED <<parked, held, arrived, row, answered, refundEvents>>
  BY <1>1 DEF configuration, withdrawals, numbering, refundState, deskVars
<1>3. /\ amount \in Nat /\ contributions \in [Contributors -> Nat]
      /\ totalReceived \in Nat /\ totalWithdrawn \in Nat /\ now \in Nat
      /\ ReceivedIsSum /\ HistoryIsComplete /\ NeverOverdrawn /\ IdsInOrder
      /\ withdrawnAtRefund \in Nat /\ Total(refundPaid) \in Nat
  <2>1. refundPaid \in [Contributors -> Nat]
    BY DEF TreasuryInv, DeskTypeOK, TreasuryTypeOK
  <2>2. Total(refundPaid) \in Nat
    BY <2>1, ContributorsAssumption, TotalType
  <2>. QED BY <1>1, <2>2, TreasuryAmountsAssumption
           DEF TreasuryInv, DeskTypeOK, TreasuryTypeOK, AccountsAgree, BooksBalance
<1>4. /\ contributions[c] + amount \in Nat /\ totalReceived' \in Nat
      /\ contributions' \in [Contributors -> Nat]
      /\ \A d \in Contributors : contributions[d] <= contributions'[d]
  BY <1>1, <1>3
<1>5. DeskTypeOK'
  BY <1>2, <1>4 DEF TreasuryInv, DeskTypeOK, TreasuryTypeOK
<1>6. BooksBalance'
  <2>1. Total(contributions') =
          Total(contributions) - contributions[c] + (contributions[c] + amount)
    <3> DEFINE v == contributions[c] + amount
    <3>1. v \in Nat /\ contributions' = [contributions EXCEPT ![c] = v]
      BY <1>1, <1>4
    <3> HIDE DEF v
    <3>2. Total(contributions') = Total(contributions) - contributions[c] + v
      BY <1>3, <3>1, ContributorsAssumption, TotalUpdate
    <3>. QED BY <3>2 DEF v
  <2>2. Total(contributions) = totalReceived /\ contributions[c] \in Nat
    BY <1>3 DEF ReceivedIsSum
  <2>3. ReceivedIsSum'
    BY <1>1, <1>3, <2>1, <2>2 DEF ReceivedIsSum
  <2>4. HistoryIsComplete' /\ NeverOverdrawn'
    BY <1>1, <1>2, <1>3 DEF HistoryIsComplete, NeverOverdrawn
  <2>. QED BY <2>3, <2>4 DEF BooksBalance
<1>7. PolicyKept' /\ TimesRecorded'
  BY <1>2, <1>3, PolicyFrame, TimesFrame
<1>8. NothingReturned' /\ RefundReturnsPool'
  BY <1>1, <1>4, RefundFrame
<1>9. RowsAreReal' /\ AnswersAreReal'
  BY <1>2, DeskFrame
<1>10. IdsInOrder'
  BY <1>2, <1>3 DEF IdsInOrder
<1>. QED BY <1>5, <1>6, <1>7, <1>8, <1>9, <1>10 DEF TreasuryInv, AccountsAgree

(* A request above the threshold is parked under a new id. *)
LEMMA ParkStep ==
  ASSUME TreasuryInv, NEW amount \in WithdrawalAmounts, ParkWithdrawal(amount),
         answered' = answered \cup {Call("parked", nextId)},
         UNCHANGED <<row, refundEvents>>
  PROVE  TreasuryInv'
<1>1. /\ amount > 0 /\ now >= HoldUntil
      /\ CooledDown /\ nextId \in Ids /\ nextId' = nextId + 1
      /\ requestedAt' = [requestedAt EXCEPT ![nextId] = now]
      /\ parked' = [parked EXCEPT ![nextId] = amount]
      /\ UNCHANGED <<now, configuration, books, withdrawals, paused, refundState,
                     held, arrived>>
  BY DEF ParkWithdrawal, MayRequest
<1>2. /\ UNCHANGED <<now, policy, hasAuditor, contributions, totalReceived>>
      /\ UNCHANGED <<totalWithdrawn, lastWithdrawalAt, executed, approvedBy>>
      /\ UNCHANGED <<executedAt, paused, refunded, refundPaid, refundPool>>
      /\ UNCHANGED <<withdrawnAtRefund, held, arrived>>
  BY <1>1 DEF configuration, books, withdrawals, refundState
<1>3. /\ amount \in Nat /\ nextId \in Nat \ {0} /\ Ids \subseteq Nat
      /\ now \in Nat /\ parked \in [Ids -> Nat] /\ executed \in [Ids -> Nat]
      /\ contributions \in [Contributors -> Nat] /\ answered \subseteq Calls
      /\ IdsInOrder /\ TimesRecorded /\ AnswersAreReal /\ RowsAreReal
  <2>1. amount \in Int /\ amount > 0
    BY <1>1, TreasuryAmountsAssumption
  <2>2. nextId \in Nat /\ nextId >= 1 /\ Ids \subseteq Nat
    BY <1>1, TreasuryBoundsAssumption DEF Ids
  <2>3. TreasuryTypeOK /\ answered \subseteq Calls /\ AccountsAgree
        /\ IdsInOrder /\ TimesRecorded /\ AnswersAreReal
    BY DEF TreasuryInv, DeskTypeOK
  <2>4. /\ now \in Nat /\ parked \in [Ids -> Nat] /\ executed \in [Ids -> Nat]
        /\ contributions \in [Contributors -> Nat]
    BY <2>3 DEF TreasuryTypeOK
  <2>5. RowsAreReal
    BY <2>3 DEF AccountsAgree
  <2>. QED BY <2>1, <2>2, <2>3, <2>4, <2>5
<1>4. /\ nextId' \in Nat \ {0} /\ parked' \in [Ids -> Nat]
      /\ \A i \in Ids : parked'[i] = IF i = nextId THEN amount ELSE parked[i]
      /\ requestedAt' \in [Ids -> Nat]
      /\ \A i \in Ids : requestedAt'[i] = IF i = nextId THEN now ELSE requestedAt[i]
  <2>1. requestedAt \in [Ids -> Nat]
    BY DEF TreasuryInv, DeskTypeOK, TreasuryTypeOK
  <2>. QED BY <1>1, <1>3, <2>1
<1>5. answered' \subseteq Calls
  <2>1. Call("parked", nextId) \in Calls
    BY <1>1 DEF Calls
  <2>. QED BY <1>3, <2>1
<1>6. DeskTypeOK'
  BY <1>2, <1>4, <1>5 DEF TreasuryInv, DeskTypeOK, TreasuryTypeOK
<1>7. PolicyKept' /\ BooksBalance'
  <2>1. BooksBalance' /\ PolicyKept
    BY <1>2, BooksFrame DEF TreasuryInv
  <2>2. /\ HoldUntil' = HoldUntil /\ Recorded' = Recorded /\ Recorded \subseteq Ids
        /\ nextId \notin Recorded
    BY <1>1, <1>2, <1>3 DEF HoldUntil, Recorded, IdsInOrder
  <2>3. HeldAndAudited' /\ CooldownUnlessAudited'
    BY <1>2, <1>4, <2>1, <2>2 DEF PolicyKept, HeldAndAudited, CooldownUnlessAudited
  <2>4. ASSUME NEW i \in Recorded, NEW j \in Ids, executedAt[i] < requestedAt'[j]
        PROVE  executedAt[i] + policy.cooldown <= requestedAt'[j]
    <3>1. CASE j = nextId
      <4>1. /\ executedAt[i] \in 1 .. lastWithdrawalAt /\ lastWithdrawalAt \in Nat
            /\ policy.cooldown \in Nat
        BY <1>3, PolicyType DEF TimesRecorded, TreasuryInv, DeskTypeOK, TreasuryTypeOK
      <4>2. now >= lastWithdrawalAt + policy.cooldown
        BY <1>1, <4>1 DEF CooledDown
      <4>. QED BY <1>3, <1>4, <3>1, <4>1, <4>2
    <3>2. CASE j # nextId
      BY <1>4, <2>1, <2>4, <3>2 DEF PolicyKept, CooldownBeforeRequest
    <3>. QED BY <3>1, <3>2
  <2>. QED BY <1>2, <2>1, <2>2, <2>3, <2>4 DEF PolicyKept, CooldownBeforeRequest
<1>8. NothingReturned' /\ RefundReturnsPool'
  BY <1>1, <1>2, <1>3, RefundFrame
<1>9. TimesRecorded'
  <2>1. HoldUntil' = HoldUntil /\ Recorded' = Recorded
    BY <1>2 DEF HoldUntil, Recorded
  <2>2. \A i \in Ids : requestedAt'[i] <= now
    BY <1>3, <1>4 DEF TimesRecorded
  <2>. QED BY <1>1, <1>2, <1>3, <2>1, <2>2 DEF TimesRecorded
<1>10. IdsInOrder'
  <2> SUFFICES ASSUME NEW i \in Ids
               PROVE  /\ parked'[i] > 0 \/ executed[i] > 0 => i < nextId'
                      /\ ~(parked'[i] > 0 /\ executed[i] > 0)
    BY <1>2 DEF IdsInOrder
  <2>1. /\ parked[i] > 0 \/ executed[i] > 0 => i < nextId
        /\ ~(parked[i] > 0 /\ executed[i] > 0)
    BY <1>3 DEF IdsInOrder
  <2>2. i \in Nat /\ executed[i] \in Nat /\ parked[i] \in Nat
    BY <1>3
  <2>. QED BY <1>1, <1>3, <1>4, <2>1, <2>2
<1>11. RowsAreReal' /\ AnswersAreReal'
  <2>1. RowsAreReal'
    BY <1>2, <1>3 DEF RowsAreReal
  <2>2. \A i \in Ids : /\ Call("requested", i) # Call("parked", nextId)
                       /\ Call("approved", i) # Call("parked", nextId)
    BY DEF Call
  <2>3. Call("refunded", 0) # Call("parked", nextId)
    BY DEF Call
  <2>4. AnswersAreReal'
    BY <1>2, <1>3, <2>2, <2>3 DEF AnswersAreReal
  <2>. QED BY <2>1, <2>4
<1>. QED BY <1>6, <1>7, <1>8, <1>9, <1>10, <1>11 DEF TreasuryInv, AccountsAgree

(* Paying a withdrawal whose id is then answered, on either path. *)
LEMMA PaidStep ==
  ASSUME TreasuryInv, NEW id \in Ids, NEW amount \in Nat, NEW audited \in BOOLEAN,
         NEW op \in {"requested", "approved"},
         amount > 0, executed[id] = 0, amount <= AvailableBalance,
         now >= HoldUntil,
         ~audited => amount <= policy.auditorAbove /\ CooledDown,
         ~audited => \A i \in Recorded : i < id,
         Execute(id, amount, audited),
         requestedAt' = IF audited THEN requestedAt
                                   ELSE [requestedAt EXCEPT ![id] = now],
         parked' \in [Ids -> Nat], parked'[id] = 0,
         \A i \in Ids \ {id} : parked'[i] = parked[i],
         nextId' \in Nat, nextId <= nextId', id < nextId',
         answered' = answered \cup {Call(op, id)},
         UNCHANGED <<now, configuration, books, paused, refundState, arrived>>,
         UNCHANGED <<row, refundEvents>>
  PROVE  TreasuryInv'
<1>1. /\ UNCHANGED <<now, policy, hasAuditor, contributions, totalReceived>>
      /\ UNCHANGED <<paused, refunded, refundPaid, refundPool, arrived>>
      /\ UNCHANGED <<withdrawnAtRefund, row, refundEvents>>
  BY DEF configuration, books, refundState
<1>2. /\ nextId \in Nat \ {0} /\ Ids \subseteq Nat
      /\ parked \in [Ids -> Nat] /\ executed \in [Ids -> Nat]
      /\ contributions \in [Contributors -> Nat] /\ answered \subseteq Calls
      /\ IdsInOrder /\ AnswersAreReal /\ RowsAreReal
  <2>1. Ids \subseteq Nat
    BY TreasuryBoundsAssumption DEF Ids
  <2>. QED BY <2>1 DEF TreasuryInv, DeskTypeOK, TreasuryTypeOK, AccountsAgree
<1>3. \A i \in Ids : parked'[i] > 0 => parked[i] > 0
  BY <1>2
<1>4. /\ held' \in Nat /\ totalWithdrawn' \in Nat /\ lastWithdrawalAt' \in Nat
      /\ executed' \in [Ids -> Nat] /\ executedAt' \in [Ids -> Nat]
      /\ approvedBy' \subseteq Ids /\ requestedAt' \in [Ids -> Nat]
      /\ executed'[id] = amount /\ \A i \in Ids \ {id} : executed'[i] = executed[i]
      /\ BooksBalance' /\ PolicyKept' /\ TimesRecorded'
  BY <1>3, ExecuteKeeps
<1>5. answered' \subseteq Calls
  <2>1. Call(op, id) \in Calls
    BY DEF Calls
  <2>. QED BY <1>2, <2>1
<1>6. DeskTypeOK'
  BY <1>1, <1>2, <1>4, <1>5 DEF TreasuryInv, DeskTypeOK, TreasuryTypeOK
<1>7. NothingReturned' /\ RefundReturnsPool'
  BY <1>1, <1>2, RefundFrame
<1>8. IdsInOrder'
  <2> SUFFICES ASSUME NEW i \in Ids
               PROVE  /\ parked'[i] > 0 \/ executed'[i] > 0 => i < nextId'
                      /\ ~(parked'[i] > 0 /\ executed'[i] > 0)
    BY DEF IdsInOrder
  <2>1. /\ parked[i] > 0 \/ executed[i] > 0 => i < nextId
        /\ ~(parked[i] > 0 /\ executed[i] > 0)
    BY <1>2 DEF IdsInOrder
  <2>2. i \in Nat
    BY <1>2
  <2>. QED BY <1>2, <1>4, <2>1, <2>2
<1>9. \A i \in Ids : executed[i] > 0 \/ i = id => executed'[i] > 0
  BY <1>2, <1>4
<1>10. RowsAreReal'
  BY <1>1, <1>2, <1>9 DEF RowsAreReal
<1>11. AnswersAreReal'
  <2>1. \A i \in Ids : Call("requested", i) \in answered' \/ Call("approved", i) \in answered'
          => \/ Call("requested", i) \in answered \/ Call("approved", i) \in answered
             \/ i = id
    BY DEF Call
  <2>2. Call("refunded", 0) \in answered' => Call("refunded", 0) \in answered
    BY DEF Call
  <2>. QED BY <1>1, <1>2, <1>9, <2>1, <2>2 DEF AnswersAreReal
<1>. QED BY <1>4, <1>6, <1>7, <1>8, <1>10, <1>11 DEF TreasuryInv, AccountsAgree

(* A request up to the threshold is paid at once, under a new id. *)
LEMMA AtOnceStep ==
  ASSUME TreasuryInv, NEW amount \in WithdrawalAmounts, WithdrawAtOnce(amount),
         answered' = answered \cup {Call("requested", nextId)},
         UNCHANGED <<row, refundEvents>>
  PROVE  TreasuryInv'
<1>1. /\ amount > 0 /\ now >= HoldUntil /\ CooledDown /\ amount <= AvailableBalance
      /\ ~NeedsAuditor(amount) /\ nextId \in Ids /\ nextId' = nextId + 1
      /\ Execute(nextId, amount, FALSE)
      /\ requestedAt' = [requestedAt EXCEPT ![nextId] = now]
      /\ UNCHANGED <<now, configuration, books, paused, refundState, parked, arrived>>
  BY DEF WithdrawAtOnce, MayRequest
<1>2. amount \in Nat /\ amount <= policy.auditorAbove
  <2>1. policy.auditorAbove \in Nat
    BY PolicyType DEF TreasuryInv, DeskTypeOK
  <2>. QED BY <1>1, <2>1, TreasuryAmountsAssumption DEF NeedsAuditor
<1>3. /\ nextId \in Nat \ {0} /\ parked \in [Ids -> Nat] /\ executed \in [Ids -> Nat]
      /\ IdsInOrder
  BY DEF TreasuryInv, DeskTypeOK, TreasuryTypeOK
<1>4. parked[nextId] = 0 /\ executed[nextId] = 0
  <2>1. ~(parked[nextId] > 0 \/ executed[nextId] > 0)
    BY <1>1, <1>3 DEF IdsInOrder
  <2>2. parked[nextId] \in Nat /\ executed[nextId] \in Nat
    BY <1>1, <1>3
  <2>. QED BY <2>1, <2>2
<1>5. nextId' \in Nat /\ nextId <= nextId' /\ nextId < nextId'
  BY <1>1, <1>3
<1>6. /\ parked' \in [Ids -> Nat] /\ parked'[nextId] = 0
      /\ \A i \in Ids \ {nextId} : parked'[i] = parked[i]
  BY <1>1, <1>3, <1>4
<1>7. /\ FALSE \in BOOLEAN /\ "requested" \in {"requested", "approved"}
      /\ \A i \in Recorded : i < nextId
  BY <1>3 DEF Recorded, IdsInOrder
<1>. QED BY <1>1, <1>2, <1>4, <1>5, <1>6, <1>7, PaidStep

(* An auditor's approval pays what was parked, if the money is still there. *)
LEMMA ApproveStep ==
  ASSUME TreasuryInv, NEW id \in Ids, ApprovePendingWithdrawal(id)
  PROVE  TreasuryInv'
<1>1. /\ parked[id] > 0 /\ parked[id] <= AvailableBalance
      /\ parked' = [parked EXCEPT ![id] = 0]
      /\ Execute(id, parked[id], TRUE)
      /\ UNCHANGED <<now, configuration, books, paused, refundState, arrived>>
      /\ UNCHANGED <<nextId, requestedAt>>
      /\ answered' = answered \cup {Call("approved", id)}
      /\ UNCHANGED <<row, refundEvents>>
  BY DEF ApprovePendingWithdrawal, ApproveWithdrawal, numbering
<1>2. /\ nextId \in Nat \ {0} /\ parked \in [Ids -> Nat] /\ executed \in [Ids -> Nat]
      /\ IdsInOrder /\ TimesRecorded
  BY DEF TreasuryInv, DeskTypeOK, TreasuryTypeOK
<1>3. parked[id] \in Nat /\ executed[id] \in Nat
  BY <1>2
<1>4. executed[id] = 0 /\ id < nextId /\ now >= HoldUntil
  BY <1>1, <1>2, <1>3 DEF IdsInOrder, TimesRecorded
<1>5. nextId' \in Nat /\ nextId <= nextId' /\ id < nextId'
  BY <1>1, <1>2, <1>4
<1>6. /\ parked' \in [Ids -> Nat] /\ parked'[id] = 0
      /\ \A i \in Ids \ {id} : parked'[i] = parked[i]
  BY <1>1, <1>2
<1>7. TRUE \in BOOLEAN /\ "approved" \in {"requested", "approved"}
  OBVIOUS
<1>. QED BY <1>1, <1>3, <1>4, <1>5, <1>6, <1>7, PaidStep

(* What a refund pays out: the shares are natural numbers, nobody's is above *)
(* what is booked for him, and together they return the pool but for less    *)
(* than one unit for each.                                                   *)
LEMMA SharesReturnPool ==
  ASSUME TreasuryInv
  PROVE  /\ AvailableBalance \in Nat
         /\ Shares \in [Contributors -> Nat]
         /\ \A c \in Contributors : Shares[c] <= contributions[c]
         /\ Total(Shares) \in Nat
         /\ Total(Shares) <= AvailableBalance
         /\ AvailableBalance <= Total(Shares) + Cardinality(Contributors)
<1>1. /\ contributions \in [Contributors -> Nat] /\ totalReceived \in Nat
      /\ totalWithdrawn \in Nat /\ ReceivedIsSum /\ NeverOverdrawn
  BY DEF TreasuryInv, DeskTypeOK, TreasuryTypeOK, AccountsAgree, BooksBalance
<1>2. /\ AvailableBalance \in Nat /\ AvailableBalance <= totalReceived
      /\ Total(contributions) = totalReceived
      /\ Cardinality(Contributors) \in Nat
  BY <1>1, ContributorsAssumption, FS_CardinalityType
     DEF AvailableBalance, NeverOverdrawn, ReceivedIsSum
<1>3. CASE totalReceived > 0
  <2> DEFINE g == [c \in Contributors |->
                     (contributions[c] * AvailableBalance) \div Total(contributions)]
  <2>1. Shares = g
    BY <1>2, <1>3 DEF Shares, Share
  <2>2. /\ g \in [Contributors -> Nat]
        /\ \A c \in Contributors : g[c] <= contributions[c]
        /\ Total(g) <= AvailableBalance
        /\ AvailableBalance <= Total(g) + Cardinality(Contributors)
    <3>1. /\ IsFiniteSet(Contributors) /\ contributions \in [Contributors -> Nat]
          /\ AvailableBalance \in Nat /\ Total(contributions) > 0
          /\ AvailableBalance <= Total(contributions)
      BY <1>1, <1>2, <1>3, ContributorsAssumption
    <3>. QED BY ONLY <3>1, SharesOfPool
  <2> HIDE DEF g
  <2>. QED BY <1>2, <2>1, <2>2, ContributorsAssumption, TotalType
<1>4. CASE totalReceived = 0
  <2>1. AvailableBalance = 0
    BY <1>2, <1>4
  <2>2. Shares = [c \in Contributors |-> 0]
    BY <1>1, <1>4 DEF Shares, Share
  <2>3. Total(Shares) = 0
    BY <2>2, ContributorsAssumption, TotalZero
  <2>. QED BY <1>1, <1>2, <2>1, <2>2, <2>3
<1>. QED BY <1>1, <1>3, <1>4

(* The refund runs once and pays the shares.                               *)
LEMMA RefundStep ==
  ASSUME TreasuryInv, RequestAutoRefund
  PROVE  TreasuryInv'
<1>1. /\ ~refunded /\ refunded' = TRUE
      /\ Total(Shares) <= held /\ held' = held - Total(Shares)
      /\ refundPaid' = [c \in Contributors |-> refundPaid[c] + Share(c)]
      /\ refundPool' = AvailableBalance /\ withdrawnAtRefund' = totalWithdrawn
      /\ UNCHANGED <<now, configuration, books, withdrawals, numbering, paused,
                     parked, arrived, row, refundEvents>>
      /\ answered' = answered \cup {Call("refunded", 0)}
  BY DEF RequestAutoRefund, TriggerAutoRefund
<1>2. /\ UNCHANGED <<now, policy, hasAuditor, contributions, totalReceived>>
      /\ UNCHANGED <<totalWithdrawn, lastWithdrawalAt, executed, approvedBy>>
      /\ UNCHANGED <<executedAt, nextId, requestedAt, paused, parked, arrived>>
      /\ UNCHANGED <<row, refundEvents>>
  BY <1>1 DEF configuration, books, withdrawals, numbering
<1>3. /\ AvailableBalance \in Nat /\ Shares \in [Contributors -> Nat]
      /\ \A c \in Contributors : Shares[c] <= contributions[c]
      /\ Total(Shares) \in Nat /\ Total(Shares) <= AvailableBalance
      /\ AvailableBalance <= Total(Shares) + Cardinality(Contributors)
  BY SharesReturnPool
<1>4. /\ now \in Nat /\ held \in Nat /\ refundEvents \in 0 .. 1
      /\ answered \subseteq Calls /\ refundPaid \in [Contributors -> Nat]
      /\ NothingReturned /\ RowsAreReal /\ AnswersAreReal /\ IdsInOrder
  BY DEF TreasuryInv, DeskTypeOK, TreasuryTypeOK, AccountsAgree
<1>5. refundPaid' = Shares
  <2>1. \A c \in Contributors : refundPaid[c] = 0
    BY <1>1, <1>4 DEF NothingReturned
  <2>2. \A c \in Contributors : Shares[c] = Share(c) /\ Shares[c] \in Nat
    BY <1>3 DEF Shares
  <2>3. \A c \in Contributors : refundPaid[c] + Share(c) = Share(c)
    BY <2>1, <2>2
  <2>. QED BY <1>1, <2>3 DEF Shares
<1>6. held' \in Nat
  BY <1>1, <1>3, <1>4
<1>7. answered' \subseteq Calls
  BY <1>1, <1>4 DEF Calls
<1>8. DeskTypeOK'
  <2>1. refunded' \in BOOLEAN
    BY <1>1
  <2>2. refundPaid' \in [Contributors -> Nat] /\ refundPool' \in Nat
    BY <1>1, <1>3, <1>5
  <2>3. withdrawnAtRefund' \in Nat
    BY <1>1 DEF TreasuryInv, DeskTypeOK, TreasuryTypeOK
  <2>. QED BY <1>2, <1>6, <1>7, <2>1, <2>2, <2>3 DEF TreasuryInv, DeskTypeOK, TreasuryTypeOK
<1>9. RefundReturnsPool'
  BY <1>1, <1>2, <1>3, <1>5 DEF RefundReturnsPool
<1>10. PolicyKept' /\ BooksBalance' /\ TimesRecorded'
  <2>1. /\ ReceivedIsSum /\ HistoryIsComplete /\ NeverOverdrawn
        /\ totalReceived \in Nat /\ totalWithdrawn \in Nat
    BY DEF TreasuryInv, AccountsAgree, BooksBalance, DeskTypeOK, TreasuryTypeOK
  <2>2. totalWithdrawn + Total(Shares) <= totalReceived
    BY <1>3, <2>1 DEF AvailableBalance
  <2>3. NeverOverdrawn'
    BY <1>1, <1>2, <1>5, <2>1, <2>2 DEF NeverOverdrawn
  <2>4. BooksBalance'
    BY <1>2, <2>1, <2>3 DEF BooksBalance, ReceivedIsSum, HistoryIsComplete
  <2>. QED BY <1>2, <1>4, <2>4, PolicyFrame, TimesFrame
<1>11. NothingReturned' /\ IdsInOrder'
  BY <1>1, <1>2, <1>4 DEF NothingReturned, IdsInOrder
<1>12. RowsAreReal'
  BY <1>1, <1>2, <1>4 DEF RowsAreReal
<1>13. AnswersAreReal'
  <2>1. \A i \in Ids : /\ Call("requested", i) \in answered' => Call("requested", i) \in answered
                       /\ Call("approved", i) \in answered' => Call("approved", i) \in answered
    BY <1>1 DEF Call
  <2>2. refundEvents = 0
    BY <1>1, <1>4 DEF RowsAreReal
  <2>. QED BY <1>1, <1>2, <1>4, <2>1, <2>2 DEF AnswersAreReal
<1>. QED BY <1>8, <1>9, <1>10, <1>11, <1>12, <1>13 DEF TreasuryInv, AccountsAgree

(* The second steps touch the desk's own state only: what is written down   *)
(* was answered, and what is answered happened.                             *)
LEMMA WriteFrame ==
  ASSUME TreasuryInv, UNCHANGED treasuryVars,
         row' \in [Ids -> RowStatus], answered' \subseteq answered,
         refundEvents' \in 0 .. 1, RowsAreReal', AnswersAreReal'
  PROVE  TreasuryInv'
<1>1. /\ UNCHANGED <<now, configuration, books, withdrawals, numbering, paused>>
      /\ UNCHANGED <<refundState, parked, held, arrived>>
  BY DEF treasuryVars
<1>2. /\ UNCHANGED <<policy, hasAuditor, contributions, totalReceived>>
      /\ UNCHANGED <<totalWithdrawn, lastWithdrawalAt, executed, approvedBy>>
      /\ UNCHANGED <<executedAt, refunded, refundPaid, refundPool>>
      /\ UNCHANGED <<nextId, requestedAt, withdrawnAtRefund>>
  BY <1>1 DEF configuration, books, withdrawals, numbering, refundState
<1>3. /\ now \in Nat /\ IdsInOrder /\ answered \subseteq Calls
      /\ contributions \in [Contributors -> Nat]
  BY DEF TreasuryInv, DeskTypeOK, TreasuryTypeOK
<1>4. DeskTypeOK'
  BY <1>1, <1>2, <1>3 DEF TreasuryInv, DeskTypeOK, TreasuryTypeOK
<1>5. PolicyKept' /\ BooksBalance' /\ TimesRecorded'
  BY <1>1, <1>2, <1>3, PolicyFrame, BooksFrame, TimesFrame
<1>6. NothingReturned' /\ RefundReturnsPool'
  BY <1>1, <1>2, <1>3, RefundFrame
<1>7. IdsInOrder'
  BY <1>1, <1>2, <1>3 DEF IdsInOrder
<1>. QED BY <1>4, <1>5, <1>6, <1>7 DEF TreasuryInv, AccountsAgree

(* Taking a call off the list keeps the others true. *)
LEMMA AnswersFrame ==
  ASSUME AnswersAreReal, answered' \subseteq answered, UNCHANGED treasuryVars,
         \/ UNCHANGED refundEvents
         \/ Call("refunded", 0) \notin answered'
  PROVE  AnswersAreReal'
<1>1. UNCHANGED <<executed, refunded>>
  BY DEF treasuryVars, withdrawals, refundState
<1>. QED BY <1>1 DEF AnswersAreReal

LEMMA WriteStep ==
  ASSUME TreasuryInv, NEW call \in answered,
         \/ InsertRow(call) \/ CompleteRow(call) \/ InsertRefundEvent(call)
         \/ LoseAnswer(call)
  PROVE  TreasuryInv'
<1>1. /\ call \in Calls /\ row \in [Ids -> RowStatus] /\ refundEvents \in 0 .. 1
      /\ RowsAreReal /\ AnswersAreReal
  BY DEF TreasuryInv, DeskTypeOK, AccountsAgree
<1>2. /\ UNCHANGED treasuryVars /\ answered' = answered \ {call}
      /\ answered' \subseteq answered
  BY DEF InsertRow, CompleteRow, InsertRefundEvent, LoseAnswer
<1>3. UNCHANGED <<executed, refunded>>
  BY <1>2 DEF treasuryVars, withdrawals, refundState
<1>4. \/ /\ call.op \in {"requested", "parked", "approved"} /\ call.id \in Ids
         /\ call = Call(call.op, call.id)
      \/ call = Call("refunded", 0) /\ call.op = "refunded"
  <2>1. CASE \E op \in {"requested", "parked", "approved"}, id \in Ids : call = Call(op, id)
    BY <2>1 DEF Call
  <2>2. CASE call = Call("refunded", 0)
    BY <2>2 DEF Call
  <2>. QED BY <1>1, <2>1, <2>2 DEF Calls
<1>5. CASE InsertRow(call)
  <2>1. /\ call.op \in {"requested", "parked"} /\ UNCHANGED refundEvents
        /\ row' = [row EXCEPT ![call.id] =
                     IF call.op = "requested" THEN "completed" ELSE "pending_auditor"]
    BY <1>5 DEF InsertRow
  <2>2. row' \in [Ids -> RowStatus]
    BY <1>1, <2>1 DEF RowStatus
  <2>3. call.op = "requested" => executed[call.id] > 0
    BY <1>1, <1>4, <2>1 DEF AnswersAreReal
  <2>4. RowsAreReal'
    BY <1>1, <1>3, <2>1, <2>3 DEF RowsAreReal
  <2>5. AnswersAreReal'
    BY <1>1, <1>2, <2>1, AnswersFrame
  <2>. QED BY <1>1, <1>2, <2>1, <2>2, <2>4, <2>5, WriteFrame
<1>6. CASE CompleteRow(call)
  <2>1. /\ call.op = "approved" /\ UNCHANGED refundEvents
        /\ row' = IF row[call.id] = "pending_auditor"
                  THEN [row EXCEPT ![call.id] = "completed"] ELSE row
    BY <1>6 DEF CompleteRow
  <2>2. row' \in [Ids -> RowStatus]
    BY <1>1, <2>1 DEF RowStatus
  <2>3. executed[call.id] > 0
    BY <1>1, <1>4, <2>1 DEF AnswersAreReal
  <2>4. RowsAreReal'
    BY <1>1, <1>3, <2>1, <2>3 DEF RowsAreReal
  <2>5. AnswersAreReal'
    BY <1>1, <1>2, <2>1, AnswersFrame
  <2>. QED BY <1>1, <1>2, <2>1, <2>2, <2>4, <2>5, WriteFrame
<1>7. CASE InsertRefundEvent(call)
  <2>1. call.op = "refunded" /\ refundEvents' = refundEvents + 1 /\ UNCHANGED row
    BY <1>7 DEF InsertRefundEvent
  <2>2. call = Call("refunded", 0)
    BY <1>4, <2>1
  <2>3. refunded /\ refundEvents = 0
    BY <1>1, <2>2 DEF AnswersAreReal
  <2>4. refundEvents' \in 0 .. 1
    BY <2>1, <2>3
  <2>5. RowsAreReal'
    BY <1>1, <1>3, <2>1, <2>3 DEF RowsAreReal
  <2>6. AnswersAreReal'
    BY <1>1, <1>2, <2>2, AnswersFrame
  <2>. QED BY <1>1, <1>2, <2>1, <2>4, <2>5, <2>6, WriteFrame
<1>8. CASE LoseAnswer(call)
  <2>1. UNCHANGED <<row, refundEvents>>
    BY <1>8 DEF LoseAnswer
  <2>2. RowsAreReal'
    BY <1>1, <1>3, <2>1 DEF RowsAreReal
  <2>3. AnswersAreReal'
    BY <1>1, <1>2, <2>1, AnswersFrame
  <2>. QED BY <1>1, <1>2, <2>1, <2>2, <2>3, WriteFrame
<1>. QED BY <1>5, <1>6, <1>7, <1>8

(* The pause, transfers from outside and the clock touch no record. *)
LEMMA OutsideStep ==
  ASSUME TreasuryInv, UNCHANGED deskVars,
         \/ \E flag \in BOOLEAN : SetPaused(flag)
         \/ \E a \in TransferAmounts : TransferIn(a)
         \/ Tick
  PROVE  TreasuryInv'
<1>1. /\ now \in Nat /\ held \in Nat /\ arrived \in Nat /\ IdsInOrder
      /\ paused \in BOOLEAN /\ contributions \in [Contributors -> Nat]
  BY DEF TreasuryInv, DeskTypeOK, TreasuryTypeOK
<1>2. /\ UNCHANGED <<configuration, books, withdrawals, numbering, refundState, parked>>
      /\ UNCHANGED <<row, answered, refundEvents>>
  BY DEF SetPaused, TransferIn, Tick, deskVars
<1>3. now' \in Nat /\ now' >= now
  BY <1>1 DEF SetPaused, TransferIn, Tick
<1>4. held' \in Nat /\ arrived' \in Nat
  BY <1>1, TreasuryAmountsAssumption DEF SetPaused, TransferIn, Tick
<1>5. paused' \in BOOLEAN
  BY <1>1, Zenon DEF SetPaused, TransferIn, Tick
<1>6. /\ UNCHANGED <<policy, hasAuditor, contributions, totalReceived>>
      /\ UNCHANGED <<totalWithdrawn, lastWithdrawalAt, executed, approvedBy>>
      /\ UNCHANGED <<executedAt, refunded, refundPaid, refundPool>>
      /\ UNCHANGED <<nextId, requestedAt, withdrawnAtRefund>>
  BY <1>2 DEF configuration, books, withdrawals, numbering, refundState
<1>7. DeskTypeOK'
  BY <1>2, <1>3, <1>4, <1>5, <1>6 DEF TreasuryInv, DeskTypeOK, TreasuryTypeOK
<1>8. PolicyKept' /\ BooksBalance' /\ TimesRecorded'
  BY <1>2, <1>3, <1>6, PolicyFrame, BooksFrame, TimesFrame
<1>9. NothingReturned' /\ RefundReturnsPool'
  BY <1>1, <1>2, <1>6, RefundFrame
<1>10. IdsInOrder' /\ RowsAreReal' /\ AnswersAreReal'
  <2>1. IdsInOrder'
    BY <1>1, <1>2, <1>6 DEF IdsInOrder
  <2>. QED BY <1>2, <1>6, <2>1, DeskFrame
<1>. QED BY <1>7, <1>8, <1>9, <1>10 DEF TreasuryInv, AccountsAgree

---------------------------------------------------------------------------
(* Empty books agree, and no withdrawal has broken the policy. *)
LEMMA TreasuryInit ==
  ASSUME DeskInit
  PROVE  TreasuryInv
<1>1. /\ Init /\ row = [id \in Ids |-> "none"] /\ answered = {} /\ refundEvents = 0
  BY DEF DeskInit
<1>2. /\ now \in 1 .. MaxTime /\ totalReceived = 0 /\ totalWithdrawn = 0
      /\ lastWithdrawalAt = 0 /\ ~refunded /\ approvedBy = {} /\ refundPool = 0
      /\ contributions = [c \in Contributors |-> 0]
      /\ refundPaid = [c \in Contributors |-> 0]
      /\ parked = [id \in Ids |-> 0] /\ executed = [id \in Ids |-> 0]
      /\ requestedAt = [id \in Ids |-> 0]
  BY <1>1 DEF Init
<1>3. \A id \in Ids : executed[id] = 0 /\ parked[id] = 0 /\ requestedAt[id] = 0
  BY <1>2
<1>4. DeskTypeOK
  <2>1. now \in Nat
    BY <1>2, TreasuryBoundsAssumption
  <2>2. row \in [Ids -> RowStatus] /\ answered \subseteq Calls /\ refundEvents \in 0 .. 1
    BY <1>1 DEF RowStatus
  <2>3. hasAuditor \in BOOLEAN /\ paused \in BOOLEAN /\ refunded \in BOOLEAN
    BY <1>1 DEF Init
  <2>. QED BY <1>1, <2>1, <2>2, <2>3 DEF Init, DeskTypeOK, TreasuryTypeOK
<1>5. Recorded = {}
  BY <1>3 DEF Recorded
<1>6. PolicyKept /\ IdsInOrder
  BY <1>3, <1>5 DEF PolicyKept, HeldAndAudited, CooldownBeforeRequest,
               CooldownUnlessAudited, IdsInOrder
<1>7. TimesRecorded
  <2>1. now >= 1 /\ lastWithdrawalAt <= now
    BY <1>2, TreasuryBoundsAssumption
  <2>. QED BY <1>2, <1>3, <1>5, <2>1 DEF TimesRecorded
<1>8. NothingReturned /\ AnswersAreReal
  BY <1>1, <1>2 DEF NothingReturned, AnswersAreReal
<1>9. BooksBalance
  <2>1. Total(contributions) = 0 /\ Total(executed) = 0
    BY <1>2, TotalZero
  <2>. QED BY <1>2, <2>1
       DEF BooksBalance, ReceivedIsSum, HistoryIsComplete, NeverOverdrawn
<1>10. RefundReturnsPool
  <2>1. Total(refundPaid) = 0 /\ Cardinality(Contributors) \in Nat
    BY <1>2, TotalZero, ContributorsAssumption, FS_CardinalityType
  <2>. QED BY <1>2, <2>1 DEF RefundReturnsPool
<1>11. RowsAreReal
  BY <1>1, <1>3 DEF RowsAreReal
<1>. QED BY <1>4, <1>6, <1>7, <1>8, <1>9, <1>10, <1>11 DEF TreasuryInv, AccountsAgree

LEMMA TreasuryNext ==
  ASSUME TreasuryInv, [DeskNext]_vars
  PROVE  TreasuryInv'
<1>1. CASE \E c \in Contributors, a \in ContributionAmounts : IndexContribution(c, a)
  BY <1>1, IndexStep
<1>2. CASE \E a \in WithdrawalAmounts : RequestWithdrawal(a)
  <2>1. PICK a \in WithdrawalAmounts : RequestWithdrawal(a)
    BY <1>2
  <2>. QED BY <2>1, ParkStep, AtOnceStep DEF RequestWithdrawal
<1>3. CASE \E id \in Ids : ApprovePendingWithdrawal(id)
  BY <1>3, ApproveStep
<1>4. CASE RequestAutoRefund
  BY <1>4, RefundStep
<1>5. CASE \E call \in answered : \/ InsertRow(call) \/ CompleteRow(call)
                                  \/ InsertRefundEvent(call) \/ LoseAnswer(call)
  BY <1>5, WriteStep
<1>6. CASE /\ \/ \E flag \in BOOLEAN : SetPaused(flag)
              \/ \E a \in TransferAmounts : TransferIn(a)
              \/ Tick
           /\ UNCHANGED deskVars
  BY <1>6, OutsideStep
<1>7. CASE UNCHANGED vars
  <2>1. UNCHANGED treasuryVars /\ UNCHANGED <<row, answered, refundEvents>>
    BY <1>7 DEF vars, deskVars
  <2>2. /\ row \in [Ids -> RowStatus] /\ refundEvents \in 0 .. 1
        /\ RowsAreReal /\ AnswersAreReal
    BY DEF TreasuryInv, DeskTypeOK, AccountsAgree
  <2>3. UNCHANGED <<executed, refunded>>
    BY <2>1 DEF treasuryVars, withdrawals, refundState
  <2>4. RowsAreReal' /\ AnswersAreReal'
    BY <2>1, <2>2, <2>3 DEF RowsAreReal, AnswersAreReal
  <2>. QED BY <2>1, <2>2, <2>4, WriteFrame
<1>. QED BY <1>1, <1>2, <1>3, <1>4, <1>5, <1>6, <1>7 DEF DeskNext

(* The inductive invariant of the treasury and its desk. *)
THEOREM TreasuryInvariance == DeskSpec => []TreasuryInv
<1>1. DeskInit => TreasuryInv
  BY TreasuryInit
<1>2. TreasuryInv /\ [DeskNext]_vars => TreasuryInv'
  BY TreasuryNext
<1>. QED BY <1>1, <1>2, PTL DEF DeskSpec

(* Every variable of the contract and of the desk keeps its type: no total  *)
(* and no balance goes below zero, and at most one row records the refund.  *)
THEOREM DeskTypeCorrect == DeskSpec => []DeskTypeOK
<1>1. TreasuryInv => DeskTypeOK
  BY DEF TreasuryInv
<1>. QED BY <1>1, TreasuryInvariance, PTL

(* Every withdrawal ever paid came after the hold, and with an auditor      *)
(* above the threshold; when one is requested the cooldown of those paid    *)
(* before is over, and one that no auditor released is paid when it is      *)
(* requested.  The totals are the sums of the rows behind them; neither the *)
(* withdrawals nor the refund with those before it exceed what was booked   *)
(* (what is withdrawn after a refund is counted in the first sum alone); a  *)
(* refund returns the pool up to the rounding; and the database claims      *)
(* nothing that did not happen.                                             *)
THEOREM WithdrawalsSound == DeskSpec => []WithdrawalsAreSound
<1>1. TreasuryInv => WithdrawalsAreSound
  BY DEF TreasuryInv, WithdrawalsAreSound
<1>. QED BY <1>1, TreasuryInvariance, PTL

(* The ids in use are below the next one, so that no request can take the   *)
(* place of a parked withdrawal: it stays as it is until an auditor's       *)
(* approval pays exactly what was parked.                                   *)
LEMMA ParkedStep ==
  ASSUME TreasuryInv, [DeskNext]_vars, NEW id \in Ids, parked[id] > 0
  PROVE  \/ parked'[id] = parked[id]
         \/ parked'[id] = 0 /\ executed'[id] = parked[id] /\ id \in approvedBy'
<1>1. /\ parked \in [Ids -> Nat] /\ executed \in [Ids -> Nat] /\ approvedBy \subseteq Ids
      /\ nextId \in Nat /\ id < nextId /\ id \in Nat
  <2>1. TreasuryTypeOK /\ IdsInOrder
    BY DEF TreasuryInv, DeskTypeOK
  <2>2. parked \in [Ids -> Nat] /\ executed \in [Ids -> Nat] /\ approvedBy \subseteq Ids
    BY <2>1, Zenon DEF TreasuryTypeOK
  <2>3. nextId \in Nat /\ id \in Nat
    BY <2>1, TreasuryBoundsAssumption DEF TreasuryTypeOK, Ids
  <2>4. id < nextId
    BY <2>1, <2>2, <2>3 DEF IdsInOrder
  <2>. QED BY <2>2, <2>3, <2>4
<1>2. CASE \E a \in WithdrawalAmounts : RequestWithdrawal(a)
  <2>1. UNCHANGED parked \/ \E a \in WithdrawalAmounts :
                              nextId \in Ids /\ parked' = [parked EXCEPT ![nextId] = a]
    BY <1>2 DEF RequestWithdrawal, WithdrawAtOnce, ParkWithdrawal
  <2>. QED BY <1>1, <2>1
<1>3. CASE \E i \in Ids : ApprovePendingWithdrawal(i)
  <2>1. PICK i \in Ids : ApprovePendingWithdrawal(i)
    BY <1>3
  <2>2. /\ parked' = [parked EXCEPT ![i] = 0]
        /\ executed' = [executed EXCEPT ![i] = parked[i]]
        /\ approvedBy' = approvedBy \cup {i}
    BY <2>1 DEF ApprovePendingWithdrawal, ApproveWithdrawal, Execute
  <2>. QED BY <1>1, <2>2
<1>4. CASE ~(\/ \E a \in WithdrawalAmounts : RequestWithdrawal(a)
             \/ \E i \in Ids : ApprovePendingWithdrawal(i))
  <2>1. UNCHANGED parked
    BY <1>4 DEF DeskNext, IndexContribution, ReceiveContribution, RequestAutoRefund,
       TriggerAutoRefund, InsertRow, CompleteRow, InsertRefundEvent, LoseAnswer,
       SetPaused, TransferIn, Tick, vars, treasuryVars
  <2>. QED BY <2>1
<1>. QED BY <1>2, <1>3, <1>4

THEOREM ParkedStaysPayable == DeskSpec => ParkedUntilPaid
<1>1. TreasuryInv /\ [DeskNext]_vars =>
        [\A id \in Ids : parked[id] > 0 =>
           \/ parked'[id] = parked[id]
           \/ parked'[id] = 0 /\ executed'[id] = parked[id] /\ id \in approvedBy']_vars
  BY ParkedStep
<1>. QED BY <1>1, TreasuryInvariance, PTL DEF DeskSpec, ParkedUntilPaid
===========================================================================
