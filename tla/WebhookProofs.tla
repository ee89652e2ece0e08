---------------------------- MODULE WebhookProofs ----------------------------
(***************************************************************************)
(* For any number of workers, attempts, replays and failures: the types,   *)
(* the bound on requests, what the history of attempts and the dead        *)
(* letters say, and that WebhookDelivery keeps the promise of              *)
(* WebhookPromise.  The inductive invariant is the conjunction of the      *)
(* types with RequestsCounted, DeliveringIsCounted, SuccessIsRecorded and  *)
(* the properties themselves.                                              *)
(***************************************************************************)
EXTENDS WebhookDelivery, FiniteSetTheorems, TLAPS

---------------------------------------------------------------------------
(* Types, in five parts that the provers take one at a time.               *)
WorkerStates == [Workers -> [at : Places, attempt : 0 .. MaxAttempts]]

RowTypeOK ==
  /\ status \in Statuses
  /\ attemptCount \in 0 .. MaxAttempts
  /\ lease \in Workers \cup {NoLease}
  /\ lease # NoLease <=> status = "delivering"

FlagsTypeOK == due \in BOOLEAN /\ usable \in BOOLEAN /\ deadLetter \in BOOLEAN

CountsTypeOK ==
  calls \in Nat /\ replays \in Nat /\ failures \in Nat /\ requests \in Nat

HistoryTypeOK == history \in [Numbers -> {"none", "started", "succeeded", "failed"}]

LEMMA TypeParts ==
  WebhookTypeOK <=> /\ RowTypeOK /\ FlagsTypeOK /\ CountsTypeOK
                    /\ HistoryTypeOK /\ worker \in WorkerStates
BY DEF WebhookTypeOK, RowTypeOK, FlagsTypeOK, CountsTypeOK,
       HistoryTypeOK, WorkerStates

LEMMA IdleType == Idle \in [at : Places, attempt : 0 .. MaxAttempts]
BY AttemptsAssumption DEF Idle, Places

(* Steps that leave the attempts' history alone, and those of one worker   *)
(* that only move it.                                                      *)
KeepsHistory ==
  \/ TimePasses \/ Emit \/ Revoke \/ OwnerReplays \/ AdminReplays
  \/ \E w \in Workers :
       \/ CallFromMemory(w) \/ CallFromPoller(w) \/ NotClaimed(w)
       \/ FailUnclaimable(w) \/ Send(w) \/ RecordDelivered(w)
       \/ RecordFailure(w) \/ RecordBlocked(w) \/ CreateDeadLetter(w)
       \/ WorkerFails(w)

LEMMA HistoryKept == ASSUME KeepsHistory PROVE history' = history
<1>1. CASE TimePasses \/ Emit \/ Revoke \/ OwnerReplays \/ AdminReplays
  BY <1>1 DEF TimePasses, Emit, Revoke, OwnerReplays, AdminReplays, Requeue
<1>2. ASSUME NEW w \in Workers,
             \/ CallFromMemory(w) \/ CallFromPoller(w) \/ NotClaimed(w)
             \/ FailUnclaimable(w) \/ Send(w) \/ CreateDeadLetter(w)
             \/ WorkerFails(w)
      PROVE  history' = history
  BY <1>2 DEF CallFromMemory, CallFromPoller, NotClaimed, FailUnclaimable,
              Send, CreateDeadLetter, WorkerFails
<1>3. ASSUME NEW w \in Workers,
             RecordDelivered(w) \/ RecordFailure(w) \/ RecordBlocked(w)
      PROVE  history' = history
  BY <1>3 DEF RecordDelivered, RecordFailure, RecordBlocked
<1>. QED BY <1>1, <1>2, <1>3 DEF KeepsHistory

LEMMA RowStep ==
  ASSUME RowTypeOK, [Next]_deliveryVars
  PROVE  RowTypeOK'
<1>. USE WorkersAssumption, AttemptsAssumption DEF RowTypeOK
<1>1. CASE TimePasses
  BY <1>1 DEF TimePasses
<1>2. CASE Emit
  BY <1>2 DEF Emit, Statuses
<1>3. ASSUME NEW w \in Workers, Claim(w) PROVE RowTypeOK'
  BY <1>3 DEF Claim, MayClaim, Statuses
<1>4. ASSUME NEW w \in Workers, FailUnclaimable(w) PROVE RowTypeOK'
  BY <1>4 DEF FailUnclaimable, Statuses
<1>5. ASSUME NEW w \in Workers,
             RecordDelivered(w) \/ RecordFailure(w) \/ RecordBlocked(w)
      PROVE  RowTypeOK'
  BY <1>5 DEF RecordDelivered, RecordFailure, RecordBlocked, Finish, Statuses
<1>6. ASSUME NEW w \in Workers,
             \/ CallFromMemory(w) \/ CallFromPoller(w) \/ NotClaimed(w)
             \/ Send(w) \/ LogSuccess(w) \/ LogFailure(w)
             \/ LogLastFailure(w) \/ CreateDeadLetter(w) \/ WorkerFails(w)
      PROVE  RowTypeOK'
  BY <1>6 DEF CallFromMemory, CallFromPoller, NotClaimed, Send, LogSuccess,
              LogFailure, LogLastFailure, CreateDeadLetter, WorkerFails, row
<1>7. CASE OwnerReplays \/ AdminReplays
  BY <1>7 DEF OwnerReplays, AdminReplays, Requeue, Statuses
<1>8. CASE Revoke \/ UNCHANGED deliveryVars
  BY <1>8 DEF deliveryVars, row, Revoke
<1>. QED
  BY <1>1, <1>2, <1>3, <1>4, <1>5, <1>6, <1>7, <1>8 DEF Next, WorkerStep

LEMMA FlagsStep ==
  ASSUME FlagsTypeOK, [Next]_deliveryVars
  PROVE  FlagsTypeOK'
<1>. USE DEF FlagsTypeOK
<1>1. CASE TimePasses \/ Emit
  BY <1>1, Zenon DEF TimePasses, Emit, bounds
<1>2. CASE Revoke \/ UNCHANGED deliveryVars
  BY <1>2, Zenon DEF Revoke, row, bounds, deliveryVars
<1>3. CASE OwnerReplays \/ AdminReplays
  BY <1>3, Zenon DEF OwnerReplays, AdminReplays, Requeue
<1>4. ASSUME NEW w \in Workers,
             CallFromMemory(w) \/ CallFromPoller(w) \/ NotClaimed(w) \/ Send(w)
      PROVE  FlagsTypeOK'
  BY <1>4, Zenon DEF CallFromMemory, CallFromPoller, NotClaimed, Send, row, bounds
<1>5. ASSUME NEW w \in Workers, LogSuccess(w) \/ LogFailure(w) \/ LogLastFailure(w)
      PROVE  FlagsTypeOK'
  BY <1>5, Zenon DEF LogSuccess, LogFailure, LogLastFailure, row, bounds
<1>6. ASSUME NEW w \in Workers, CreateDeadLetter(w) \/ WorkerFails(w)
      PROVE  FlagsTypeOK'
  BY <1>6, Zenon DEF CreateDeadLetter, WorkerFails, row, bounds
<1>7. ASSUME NEW w \in Workers, Claim(w) \/ FailUnclaimable(w)
      PROVE  FlagsTypeOK'
  BY <1>7, Zenon DEF Claim, FailUnclaimable, bounds
<1>8. ASSUME NEW w \in Workers,
             RecordDelivered(w) \/ RecordFailure(w) \/ RecordBlocked(w)
      PROVE  FlagsTypeOK'
  BY <1>8, Zenon DEF RecordDelivered, RecordFailure, RecordBlocked, Finish, bounds
<1>. QED
  BY <1>1, <1>2, <1>3, <1>4, <1>5, <1>6, <1>7, <1>8 DEF Next, WorkerStep

LEMMA CountsStep ==
  ASSUME CountsTypeOK, [Next]_deliveryVars
  PROVE  CountsTypeOK'
<1>. USE DEF CountsTypeOK
<1>1. CASE TimePasses \/ Emit
  BY <1>1 DEF TimePasses, Emit, bounds
<1>2. CASE Revoke \/ UNCHANGED deliveryVars
  BY <1>2 DEF Revoke, row, bounds, deliveryVars
<1>3. CASE OwnerReplays \/ AdminReplays
  BY <1>3 DEF OwnerReplays, AdminReplays, Requeue
<1>4. ASSUME NEW w \in Workers,
             CallFromMemory(w) \/ CallFromPoller(w) \/ NotClaimed(w) \/ Send(w)
      PROVE  CountsTypeOK'
  BY <1>4 DEF CallFromMemory, CallFromPoller, NotClaimed, Send, row, bounds
<1>5. ASSUME NEW w \in Workers, LogSuccess(w) PROVE CountsTypeOK'
  BY <1>5 DEF LogSuccess, bounds
<1>9. ASSUME NEW w \in Workers, LogFailure(w) PROVE CountsTypeOK'
  <2>. calls' = calls + 1 /\ UNCHANGED <<replays, failures, requests>>
    BY <1>9 DEF LogFailure, bounds
  <2>. QED OBVIOUS
<1>10. ASSUME NEW w \in Workers, LogLastFailure(w) PROVE CountsTypeOK'
  BY <1>10 DEF LogLastFailure, bounds
<1>6. ASSUME NEW w \in Workers, CreateDeadLetter(w) \/ WorkerFails(w)
      PROVE  CountsTypeOK'
  BY <1>6 DEF CreateDeadLetter, WorkerFails, row, bounds
<1>7. ASSUME NEW w \in Workers, Claim(w) \/ FailUnclaimable(w)
      PROVE  CountsTypeOK'
  BY <1>7 DEF Claim, FailUnclaimable, bounds
<1>8. ASSUME NEW w \in Workers,
             RecordDelivered(w) \/ RecordFailure(w) \/ RecordBlocked(w)
      PROVE  CountsTypeOK'
  BY <1>8 DEF RecordDelivered, RecordFailure, RecordBlocked, Finish, bounds
<1>. QED
  BY <1>1, <1>2, <1>3, <1>4, <1>5, <1>6, <1>7, <1>8, <1>9, <1>10
  DEF Next, WorkerStep

LEMMA HistoryStep ==
  ASSUME RowTypeOK, HistoryTypeOK, [Next]_deliveryVars
  PROVE  HistoryTypeOK'
<1>1. ASSUME NEW w \in Workers, Claim(w) PROVE HistoryTypeOK'
  BY <1>1 DEF Claim, HistoryTypeOK
<1>2. ASSUME NEW w \in Workers, LogSuccess(w) PROVE HistoryTypeOK'
  BY <1>2 DEF LogSuccess, HistoryTypeOK
<1>3. ASSUME NEW w \in Workers, LogFailure(w) \/ LogLastFailure(w)
      PROVE  HistoryTypeOK'
  <2>1. LoggedFailure(w)
    BY <1>3 DEF LogFailure, LogLastFailure
  <2>. QED BY <2>1 DEF LoggedFailure, HistoryTypeOK
<1>4. CASE UNCHANGED deliveryVars
  BY <1>4 DEF deliveryVars, HistoryTypeOK
<1>5. CASE KeepsHistory
  <2>1. history' = history BY <1>5, HistoryKept
  <2>. QED BY <2>1 DEF HistoryTypeOK
<1>. QED
  BY <1>1, <1>2, <1>3, <1>4, <1>5 DEF Next, WorkerStep, KeepsHistory
LEMMA WorkersStep ==
  ASSUME RowTypeOK, worker \in WorkerStates, [Next]_deliveryVars
  PROVE  worker' \in WorkerStates
<1>. USE DEF WorkerStates
<1>1. ASSUME NEW w \in Workers, NEW p \in Places, Goto(w, p)
      PROVE  worker' \in WorkerStates
  BY <1>1 DEF Goto
<1>2. ASSUME NEW w \in Workers, Return(w) PROVE worker' \in WorkerStates
  BY <1>2, IdleType DEF Return
<1>3. CASE worker' = worker
  BY <1>3
<1>4. ASSUME NEW w \in Workers, Claim(w) PROVE worker' \in WorkerStates
  <2>1. [at |-> "sending", attempt |-> attemptCount + 1]
          \in [at : Places, attempt : 0 .. MaxAttempts]
    <3>1. attemptCount + 1 \in 0 .. MaxAttempts
      BY <1>4, AttemptsAssumption DEF Claim, MayClaim, RowTypeOK
    <3>2. "sending" \in Places
      BY DEF Places
    <3>. QED BY <3>1, <3>2
  <2>2. worker' = [worker EXCEPT ![w] =
                     [at |-> "sending", attempt |-> attemptCount + 1]]
    BY <1>4 DEF Claim
  <2>. QED BY <2>1, <2>2
<1>. HIDE DEF WorkerStates
<1>5. ASSUME NEW w \in Workers,
             CallFromMemory(w) \/ CallFromPoller(w) \/ NotClaimed(w) \/ Send(w)
      PROVE  worker' \in WorkerStates
  BY <1>5, <1>1 DEF CallFromMemory, CallFromPoller, NotClaimed, Send, Places
<1>6. ASSUME NEW w \in Workers,
             \/ FailUnclaimable(w) \/ RecordDelivered(w)
             \/ RecordFailure(w) \/ RecordBlocked(w)
      PROVE  worker' \in WorkerStates
  BY <1>6, <1>1, <1>2 DEF FailUnclaimable, RecordDelivered, RecordFailure,
                          RecordBlocked, Places
<1>7. ASSUME NEW w \in Workers,
             \/ LogSuccess(w) \/ LogFailure(w) \/ LogLastFailure(w)
             \/ CreateDeadLetter(w) \/ WorkerFails(w)
      PROVE  worker' \in WorkerStates
  BY <1>7, <1>1, <1>2 DEF LogSuccess, LogFailure, LogLastFailure,
                          CreateDeadLetter, WorkerFails, Places
<1>8. CASE \/ TimePasses \/ Emit \/ Revoke \/ OwnerReplays \/ AdminReplays
           \/ UNCHANGED deliveryVars
  BY <1>8, <1>3 DEF TimePasses, Emit, Revoke, OwnerReplays, AdminReplays, Requeue,
                    deliveryVars
<1>. QED BY <1>4, <1>5, <1>6, <1>7, <1>8 DEF Next, WorkerStep

(* Types: whatever the workers do, a delivery makes at most MaxAttempts    *)
(* attempts between replays, and its lease exists exactly while it is      *)
(* being delivered.                                                        *)
THEOREM TypeCorrect == Spec => []WebhookTypeOK
<1>1. Init => WebhookTypeOK
  <2>. SUFFICES ASSUME Init PROVE WebhookTypeOK
    OBVIOUS
  <2>1. RowTypeOK
    BY AttemptsAssumption DEF Init, RowTypeOK, Statuses
  <2>2. FlagsTypeOK
    BY Zenon DEF Init, FlagsTypeOK
  <2>3. CountsTypeOK
    BY DEF Init, CountsTypeOK
  <2>4. HistoryTypeOK
    BY DEF Init, HistoryTypeOK
  <2>5. worker \in WorkerStates
    BY IdleType DEF Init, WorkerStates
  <2>. QED BY <2>1, <2>2, <2>3, <2>4, <2>5, TypeParts
<1>2. WebhookTypeOK /\ [Next]_deliveryVars => WebhookTypeOK'
  <2>. SUFFICES ASSUME WebhookTypeOK, [Next]_deliveryVars PROVE WebhookTypeOK'
    OBVIOUS
  <2>1. RowTypeOK' /\ FlagsTypeOK' /\ CountsTypeOK' /\ HistoryTypeOK'
        /\ worker' \in WorkerStates
    BY TypeParts, RowStep, FlagsStep, CountsStep, HistoryStep, WorkersStep
  <2>. QED BY <2>1 DEF WebhookTypeOK, RowTypeOK, FlagsTypeOK, CountsTypeOK,
                       HistoryTypeOK, WorkerStates
<1>. QED BY <1>1, <1>2, PTL DEF Spec

---------------------------------------------------------------------------
(* Every attempt counted since the last replay accounts for one request, *)
(* sent already or about to be sent by the worker that claimed it.       *)
Sending == {w \in Workers : worker[w].at = "sending"}

RequestsCounted ==
  requests + Cardinality(Sending) <= MaxAttempts * replays + attemptCount

LEMMA SendingIsFinite ==
  IsFiniteSet(Sending) /\ Cardinality(Sending) \in Nat
<1>1. Sending \subseteq Workers
  BY DEF Sending
<1>. QED BY <1>1, WorkersAssumption, FS_Subset, FS_CardinalityType

LEMMA SendingShrinks ==
  ASSUME Sending' \subseteq Sending
  PROVE  Cardinality(Sending') \in Nat /\ Cardinality(Sending') <= Cardinality(Sending)
BY SendingIsFinite, FS_Subset, FS_CardinalityType

(* Only a claim makes a worker one that is about to send. *)
LEMMA OthersDoNotSend ==
  ASSUME worker \in WorkerStates, [Next]_deliveryVars,
         ~ \E w \in Workers : Claim(w)
  PROVE  Sending' \subseteq Sending
<1>. USE DEF Sending
<1>1. ASSUME NEW w \in Workers, NEW p, p # "sending", Goto(w, p)
      PROVE  Sending' \subseteq Sending
  BY <1>1 DEF Goto, WorkerStates
<1>2. ASSUME NEW w \in Workers, Return(w) PROVE Sending' \subseteq Sending
  BY <1>2 DEF Return, Idle, WorkerStates
<1>3. ASSUME worker' = worker PROVE Sending' \subseteq Sending
  BY <1>3
<1>. HIDE DEF Sending
<1>4. ASSUME NEW w \in Workers,
             CallFromMemory(w) \/ CallFromPoller(w) \/ NotClaimed(w) \/ Send(w)
      PROVE  Sending' \subseteq Sending
  BY <1>4, <1>1 DEF CallFromMemory, CallFromPoller, NotClaimed, Send
<1>5. ASSUME NEW w \in Workers,
             \/ FailUnclaimable(w) \/ RecordDelivered(w)
             \/ RecordFailure(w) \/ RecordBlocked(w)
      PROVE  Sending' \subseteq Sending
  BY <1>5, <1>1, <1>2 DEF FailUnclaimable, RecordDelivered, RecordFailure,
                          RecordBlocked
<1>6. ASSUME NEW w \in Workers,
             \/ LogSuccess(w) \/ LogFailure(w) \/ LogLastFailure(w)
             \/ CreateDeadLetter(w) \/ WorkerFails(w)
      PROVE  Sending' \subseteq Sending
  BY <1>6, <1>1, <1>2 DEF LogSuccess, LogFailure, LogLastFailure,
                          CreateDeadLetter, WorkerFails
<1>7. CASE \/ TimePasses \/ Emit \/ Revoke \/ OwnerReplays \/ AdminReplays
           \/ UNCHANGED deliveryVars
  BY <1>7, <1>3 DEF TimePasses, Emit, Revoke, OwnerReplays, AdminReplays,
                    Requeue, deliveryVars
<1>. QED BY <1>4, <1>5, <1>6, <1>7 DEF Next, WorkerStep

LEMMA RequestsStep ==
  ASSUME WebhookTypeOK, RequestsCounted, [Next]_deliveryVars
  PROVE  RequestsCounted'
<1>. DEFINE n == Cardinality(Sending)
            m == Cardinality(Sending')
            limit == MaxAttempts * replays
<1>1. /\ attemptCount \in 0 .. MaxAttempts /\ requests \in Nat
      /\ replays \in Nat /\ MaxAttempts \in Nat /\ n \in Nat /\ limit \in Nat
      /\ worker \in WorkerStates
  BY SendingIsFinite, AttemptsAssumption DEF WebhookTypeOK, WorkerStates
<1>2. requests + n <= limit + attemptCount
  BY DEF RequestsCounted
<1>3. ASSUME NEW w \in Workers, Claim(w) PROVE RequestsCounted'
  <2>1. Sending' = Sending \cup {w} /\ w \notin Sending
    BY <1>1, <1>3 DEF Claim, Sending, WorkerStates
  <2>2. m = n + 1
    BY <2>1, SendingIsFinite, FS_AddElement
  <2>3. requests' = requests /\ replays' = replays /\ attemptCount' = attemptCount + 1
    BY <1>3 DEF Claim, bounds
  <2>4. requests + m <= limit + (attemptCount + 1)
    BY <1>1, <1>2, <2>2
  <2>. QED BY <2>3, <2>4 DEF RequestsCounted
<1>4. ASSUME NEW w \in Workers, Send(w) PROVE RequestsCounted'
  <2>1. Sending' = Sending \ {w} /\ w \in Sending
    BY <1>1, <1>4 DEF Send, Goto, Sending, WorkerStates
  <2>2. m = n - 1
    BY <2>1, SendingIsFinite, FS_RemoveElement
  <2>3. /\ requests' \in {requests, requests + 1}
        /\ replays' = replays /\ attemptCount' = attemptCount
    BY <1>4 DEF Send, row, bounds
  <2>4. requests' + m <= limit + attemptCount
    BY <1>1, <1>2, <2>2, <2>3
  <2>. QED BY <2>3, <2>4 DEF RequestsCounted
<1>5. CASE OwnerReplays \/ AdminReplays
  <2>1. /\ attemptCount' = 0 /\ replays' = replays + 1 /\ requests' = requests
        /\ Sending' = Sending
    BY <1>5 DEF OwnerReplays, AdminReplays, Requeue, Sending
  <2>2. MaxAttempts * (replays + 1) = limit + MaxAttempts
    BY <1>1
  <2>3. requests + n <= MaxAttempts * (replays + 1) + 0
    BY <1>1, <1>2, <2>2
  <2>. QED BY <2>1, <2>3 DEF RequestsCounted
<1>6. ASSUME ~ \E w \in Workers : Claim(w),
             attemptCount' = attemptCount, replays' = replays, requests' = requests
      PROVE  RequestsCounted'
  <2>1. m \in Nat /\ m <= n
    BY <1>1, <1>6, OthersDoNotSend, SendingShrinks
  <2>2. requests + m <= limit + attemptCount
    BY <1>1, <1>2, <2>1
  <2>. QED BY <1>6, <2>2 DEF RequestsCounted
<1>7. CASE \E w \in Workers :
             \/ CallFromMemory(w) \/ CallFromPoller(w) \/ NotClaimed(w)
             \/ FailUnclaimable(w) \/ CreateDeadLetter(w) \/ WorkerFails(w)
  <2>1. attemptCount' = attemptCount /\ replays' = replays /\ requests' = requests
    BY <1>7 DEF CallFromMemory, CallFromPoller, NotClaimed, FailUnclaimable,
                CreateDeadLetter, WorkerFails, row, bounds
  <2>. QED BY <1>3, <1>6, <2>1
<1>8. CASE \E w \in Workers :
             \/ RecordDelivered(w) \/ RecordFailure(w) \/ RecordBlocked(w)
             \/ LogSuccess(w) \/ LogFailure(w) \/ LogLastFailure(w)
  <2>1. attemptCount' = attemptCount /\ replays' = replays /\ requests' = requests
    BY <1>8 DEF RecordDelivered, RecordFailure, RecordBlocked, LogSuccess,
                LogFailure, LogLastFailure, row, bounds
  <2>. QED BY <1>3, <1>6, <2>1
<1>9. CASE TimePasses \/ Emit \/ Revoke \/ UNCHANGED deliveryVars
  <2>1. attemptCount' = attemptCount /\ replays' = replays /\ requests' = requests
    BY <1>9 DEF TimePasses, Emit, Revoke, row, bounds, deliveryVars
  <2>. QED BY <1>3, <1>6, <2>1
<1>. QED
  BY <1>3, <1>4, <1>5, <1>7, <1>8, <1>9 DEF Next, WorkerStep

(* The receiver gets at most MaxAttempts requests between two replays:     *)
(* each is one of the attempts counted, whoever died or came late.         *)
THEOREM RequestsAreBounded == Spec => []RequestsBounded
<1>1. Init => RequestsCounted
  <2>. SUFFICES ASSUME Init PROVE RequestsCounted
    OBVIOUS
  <2>1. Sending = {}
    BY DEF Init, Sending, Idle
  <2>2. Cardinality(Sending) = 0
    BY <2>1, FS_EmptySet
  <2>. QED BY <2>2, AttemptsAssumption DEF Init, RequestsCounted
<1>2. WebhookTypeOK /\ RequestsCounted /\ [Next]_deliveryVars => RequestsCounted'
  BY RequestsStep
<1>3. WebhookTypeOK /\ RequestsCounted => RequestsBounded
  <2>. SUFFICES ASSUME WebhookTypeOK, RequestsCounted PROVE RequestsBounded
    OBVIOUS
  <2>1. /\ attemptCount \in 0 .. MaxAttempts /\ requests \in Nat
        /\ replays \in Nat /\ MaxAttempts \in Nat
    BY AttemptsAssumption DEF WebhookTypeOK
  <2>2. MaxAttempts * (replays + 1) = MaxAttempts * replays + MaxAttempts
        /\ MaxAttempts * replays \in Nat
    BY <2>1
  <2>. QED BY <2>1, <2>2, SendingIsFinite DEF RequestsCounted, RequestsBounded
<1>. QED BY <1>1, <1>2, <1>3, TypeCorrect, PTL DEF Spec

---------------------------------------------------------------------------
(* While a worker has yet to log a success, the row says delivered; and    *)
(* whatever is being delivered has been attempted.                         *)
SuccessIsRecorded ==
  \A w \in Workers : worker[w].at = "logging success" => status = "delivered"

DeliveringIsCounted == status = "delivering" => attemptCount > 0

SettledRight == SuccessIsRecorded /\ DeliveringIsCounted /\ HistoryTellsDelivery

(* A delivered row stays as it is. *)
LEMMA DeliveredStays ==
  ASSUME WebhookTypeOK, [Next]_deliveryVars, status = "delivered"
  PROVE  status' = "delivered"
<1>1. ASSUME NEW w \in Workers,
             \/ CallFromMemory(w) \/ CallFromPoller(w) \/ NotClaimed(w)
             \/ Send(w) \/ CreateDeadLetter(w) \/ WorkerFails(w)
             \/ LogSuccess(w) \/ LogFailure(w) \/ LogLastFailure(w)
      PROVE  status' = "delivered"
  BY <1>1 DEF CallFromMemory, CallFromPoller, NotClaimed, Send, LogSuccess,
              LogFailure, LogLastFailure, CreateDeadLetter, WorkerFails, row
<1>2. ASSUME NEW w \in Workers, Claim(w) \/ FailUnclaimable(w)
      PROVE  status' = "delivered"
  BY <1>2 DEF Claim, FailUnclaimable, MayClaim, Claimable
<1>3. ASSUME NEW w \in Workers,
             RecordDelivered(w) \/ RecordFailure(w) \/ RecordBlocked(w)
      PROVE  status' = "delivered"
  BY <1>3 DEF RecordDelivered, RecordFailure, RecordBlocked, Owned, Finish
<1>4. CASE \/ TimePasses \/ Emit \/ Revoke \/ OwnerReplays \/ AdminReplays
           \/ UNCHANGED deliveryVars
  BY <1>4 DEF TimePasses, Emit, Revoke, OwnerReplays, AdminReplays, row,
              deliveryVars
<1>. QED BY <1>1, <1>2, <1>3, <1>4 DEF Next, WorkerStep

LEMMA SuccessStep ==
  ASSUME WebhookTypeOK, SuccessIsRecorded, [Next]_deliveryVars
  PROVE  SuccessIsRecorded'
<1>. SUFFICES ASSUME NEW v \in Workers, worker'[v].at = "logging success",
                     worker[v].at # "logging success"
              PROVE  status' = "delivered"
  BY DeliveredStays DEF SuccessIsRecorded
<1>. USE DEF WebhookTypeOK
<1>1. ASSUME NEW w \in Workers, NEW p, p # "logging success", Goto(w, p)
      PROVE  FALSE
  BY <1>1 DEF Goto
<1>2. ASSUME NEW w \in Workers, Return(w) PROVE FALSE
  BY <1>2 DEF Return, Idle
<1>. HIDE DEF WebhookTypeOK
<1>3. ASSUME NEW w \in Workers, RecordDelivered(w) PROVE status' = "delivered"
  BY <1>3, <1>2 DEF RecordDelivered, Finish
<1>4. ASSUME NEW w \in Workers, Claim(w) PROVE FALSE
  BY <1>4 DEF Claim, WebhookTypeOK
<1>5. ASSUME NEW w \in Workers,
             CallFromMemory(w) \/ CallFromPoller(w) \/ NotClaimed(w) \/ Send(w)
      PROVE  FALSE
  BY <1>5, <1>1 DEF CallFromMemory, CallFromPoller, NotClaimed, Send
<1>6. ASSUME NEW w \in Workers,
             FailUnclaimable(w) \/ RecordFailure(w) \/ RecordBlocked(w)
      PROVE  FALSE
  BY <1>6, <1>1, <1>2 DEF FailUnclaimable, RecordFailure, RecordBlocked
<1>7. ASSUME NEW w \in Workers,
             \/ LogSuccess(w) \/ LogFailure(w) \/ LogLastFailure(w)
             \/ CreateDeadLetter(w) \/ WorkerFails(w)
      PROVE  FALSE
  BY <1>7, <1>1, <1>2 DEF LogSuccess, LogFailure, LogLastFailure,
                          CreateDeadLetter, WorkerFails
<1>8. CASE \/ TimePasses \/ Emit \/ Revoke \/ OwnerReplays \/ AdminReplays
           \/ UNCHANGED deliveryVars
  BY <1>8 DEF TimePasses, Emit, Revoke, OwnerReplays, AdminReplays, Requeue,
              deliveryVars
<1>. QED BY <1>3, <1>4, <1>5, <1>6, <1>7, <1>8 DEF Next, WorkerStep

LEMMA CountedStep ==
  ASSUME WebhookTypeOK, DeliveringIsCounted, [Next]_deliveryVars
  PROVE  DeliveringIsCounted'
<1>. USE DEF DeliveringIsCounted
<1>1. ASSUME NEW w \in Workers, Claim(w) PROVE DeliveringIsCounted'
  BY <1>1 DEF Claim, WebhookTypeOK
<1>2. ASSUME NEW w \in Workers,
             \/ CallFromMemory(w) \/ CallFromPoller(w) \/ NotClaimed(w)
             \/ Send(w) \/ CreateDeadLetter(w) \/ WorkerFails(w)
             \/ LogSuccess(w) \/ LogFailure(w) \/ LogLastFailure(w)
      PROVE  DeliveringIsCounted'
  BY <1>2 DEF CallFromMemory, CallFromPoller, NotClaimed, Send, LogSuccess,
              LogFailure, LogLastFailure, CreateDeadLetter, WorkerFails, row
<1>3. ASSUME NEW w \in Workers,
             \/ FailUnclaimable(w) \/ RecordDelivered(w)
             \/ RecordFailure(w) \/ RecordBlocked(w)
      PROVE  DeliveringIsCounted'
  BY <1>3 DEF FailUnclaimable, RecordDelivered, RecordFailure, RecordBlocked,
              Finish
<1>4. CASE \/ TimePasses \/ Emit \/ Revoke \/ OwnerReplays \/ AdminReplays
           \/ UNCHANGED deliveryVars
  BY <1>4 DEF TimePasses, Emit, Revoke, OwnerReplays, AdminReplays, Requeue,
              row, deliveryVars
<1>. QED BY <1>1, <1>2, <1>3, <1>4 DEF Next, WorkerStep

LEMMA HistoryTellsStep ==
  ASSUME WebhookTypeOK, SettledRight, [Next]_deliveryVars
  PROVE  HistoryTellsDelivery'
<1>. SUFFICES ASSUME NEW n \in Numbers, history'[n] = "succeeded",
                     history[n] # "succeeded"
              PROVE  status' = "delivered"
  BY DeliveredStays DEF SettledRight, HistoryTellsDelivery
<1>1. ASSUME NEW w \in Workers, LogSuccess(w) PROVE status' = "delivered"
  <2>1. status = "delivered"
    BY <1>1 DEF LogSuccess, SettledRight, SuccessIsRecorded
  <2>. QED BY <2>1, DeliveredStays
<1>2. ASSUME NEW w \in Workers, LogFailure(w) \/ LogLastFailure(w) PROVE FALSE
  <2>1. LoggedFailure(w)
    BY <1>2 DEF LogFailure, LogLastFailure
  <2>. QED BY <2>1 DEF LoggedFailure, WebhookTypeOK
<1>3. ASSUME NEW w \in Workers, Claim(w) PROVE FALSE
  <2>1. history' \in {history, [history EXCEPT ![attemptCount + 1] =
                                  IF @ = "none" THEN "started" ELSE @]}
    BY <1>3 DEF Claim
  <2>. QED BY <2>1 DEF WebhookTypeOK
<1>4. CASE KeepsHistory \/ UNCHANGED deliveryVars
  BY <1>4, HistoryKept DEF deliveryVars
<1>. QED BY <1>1, <1>2, <1>3, <1>4 DEF Next, WorkerStep, KeepsHistory

THEOREM SettledCorrect == Spec => []SettledRight
<1>1. Init => SettledRight
  <2>. SUFFICES ASSUME Init PROVE SettledRight
    OBVIOUS
  <2>1. SuccessIsRecorded
    BY DEF Init, Idle, SuccessIsRecorded
  <2>2. DeliveringIsCounted /\ HistoryTellsDelivery
    BY DEF Init, DeliveringIsCounted, HistoryTellsDelivery
  <2>. QED BY <2>1, <2>2 DEF SettledRight
<1>2. WebhookTypeOK /\ SettledRight /\ [Next]_deliveryVars => SettledRight'
  BY SuccessStep, CountedStep, HistoryTellsStep DEF SettledRight
<1>. QED BY <1>1, <1>2, TypeCorrect, PTL DEF Spec

(* A success in the history of attempts is the delivery's own, for good:   *)
(* no worker that lost its lease can write one.                            *)
LEMMA HistoryIsTrue == Spec => []HistoryTellsDelivery
<1>1. SettledRight => HistoryTellsDelivery
  BY DEF SettledRight
<1>. QED BY <1>1, SettledCorrect, PTL

---------------------------------------------------------------------------
(* Unless a worker is lost, whoever fails a delivery goes on to bury it.   *)
Burying(w) == worker[w].at \in {"logging last failure", "burying"}

(* A dead letter, and a worker about to write one, do not go away.         *)
LEMMA BurialGoesOn ==
  ASSUME WebhookTypeOK, [Next]_deliveryVars, failures' = 0,
         deadLetter \/ \E w \in Workers : Burying(w)
  PROVE  deadLetter' \/ \E w \in Workers : Burying(w)'
<1>. DEFINE Goal == deadLetter' \/ \E w \in Workers : Burying(w)'
<1>1. CASE deadLetter
  <2>1. ASSUME NEW w \in Workers, CreateDeadLetter(w) PROVE deadLetter'
    BY <2>1, Zenon DEF CreateDeadLetter
  <2>2. CASE TimePasses \/ Emit \/ Revoke \/ OwnerReplays \/ AdminReplays
             \/ UNCHANGED deliveryVars
    BY <1>1, <2>2, Zenon DEF TimePasses, Emit, Revoke, OwnerReplays, AdminReplays,
                      Requeue, deliveryVars
  <2>3. ASSUME NEW w \in Workers,
               \/ CallFromMemory(w) \/ CallFromPoller(w) \/ NotClaimed(w)
               \/ Send(w) \/ Claim(w) \/ WorkerFails(w)
        PROVE  deadLetter'
    BY <1>1, <2>3, Zenon DEF CallFromMemory, CallFromPoller, NotClaimed, Send,
                             Claim, WorkerFails
  <2>4. ASSUME NEW w \in Workers,
               \/ LogSuccess(w) \/ LogFailure(w) \/ LogLastFailure(w)
               \/ FailUnclaimable(w) \/ RecordDelivered(w)
               \/ RecordFailure(w) \/ RecordBlocked(w)
        PROVE  deadLetter'
    BY <1>1, <2>4, Zenon DEF LogSuccess, LogFailure, LogLastFailure,
              FailUnclaimable, RecordDelivered, RecordFailure, RecordBlocked
  <2>. QED BY <2>1, <2>2, <2>3, <2>4 DEF Next, WorkerStep
<1>2. ASSUME NEW v \in Workers, Burying(v) PROVE Goal
  <2>1. CASE worker'[v] = worker[v]
    BY <1>2, <2>1 DEF Burying
  <2>2. CASE \/ TimePasses \/ Emit \/ Revoke \/ OwnerReplays \/ AdminReplays
             \/ UNCHANGED deliveryVars
    <3>1. worker' = worker
      BY <2>2 DEF TimePasses, Emit, Revoke, OwnerReplays, AdminReplays, Requeue,
                  deliveryVars
    <3>. QED BY <2>1, <3>1
  <2>3. ASSUME NEW w \in Workers, w # v,
               (\E p : Goto(w, p)) \/ Return(w) \/ Claim(w)
        PROVE  Goal
    <3>1. worker'[v] = worker[v]
      BY <2>3 DEF Goto, Return, Claim, WebhookTypeOK
    <3>. QED BY <2>1, <3>1
  <2>4. ASSUME NEW w \in Workers,
               \/ CallFromMemory(w) \/ CallFromPoller(w) \/ NotClaimed(w)
               \/ Send(w) \/ Claim(w)
        PROVE  Goal
    <3>1. w # v
      BY <1>2, <2>4 DEF Burying, CallFromMemory, CallFromPoller, NotClaimed, Send,
                        Claim
    <3>. QED BY <2>3, <2>4, <3>1 DEF CallFromMemory, CallFromPoller, NotClaimed,
                                     Send
  <2>5. ASSUME NEW w \in Workers, LogSuccess(w) \/ LogFailure(w)
        PROVE  Goal
    <3>1. w # v
      BY <1>2, <2>5 DEF Burying, LogSuccess, LogFailure
    <3>. QED BY <2>3, <2>5, <3>1 DEF LogSuccess, LogFailure
  <2>6. ASSUME NEW w \in Workers,
               \/ FailUnclaimable(w) \/ RecordDelivered(w)
               \/ RecordFailure(w) \/ RecordBlocked(w)
        PROVE  Goal
    <3>1. w # v
      BY <1>2, <2>6 DEF Burying, FailUnclaimable, RecordDelivered, RecordFailure,
                        RecordBlocked
    <3>. QED BY <2>3, <2>6, <3>1 DEF FailUnclaimable, RecordDelivered,
                                     RecordFailure, RecordBlocked
  <2>7. ASSUME NEW w \in Workers, LogLastFailure(w) PROVE Goal
    <3>1. Goto(w, "burying")
      BY <2>7 DEF LogLastFailure
    <3>2. worker'[w].at = "burying"
      BY <3>1 DEF Goto, WebhookTypeOK
    <3>. QED BY <3>2 DEF Burying
  <2>8. ASSUME NEW w \in Workers, CreateDeadLetter(w) PROVE Goal
    BY <2>8, Zenon DEF CreateDeadLetter
  <2>9. ASSUME NEW w \in Workers, WorkerFails(w) PROVE FALSE
    BY <2>9 DEF WorkerFails, WebhookTypeOK
  <2>. QED
    BY <2>2, <2>4, <2>5, <2>6, <2>7, <2>8, <2>9 DEF Next, WorkerStep
<1>. QED BY <1>1, <1>2

LEMMA BurialStep ==
  ASSUME WebhookTypeOK, FailuresAreBuried, [Next]_deliveryVars,
         status' = "failed", failures' = 0
  PROVE  deadLetter' \/ \E w \in Workers : Burying(w)'
<1>1. CASE status = "failed"
  <2>1. failures = 0
    <3>1. ASSUME NEW w \in Workers, WorkerFails(w) PROVE FALSE
      BY <3>1 DEF WorkerFails, WebhookTypeOK
    <3>2. ASSUME NEW w \in Workers,
                 CallFromMemory(w) \/ CallFromPoller(w) \/ WorkerStep(w)
          PROVE  failures' = failures
      <4>1. CASE CallFromMemory(w) \/ CallFromPoller(w) \/ NotClaimed(w)
                 \/ Send(w) \/ Claim(w) \/ CreateDeadLetter(w)
        BY <4>1 DEF CallFromMemory, CallFromPoller, NotClaimed, Send, Claim,
                    CreateDeadLetter, bounds
      <4>2. CASE LogSuccess(w) \/ LogFailure(w) \/ LogLastFailure(w)
        BY <4>2 DEF LogSuccess, LogFailure, LogLastFailure, bounds
      <4>3. CASE FailUnclaimable(w) \/ RecordDelivered(w)
                 \/ RecordFailure(w) \/ RecordBlocked(w)
        BY <4>3 DEF FailUnclaimable, RecordDelivered, RecordFailure,
                    RecordBlocked, bounds
      <4>. QED BY <3>2, <4>1, <4>2, <4>3 DEF WorkerStep
    <3>3. CASE TimePasses \/ Emit \/ Revoke \/ OwnerReplays \/ AdminReplays
               \/ UNCHANGED deliveryVars
      BY <3>3 DEF TimePasses, Emit, Revoke, OwnerReplays, AdminReplays,
                  Requeue, bounds, deliveryVars
    <3>. QED BY <3>1, <3>2, <3>3 DEF Next
  <2>2. deadLetter \/ \E w \in Workers : Burying(w)
    BY <1>1, <2>1 DEF FailuresAreBuried, Burying
  <2>. QED BY <2>2, BurialGoesOn
<1>2. CASE status # "failed"
  <2>1. ASSUME NEW w \in Workers, NEW p \in {"logging last failure", "burying"},
               Goto(w, p)
        PROVE  Burying(w)'
    BY <2>1 DEF Goto, Burying, WebhookTypeOK
  <2>2. ASSUME NEW w \in Workers, FailUnclaimable(w) PROVE Burying(w)'
    BY <1>2, <2>1, <2>2 DEF FailUnclaimable
  <2>3. ASSUME NEW w \in Workers, RecordFailure(w) PROVE Burying(w)'
    BY <1>2, <2>1, <2>3 DEF RecordFailure, Finish
  <2>4. ASSUME NEW w \in Workers, RecordBlocked(w) PROVE Burying(w)'
    BY <1>2, <2>1, <2>4 DEF RecordBlocked, Finish
  <2>5. ASSUME NEW w \in Workers,
               \/ CallFromMemory(w) \/ CallFromPoller(w) \/ NotClaimed(w)
               \/ Send(w) \/ Claim(w) \/ CreateDeadLetter(w) \/ WorkerFails(w)
        PROVE  FALSE
    BY <1>2, <2>5 DEF CallFromMemory, CallFromPoller, NotClaimed, Send, Claim,
                      CreateDeadLetter, WorkerFails, row
  <2>6. ASSUME NEW w \in Workers,
               \/ LogSuccess(w) \/ LogFailure(w) \/ LogLastFailure(w)
               \/ RecordDelivered(w)
        PROVE  FALSE
    BY <1>2, <2>6 DEF LogSuccess, LogFailure, LogLastFailure, RecordDelivered,
                      Finish, row
  <2>7. CASE TimePasses \/ Emit \/ Revoke \/ OwnerReplays \/ AdminReplays
             \/ UNCHANGED deliveryVars
    BY <1>2, <2>7 DEF TimePasses, Emit, Revoke, OwnerReplays, AdminReplays,
                      Requeue, row, deliveryVars
  <2>. QED
    BY <2>2, <2>3, <2>4, <2>5, <2>6, <2>7 DEF Next, WorkerStep
<1>. QED BY <1>1, <1>2

(* A failed delivery has its dead letter, or a worker on its way to write  *)
(* it, as long as no worker was lost.                                      *)
LEMMA FailuresHaveLetters == Spec => []FailuresAreBuried
<1>1. Init => FailuresAreBuried
  BY DEF Init, FailuresAreBuried
<1>2. WebhookTypeOK /\ FailuresAreBuried /\ [Next]_deliveryVars => FailuresAreBuried'
  BY BurialStep DEF FailuresAreBuried, Burying
<1>. QED BY <1>1, <1>2, TypeCorrect, PTL DEF Spec

(* History and dead letter tell the outcome of every delivery, whoever came *)
(* late to finish it.                                                       *)
THEOREM OutcomesRecorded == Spec => []OutcomeIsRecorded
BY HistoryIsTrue, FailuresHaveLetters, PTL DEF OutcomeIsRecorded

(* Requests stay within the attempts allowed and outcomes are recorded as   *)
(* they were, for any number of workers that are slow, die or lose their    *)
(* leases (claimDelivery, finishAttempt).                                   *)
THEOREM AttemptsAccounted == Spec => []AttemptsAreAccounted
BY RequestsAreBounded, OutcomesRecorded, PTL DEF AttemptsAreAccounted

---------------------------------------------------------------------------
(* The delivery with its leases, crashes and replays implements the plain  *)
(* countdown of WebhookPromise.                                            *)
LEMMA PromiseStep ==
  ASSUME WebhookTypeOK, DeliveringIsCounted, [Next]_deliveryVars
  PROVE  [Promise!Next]_(Promise!promiseVars)
<1>. USE DEF Promise!promiseVars
<1>1. MaxAttempts \in Nat /\ attemptCount \in 0 .. MaxAttempts
  BY AttemptsAssumption DEF WebhookTypeOK
<1>2. ASSUME NEW w \in Workers, Claim(w) PROVE Promise!Attempt
  <2>1. /\ status \notin {"delivered", "failed"} /\ status' = "delivering"
        /\ attemptCount' = attemptCount + 1 /\ attemptCount < MaxAttempts
    BY <1>2 DEF Claim, MayClaim, Claimable
  <2>. QED BY <1>1, <2>1 DEF Promise!Attempt
<1>3. ASSUME NEW w \in Workers, RecordDelivered(w) /\ Owned(w)
      PROVE  Promise!Deliver
  <2>1. /\ status = "delivering" /\ status' = "delivered"
        /\ attemptCount' = attemptCount /\ attemptCount > 0
    BY <1>3 DEF RecordDelivered, Owned, Finish, DeliveringIsCounted
  <2>. QED BY <1>1, <2>1 DEF Promise!Deliver
<1>4. ASSUME attemptCount' = attemptCount, status \notin {"delivered", "failed"},
             status' = "failed"
      PROVE  Promise!GiveUp
  BY <1>4 DEF Promise!GiveUp
<1>5. ASSUME attemptCount' = attemptCount,
             \/ status' = status
             \/ {status, status'} \cap {"delivered", "failed"} = {}
      PROVE  UNCHANGED Promise!promiseVars
  BY <1>5
<1>6. ASSUME NEW w \in Workers, FailUnclaimable(w)
      PROVE  [Promise!Next]_(Promise!promiseVars)
  BY <1>4, <1>5, <1>6 DEF FailUnclaimable, Claimable, Promise!Next
<1>7. ASSUME NEW w \in Workers,
             RecordDelivered(w) \/ RecordFailure(w) \/ RecordBlocked(w)
      PROVE  [Promise!Next]_(Promise!promiseVars)
  BY <1>3, <1>4, <1>5, <1>7
     DEF RecordDelivered, RecordFailure, RecordBlocked, Finish, Owned,
         Promise!Next
<1>8. CASE OwnerReplays \/ AdminReplays
  <2>1. /\ status \in {"failed", "retrying"} /\ status' = "pending"
        /\ attemptCount' = 0
    BY <1>8 DEF OwnerReplays, AdminReplays, Requeue
  <2>2. Promise!Replay
    BY <1>1, <2>1 DEF Promise!Replay
  <2>. QED BY <2>2 DEF Promise!Next
<1>9. ASSUME NEW w \in Workers,
             \/ CallFromMemory(w) \/ CallFromPoller(w) \/ NotClaimed(w)
             \/ Send(w) \/ CreateDeadLetter(w) \/ WorkerFails(w)
             \/ LogSuccess(w) \/ LogFailure(w) \/ LogLastFailure(w)
      PROVE  UNCHANGED Promise!promiseVars
  <2>1. attemptCount' = attemptCount /\ status' = status
    BY <1>9 DEF CallFromMemory, CallFromPoller, NotClaimed, Send, LogSuccess,
              LogFailure, LogLastFailure, CreateDeadLetter, WorkerFails, row
  <2>. QED BY <1>5, <2>1
<1>10. CASE TimePasses \/ Emit \/ Revoke \/ UNCHANGED deliveryVars
  BY <1>5, <1>10 DEF TimePasses, Emit, Revoke, row, deliveryVars
<1>. HIDE DEF Promise!promiseVars
<1>. QED
  BY <1>2, <1>6, <1>7, <1>8, <1>9, <1>10 DEF Next, WorkerStep, Promise!Next

THEOREM PromiseKept == Spec => KeepsPromise
<1>1. Init => Promise!Init
  BY AttemptsAssumption DEF Init, Promise!Init
<1>2. WebhookTypeOK /\ SettledRight /\ [Next]_deliveryVars
        => [Promise!Next]_(Promise!promiseVars)
  BY PromiseStep DEF SettledRight
<1>. QED
  BY <1>1, <1>2, TypeCorrect, SettledCorrect, PTL
     DEF Spec, KeepsPromise, Promise!Spec
=============================================================================
