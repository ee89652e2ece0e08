-------------------------- MODULE IngestionProofs --------------------------
(***************************************************************************)
(* Proofs about the ingestion of the ledger, for any payments, pledge,     *)
(* concurrency, failures and crashes.                                      *)
(***************************************************************************)
EXTENDS LedgerIngestion, TokenSumTheorems, SequenceTheorems

(* The elements of a finite set are ranked by their order.                 *)
LEMMA RankFacts ==
  ASSUME NEW S \in SUBSET Nat, IsFiniteSet(S)
  PROVE  LET f == [p \in S |-> Cardinality({q \in S : q <= p})]
         IN  f \in Injection(S, 1 .. Cardinality(S)) /\ f \in Surjection(S, 1 .. Cardinality(S))
<1> DEFINE below(p) == {q \in S : q <= p}
           n == Cardinality(S)
           f == [p \in S |-> Cardinality(below(p))]
<1>1. n \in Nat
  BY FS_CardinalityType
<1>2. ASSUME NEW p \in S
      PROVE  IsFiniteSet(below(p)) /\ Cardinality(below(p)) \in 1 .. n
  <2>1. below(p) \in SUBSET S /\ p \in below(p)
    OBVIOUS
  <2>2. IsFiniteSet(below(p)) /\ Cardinality(below(p)) <= n
    BY <2>1, FS_Subset
  <2>3. Cardinality(below(p)) \in Nat
    BY <2>2, FS_CardinalityType
  <2>4. Cardinality(below(p)) # 0
    BY <2>1, <2>2, FS_EmptySet
  <2>. QED BY <1>1, <2>2, <2>3, <2>4
<1>3. ASSUME NEW p \in S, NEW q \in S, p < q
      PROVE  Cardinality(below(p)) # Cardinality(below(q))
  <2>0. p \in Nat /\ q \in Nat /\ \A x \in S : x \in Nat
    OBVIOUS
  <2>1. ~(q <= p) /\ q <= q /\ \A x \in Nat : x <= p => x <= q
    BY <1>3, <2>0
  <2>2. \A x \in S : x <= p => x <= q
    BY <2>0, <2>1
  <2>3. below(p) \in SUBSET below(q) /\ q \in below(q) /\ q \notin below(p)
    BY <2>1, <2>2, Zenon
  <2> HIDE DEF below
  <2>. QED BY <1>2, <2>3, FS_Subset
<1>4. f \in [S -> 1 .. n]
  BY <1>2
<1>5. \A p, q \in S : f[p] = f[q] => p = q
  <2> SUFFICES ASSUME NEW p \in S, NEW q \in S, p # q
               PROVE  Cardinality(below(p)) # Cardinality(below(q))
    OBVIOUS
  <2>1. p \in Nat /\ q \in Nat
    OBVIOUS
  <2> HIDE DEF below
  <2>2. p < q \/ q < p
    BY <2>1
  <2>. QED BY <1>3, <2>2
<1>6. f \in Injection(S, 1 .. n)
  BY <1>4, <1>5 DEF Injection, IsInjective
<1>7. IsFiniteSet(1 .. n) /\ Cardinality(1 .. n) = n
  BY <1>1, FS_Interval
<1> HIDE DEF f
<1>8. f \in Surjection(S, 1 .. n)
  BY <1>6, <1>7, FS_Injection
<1>. QED BY <1>6, <1>8 DEF f

LEMMA InOrderFacts ==
  ASSUME NEW S \in SUBSET Nat, IsFiniteSet(S)
  PROVE  /\ InOrder(S) \in Seq(S)
         /\ \A p \in S : \E i \in 1 .. Len(InOrder(S)) : InOrder(S)[i] = p
<1> DEFINE n == Cardinality(S)
           rank(p) == Cardinality({q \in S : q <= p})
           f == [p \in S |-> rank(p)]
           at(i) == CHOOSE p \in S : rank(p) = i
<1>1. n \in Nat
  BY FS_CardinalityType
<1>2. f \in Injection(S, 1 .. n) /\ f \in Surjection(S, 1 .. n)
  BY RankFacts
<1>3. \A p \in S : f[p] = rank(p)
  OBVIOUS
<1>4. InOrder(S) = [i \in 1 .. n |-> at(i)]
  BY DEF InOrder
<1> HIDE DEF n, rank, f
<1>5. \A i \in 1 .. n : \E p \in S : rank(p) = i
  BY <1>2, <1>3 DEF Surjection
<1>6. \A i \in 1 .. n : at(i) \in S
  BY <1>5
<1>7. \A p \in S : rank(p) \in 1 .. n /\ at(rank(p)) = p
  <2>1. \A p, q \in S : rank(p) = rank(q) => p = q
    BY <1>2, <1>3 DEF Injection, IsInjective
  <2>2. \A p \in S : rank(p) \in 1 .. n
    BY <1>2, <1>3 DEF Injection
  <2>. QED BY <2>1, <2>2
<1> HIDE DEF at
<1>8. InOrder(S) \in Seq(S) /\ Len(InOrder(S)) = n
  BY <1>1, <1>4, <1>6, IsASeq
<1>. QED BY <1>4, <1>7, <1>8

---------------------------------------------------------------------------
(* The parts of the inductive invariant.                                    *)
Vias == {"worker", "replay", "stream"}
JobsUpTo(n) == [via : Vias, payment : 1 .. n, step : {"check", "record", "save"}]
WorkerJobs(js) == {j \in js : j.via = "worker"}
Elements(q) == {q[i] : i \in 1 .. Len(q)}
PaymentsOf(js) == {j.payment : j \in js}

(* The worker never runs more jobs than it may. *)
WithinLimit(js) ==
  IsFiniteSet(WorkerJobs(js)) /\ Cardinality(WorkerJobs(js)) <= Concurrency

(* Cursors, streams, queue and jobs point to payments that exist.           *)
LedgerPlaced == ledger \in Seq(Payments) /\ onLedger <= NPayments
CursorsPlaced ==
  {cursor, workerCursor, pending, workerAt} \subseteq -1 .. onLedger /\ pending # 0
SeenPlaced == seen \subseteq 1 .. onLedger
MonitorPlaced ==
  /\ monitor \in {"down", "connecting", "replaying", "opening", "open", "waiting",
                  "abandoned"}
  /\ {replayAt, replayTo, monitorAt} \subseteq 0 .. onLedger
  /\ replayAt <= replayTo
QueuePlaced ==
  /\ queue \in Seq(1 .. onLedger)
  /\ monitor = "down" => queue = <<>> /\ workerAt = Closed
JobsPlaced == jobs \subseteq JobsUpTo(onLedger) /\ WithinLimit(jobs)

Placed ==
  /\ LedgerPlaced /\ CursorsPlaced /\ SeenPlaced /\ MonitorPlaced
  /\ QueuePlaced /\ JobsPlaced

(* The rest of the types. *)
DatabaseTyped ==
  /\ receipts \subseteq Payments /\ rows \in [Payments -> Nat]
  /\ matchOf \in [Payments -> Nat] /\ matched \in 0 .. Pledge
  /\ raised \in Nat /\ status \in {"active", "funded", "failed"}
HooksTyped ==
  events \subseteq {"funded", "failed"} /\ hooks \subseteq {"funded", "failed"}
HistoryTyped ==
  skipped \subseteq Payments
  /\ {failures, matchFailures, disconnects, crashes} \subseteq Nat

(* Only payments on the ledger are recorded. *)
RowsExist == \A p \in Payments : rows[p] > 0 => p <= onLedger

RecordBook ==
  /\ RowsExist /\ CreditedOnce /\ RaisedIsRecorded /\ ReceiptMeansRecorded
  /\ FundedMeansTarget

(* As long as nothing fails, what a job comes to save, and what the worker  *)
(* is about to flush, is dealt with.                                        *)
DealtWith(p) == TransactionRecorded(p) \/ p \in skipped
DoneBook ==
  failures + matchFailures = 0 =>
    /\ \A j \in jobs : j.step = "save" => DealtWith(j.payment)
    /\ pending # NoCursor => DealtWith(pending)

(* Every payment is dealt with, in a job or in the queue, or it is beyond   *)
(* whatever a cursor, a stream, a job or the queue has come to.             *)
InHand(p) == DealtWith(p) \/ p \in PaymentsOf(jobs) \/ p \in Elements(queue)
Beyond(p) ==
  /\ \A c \in {cursor, workerCursor, pending, workerAt, monitorAt, replayAt} : p > c
  /\ p \notin seen
  /\ \A q \in PaymentsOf(jobs) \cup Elements(queue) : p > q
Faultless == InitialCursor = 0 /\ failures + matchFailures + crashes = 0
Watched ==
  /\ cursor # NoCursor /\ monitor # "abandoned"
  /\ monitor \in {"connecting", "replaying", "opening", "open"} => workerAt # Closed
  /\ workerAt # Closed => workerCursor # NoCursor
Sighted == Watched /\ \A p \in 1 .. onLedger : InHand(p) \/ Beyond(p)
SightBook == Faultless => Sighted

IngestionInv ==
  /\ Placed /\ DatabaseTyped /\ HooksTyped /\ HistoryTyped
  /\ RecordBook /\ DoneBook /\ SightBook

---------------------------------------------------------------------------
(* The queue and its jobs. *)
LEMMA LimitType == Concurrency \in Nat /\ Concurrency > 0
BY LimitsAssumption

LEMMA JobsAddOne ==
  ASSUME NEW js, WithinLimit(js), NEW j,
         \/ j \in js \/ j.via # "worker"
         \/ Cardinality(WorkerJobs(js)) < Concurrency
  PROVE  WithinLimit(js \cup {j})
<1>1. CASE j.via # "worker" \/ j \in js
  <2>1. WorkerJobs(js \cup {j}) = WorkerJobs(js)
    BY <1>1 DEF WorkerJobs
  <2>. QED BY <2>1 DEF WithinLimit
<1>2. CASE j.via = "worker" /\ j \notin js /\ Cardinality(WorkerJobs(js)) < Concurrency
  <2>1. WorkerJobs(js \cup {j}) = WorkerJobs(js) \cup {j} /\ j \notin WorkerJobs(js)
    BY <1>2 DEF WorkerJobs
  <2>2. IsFiniteSet(WorkerJobs(js)) /\ Cardinality(WorkerJobs(js)) \in Nat
    BY FS_CardinalityType DEF WithinLimit
  <2>3. /\ IsFiniteSet(WorkerJobs(js) \cup {j})
        /\ Cardinality(WorkerJobs(js) \cup {j}) = Cardinality(WorkerJobs(js)) + 1
    BY <2>1, <2>2, FS_AddElement
  <2>. QED BY <1>2, <2>1, <2>2, <2>3, LimitType DEF WithinLimit
<1>. QED BY <1>1, <1>2 DEF WithinLimit

LEMMA JobsRemoveOne ==
  ASSUME NEW js, WithinLimit(js), NEW j \in js
  PROVE  /\ WithinLimit(js \ {j})
         /\ j.via = "worker" => Cardinality(WorkerJobs(js \ {j})) < Concurrency
<1>1. CASE j.via # "worker"
  <2>1. WorkerJobs(js \ {j}) = WorkerJobs(js)
    BY <1>1 DEF WorkerJobs
  <2>. QED BY <1>1, <2>1 DEF WithinLimit
<1>2. CASE j.via = "worker"
  <2>1. WorkerJobs(js \ {j}) = WorkerJobs(js) \ {j} /\ j \in WorkerJobs(js)
    BY <1>2 DEF WorkerJobs
  <2>2. /\ IsFiniteSet(WorkerJobs(js) \ {j})
        /\ Cardinality(WorkerJobs(js) \ {j}) = Cardinality(WorkerJobs(js)) - 1
    BY <2>1, FS_RemoveElement DEF WithinLimit
  <2>3. Cardinality(WorkerJobs(js)) \in Nat /\ Cardinality(WorkerJobs(js)) <= Concurrency
    BY FS_CardinalityType DEF WithinLimit
  <2>. QED BY <2>1, <2>2, <2>3, LimitType DEF WithinLimit
<1>. QED BY <1>1, <1>2

(* A job that moves on to its next step remains one job. *)
LEMMA JobsMove ==
  ASSUME NEW n \in Nat, NEW js \in SUBSET JobsUpTo(n), WithinLimit(js), NEW j \in js,
         NEW step \in {"check", "record", "save"},
         NEW moved, moved = (js \ {j}) \cup {[j EXCEPT !.step = step]}
  PROVE  /\ moved \subseteq JobsUpTo(n) /\ WithinLimit(moved)
         /\ PaymentsOf(moved) = PaymentsOf(js)
<1> DEFINE k == [j EXCEPT !.step = step]
<1>1. j \in JobsUpTo(n)
  OBVIOUS
<1>2. k \in JobsUpTo(n) /\ k.via = j.via /\ k.payment = j.payment
  BY <1>1 DEF JobsUpTo
<1> HIDE DEF k
<1>3. moved = (js \ {j}) \cup {k}
  BY DEF k
<1>4. /\ WithinLimit(js \ {j})
      /\ j.via = "worker" => Cardinality(WorkerJobs(js \ {j})) < Concurrency
  BY JobsRemoveOne
<1>5. WithinLimit(moved)
  <2> DEFINE rest == js \ {j}
  <2>1. /\ WithinLimit(rest)
        /\ k.via # "worker" \/ Cardinality(WorkerJobs(rest)) < Concurrency
    BY <1>2, <1>4
  <2> HIDE DEF rest
  <2>2. WithinLimit(rest \cup {k})
    BY <2>1, JobsAddOne
  <2>. QED BY <1>3, <2>2 DEF rest
<1>. QED BY <1>1, <1>2, <1>3, <1>5 DEF PaymentsOf

(* Taking jobs off the queue keeps the limit and loses nothing. *)
LEMMA QueueTaken ==
  ASSUME NEW n \in Nat, NEW q \in Seq(1 .. n), NEW js \in SUBSET JobsUpTo(n),
         WithinLimit(js), ProcessQueue(q, js)
  PROVE  /\ queue' \in Seq(1 .. n) /\ (q = <<>> => queue' = <<>>)
         /\ jobs' \subseteq JobsUpTo(n) /\ WithinLimit(jobs')
         /\ js \subseteq jobs'
         /\ \A j \in jobs' \ js : j.step = "check" /\ j.payment \in Elements(q)
         /\ Elements(queue') \subseteq Elements(q)
         /\ Elements(q) \subseteq Elements(queue') \cup PaymentsOf(jobs')
<1> DEFINE busy == Cardinality(WorkerJobs(js))
           taken == Smaller(Len(q), Concurrency - busy)
           new == {Job("worker", q[i]) : i \in 1 .. taken}
<1>1. /\ queue' = SubSeq(q, taken + 1, Len(q)) /\ jobs' = js \cup new
  BY DEF ProcessQueue, WorkerJobs
<1>2. busy \in Nat /\ busy <= Concurrency /\ IsFiniteSet(WorkerJobs(js))
  BY FS_CardinalityType DEF WithinLimit
<1>3. Len(q) \in Nat /\ \A i \in 1 .. Len(q) : q[i] \in 1 .. n
  BY LenProperties
<1> HIDE DEF busy
<1>4. taken \in Nat /\ taken <= Len(q) /\ busy + taken <= Concurrency
  BY <1>2, <1>3, LimitType DEF Smaller
<1> HIDE DEF taken
<1>5. /\ queue' \in Seq(1 .. n) /\ Len(queue') = Len(q) - taken
      /\ \A i \in 1 .. Len(q) - taken : queue'[i] = q[taken + i]
  <2>1. \A i \in taken + 1 .. Len(q) : q[i] \in 1 .. n
    BY <1>3, <1>4
  <2>2. taken + 1 \in Int /\ Len(q) \in Int
    BY <1>3, <1>4
  <2>3. /\ SubSeq(q, taken + 1, Len(q)) \in Seq(1 .. n)
        /\ Len(SubSeq(q, taken + 1, Len(q)))
             = IF taken + 1 <= Len(q) THEN Len(q) - (taken + 1) + 1 ELSE 0
        /\ \A i \in 1 .. Len(q) - (taken + 1) + 1 :
             SubSeq(q, taken + 1, Len(q))[i] = q[taken + 1 + i - 1]
    BY <2>1, <2>2, SubSeqProperties
  <2>. QED BY <1>1, <1>3, <1>4, <2>3
<1>6. q = <<>> => queue' = <<>>
  BY <1>3, <1>4, <1>5, EmptySeq
<1>7. \A j \in new : /\ j \in JobsUpTo(n) /\ j.step = "check"
                     /\ j.payment \in Elements(q) /\ j.via = "worker"
  BY <1>3, <1>4 DEF Job, JobsUpTo, Vias, Elements
<1>8. IsFiniteSet(new) /\ Cardinality(new) <= taken
  <2> DEFINE f == [i \in 1 .. taken |-> Job("worker", q[i])]
  <2>1. f \in Surjection(1 .. taken, new)
    BY DEF Surjection
  <2>2. IsFiniteSet(1 .. taken) /\ Cardinality(1 .. taken) = taken
    BY <1>4, FS_Interval, SMT
  <2> HIDE DEF f, new
  <2>. QED BY <2>1, <2>2, FS_Surjection
<1>9. WithinLimit(jobs')
  <2>1. WorkerJobs(jobs') = WorkerJobs(js) \cup new
    BY <1>1, <1>7 DEF WorkerJobs
  <2> HIDE DEF new
  <2>2. IsFiniteSet(WorkerJobs(js) \cap new)
    BY <1>8, FS_Intersection
  <2>3. /\ IsFiniteSet(WorkerJobs(js) \cup new)
        /\ Cardinality(WorkerJobs(js) \cup new)
             = busy + Cardinality(new) - Cardinality(WorkerJobs(js) \cap new)
    BY <1>2, <1>8, FS_Union DEF busy
  <2>4. Cardinality(new) \in Nat /\ Cardinality(WorkerJobs(js) \cap new) \in Nat
    BY <1>8, <2>2, FS_CardinalityType
  <2>. QED BY <1>2, <1>4, <1>8, <2>1, <2>3, <2>4, LimitType DEF WithinLimit
<1>10. Elements(queue') \subseteq Elements(q)
  <2>1. \A i \in 1 .. Len(queue') : taken + i \in 1 .. Len(q) /\ queue'[i] = q[taken + i]
    BY <1>3, <1>4, <1>5
  <2>. QED BY <2>1 DEF Elements
<1>11. Elements(q) \subseteq Elements(queue') \cup PaymentsOf(jobs')
  <2> SUFFICES ASSUME NEW i \in 1 .. Len(q)
               PROVE  q[i] \in Elements(queue') \cup PaymentsOf(jobs')
    BY DEF Elements
  <2>1. CASE i <= taken
    <3>1. Job("worker", q[i]) \in jobs' /\ Job("worker", q[i]).payment = q[i]
      BY <1>1, <1>4, <2>1 DEF Job
    <3>. QED BY <3>1 DEF PaymentsOf
  <2>2. CASE i > taken
    <3>1. i - taken \in 1 .. Len(queue') /\ queue'[i - taken] = q[i]
      <4>1. i - taken \in 1 .. Len(q) - taken /\ taken + (i - taken) = i
        BY <1>3, <1>4, <2>2
      <4>. QED BY <1>5, <4>1
    <3>. QED BY <3>1 DEF Elements
  <2>. QED BY <1>4, <2>1, <2>2
<1>. QED BY <1>1, <1>5, <1>6, <1>7, <1>9, <1>10, <1>11

---------------------------------------------------------------------------
(* Where things are. *)
LEMMA LedgerSize ==
  ASSUME LedgerPlaced
  PROVE  /\ onLedger \in 0 .. NPayments /\ NPayments \in Nat
         /\ 1 .. onLedger \subseteq Payments
BY PaymentsAssumption, LenProperties DEF LedgerPlaced, onLedger, Payments

LEMMA StartFacts ==
  ASSUME LedgerPlaced, NEW c \in -1 .. onLedger
  PROVE  /\ StartAfter(c) \in 0 .. onLedger
         /\ c # NoCursor => StartAfter(c) = c
<1>1. onLedger \in Nat
  BY LedgerSize
<1>. QED BY <1>1 DEF StartAfter, NoCursor

(* What was missed is queued once each, and exactly that. *)
LEMMA MissedFacts ==
  ASSUME LedgerPlaced, NEW c \in -1 .. onLedger, NEW fetched \in 0 .. onLedger
  PROVE  /\ Missed(c, fetched) \in Seq(1 .. onLedger)
         /\ Elements(Missed(c, fetched)) =
              {p \in StartAfter(c) + 1 .. fetched : p \notin seen}
         /\ (Missed(c, fetched) = <<>>) =>
              \A p \in StartAfter(c) + 1 .. fetched : p \in seen
<1> DEFINE S == {p \in StartAfter(c) + 1 .. fetched : p \notin seen}
<1>1. onLedger \in Nat /\ StartAfter(c) \in 0 .. onLedger
  BY LedgerSize, StartFacts
<1>2. S \in SUBSET Nat /\ S \subseteq 1 .. onLedger
  BY <1>1
<1>3. IsFiniteSet(S)
  <2>1. IsFiniteSet(1 .. onLedger)
    BY <1>1, FS_Interval, SMT
  <2> HIDE DEF S
  <2>. QED BY <1>2, <2>1, FS_Subset
<1>4. Missed(c, fetched) = InOrder(S)
  BY DEF Missed
<1> HIDE DEF S
<1>5. /\ InOrder(S) \in Seq(S)
      /\ \A p \in S : \E i \in 1 .. Len(InOrder(S)) : InOrder(S)[i] = p
  BY <1>2, <1>3, InOrderFacts
<1>6. InOrder(S) \in Seq(1 .. onLedger)
  BY <1>2, <1>5, SeqMonotonic
<1>7. Elements(InOrder(S)) = S
  <2>1. \A i \in 1 .. Len(InOrder(S)) : InOrder(S)[i] \in S
    BY <1>5, ElementOfSeq
  <2>. QED BY <1>5, <2>1 DEF Elements
<1>8. InOrder(S) = <<>> => S = {}
  <2>1. Len(<<>>) = 0
    BY EmptySeq
  <2>2. 1 .. 0 = {}
    OBVIOUS
  <2>. QED BY <1>5, <2>1, <2>2
<1>. QED BY <1>4, <1>6, <1>7, <1>8 DEF S

LEMMA ElementsOfConcat ==
  ASSUME NEW n \in Nat, NEW s \in Seq(1 .. n), NEW t \in Seq(1 .. n)
  PROVE  s \o t \in Seq(1 .. n) /\ Elements(s \o t) = Elements(s) \cup Elements(t)
<1>1. /\ s \o t \in Seq(1 .. n) /\ Len(s \o t) = Len(s) + Len(t)
      /\ \A i \in 1 .. Len(s) + Len(t) :
           (s \o t)[i] = IF i <= Len(s) THEN s[i] ELSE t[i - Len(s)]
  BY ConcatProperties
<1>2. Len(s) \in Nat /\ Len(t) \in Nat
  BY LenProperties
<1>3. ASSUME NEW i \in 1 .. Len(s) + Len(t)
      PROVE  (s \o t)[i] \in Elements(s) \cup Elements(t)
  <2>1. CASE i <= Len(s)
    <3>1. i \in 1 .. Len(s) /\ (s \o t)[i] = s[i]
      BY <1>1, <1>2, <2>1
    <3>. QED BY <3>1 DEF Elements
  <2>2. CASE ~(i <= Len(s))
    <3>1. i - Len(s) \in 1 .. Len(t) /\ (s \o t)[i] = t[i - Len(s)]
      BY <1>1, <1>2, <2>2
    <3>. QED BY <3>1 DEF Elements
  <2>. QED BY <2>1, <2>2
<1>4. ASSUME NEW i \in 1 .. Len(s) PROVE s[i] \in Elements(s \o t)
  <2>1. i \in 1 .. Len(s \o t) /\ (s \o t)[i] = s[i]
    BY <1>1, <1>2
  <2>. QED BY <2>1 DEF Elements
<1>5. ASSUME NEW i \in 1 .. Len(t) PROVE t[i] \in Elements(s \o t)
  <2>1. Len(s) + i \in 1 .. Len(s) + Len(t) /\ ~(Len(s) + i <= Len(s))
        /\ (Len(s) + i) - Len(s) = i
    BY <1>2
  <2>2. (s \o t)[Len(s) + i] = t[i]
    BY <1>1, <2>1
  <2>3. Len(s) + i \in 1 .. Len(s \o t)
    BY <1>1, <2>1
  <2>. QED BY <2>2, <2>3 DEF Elements
<1>. QED BY <1>1, <1>3, <1>4, <1>5 DEF Elements

LEMMA ElementsOfAppend ==
  ASSUME NEW n \in Nat, NEW s \in Seq(1 .. n), NEW e \in 1 .. n
  PROVE  Append(s, e) \in Seq(1 .. n) /\ Elements(Append(s, e)) = Elements(s) \cup {e}
<1>1. /\ Append(s, e) \in Seq(1 .. n) /\ Len(Append(s, e)) = Len(s) + 1
      /\ \A i \in 1 .. Len(s) : Append(s, e)[i] = s[i]
      /\ Append(s, e)[Len(s) + 1] = e
  BY AppendProperties
<1>2. 1 .. Len(s) + 1 = 1 .. Len(s) \cup {Len(s) + 1}
  <2>1. Len(s) \in Nat
    BY LenProperties
  <2>. QED BY <2>1
<1>. QED BY <1>1, <1>2 DEF Elements

(* Each kind of step leaves everything in its place. *)
LEMMA PayPlaced ==
  ASSUME Placed, Pay
  PROVE  /\ Placed' /\ onLedger' = onLedger + 1 /\ onLedger \in Nat
         /\ \A p \in 1 .. onLedger : ledger'[p] = ledger[p]
<1>1. /\ ledger \in Seq(Payments) /\ onLedger \in 0 .. NPayments /\ NPayments \in Nat
      /\ onLedger < NPayments
  BY LedgerSize DEF Placed, LedgerPlaced, Pay
<1>2. PICK e \in Payments : ledger' = Append(ledger, e)
  <2>1. onLedger + 1 \in Payments
    BY <1>1 DEF Payments
  <2>2. ASSUME ledger # <<>> PROVE ledger[onLedger] \in Payments
    <3>1. onLedger \in 1 .. Len(ledger)
      BY <1>1, <2>2, EmptySeq DEF onLedger
    <3>. QED BY <1>1, <3>1, ElementOfSeq
  <2>. QED BY <2>1, <2>2 DEF Pay
<1>3. /\ ledger' \in Seq(Payments) /\ onLedger' = onLedger + 1
      /\ \A p \in 1 .. onLedger : ledger'[p] = ledger[p]
  BY <1>1, <1>2, AppendProperties DEF onLedger
<1>4. /\ UNCHANGED <<cursor, queue, seen, workerCursor, pending, workerAt, jobs>>
      /\ UNCHANGED <<monitor, replayAt, replayTo, monitorAt>>
  BY DEF Pay, worker, streams, database
<1>5. queue' \in Seq(1 .. onLedger')
  <2>1. 1 .. onLedger \subseteq 1 .. onLedger'
    BY <1>1, <1>3
  <2>. QED BY <1>4, <2>1, SeqMonotonic DEF Placed, QueuePlaced
<1>6. jobs' \subseteq JobsUpTo(onLedger')
  <2>1. 1 .. onLedger \subseteq 1 .. onLedger'
    BY <1>1, <1>3
  <2>. QED BY <1>4, <2>1 DEF Placed, JobsPlaced, JobsUpTo
<1>7. /\ CursorsPlaced' /\ SeenPlaced' /\ MonitorPlaced'
  BY <1>1, <1>3, <1>4 DEF Placed, CursorsPlaced, SeenPlaced, MonitorPlaced
<1>8. LedgerPlaced' /\ QueuePlaced' /\ JobsPlaced'
  BY <1>1, <1>3, <1>4, <1>5, <1>6
     DEF Placed, LedgerPlaced, QueuePlaced, JobsPlaced, WithinLimit
<1>. QED BY <1>1, <1>3, <1>7, <1>8 DEF Placed

LEMMA StartPlaced ==
  ASSUME Placed, Start
  PROVE  Placed'
<1>1. onLedger \in Nat /\ cursor \in -1 .. onLedger /\ onLedger \in 0 .. onLedger
  BY LedgerSize DEF Placed, CursorsPlaced
<1>2. StartAfter(cursor) \in 0 .. onLedger
  BY <1>1, StartFacts DEF Placed
<1>3. Missed(cursor, onLedger) \in Seq(1 .. onLedger)
  BY <1>1, MissedFacts DEF Placed
<1>4. /\ queue' = Missed(cursor, onLedger) /\ monitor' = "waiting"
      /\ seen' = seen \cup StartAfter(cursor) + 1 .. onLedger
      /\ workerCursor' \in {NoCursor, onLedger} /\ workerAt' = onLedger
      /\ UNCHANGED <<ledger, cursor, pending, jobs, replayAt, replayTo, monitorAt>>
  BY DEF Start, Listen, database
<1>5. onLedger' = onLedger
  BY <1>4 DEF onLedger
<1>6. LedgerPlaced' /\ MonitorPlaced' /\ QueuePlaced' /\ JobsPlaced'
  BY <1>3, <1>4, <1>5
     DEF Placed, LedgerPlaced, MonitorPlaced, QueuePlaced, JobsPlaced, WithinLimit
<1>7. CursorsPlaced'
  BY <1>1, <1>4, <1>5 DEF Placed, CursorsPlaced, NoCursor
<1>8. SeenPlaced'
  <2>1. StartAfter(cursor) + 1 .. onLedger \subseteq 1 .. onLedger
    BY <1>1, <1>2
  <2>. QED BY <1>4, <1>5, <2>1 DEF Placed, SeenPlaced
<1>. QED BY <1>6, <1>7, <1>8 DEF Placed

Known == IF workerCursor = NoCursor THEN cursor ELSE workerCursor

LEMMA KnownFacts ==
  ASSUME Placed
  PROVE  /\ Known \in -1 .. onLedger /\ StartAfter(Known) \in 0 .. onLedger
         /\ onLedger \in Nat /\ onLedger \in 0 .. onLedger
<1>1. onLedger \in Nat /\ Known \in -1 .. onLedger
  BY LedgerSize DEF Placed, CursorsPlaced, Known
<1>. QED BY <1>1, StartFacts DEF Placed

(* What a registration fetches is queued or in a job. *)
LEMMA RegisterFacts ==
  ASSUME Placed, NEW fetched \in 0 .. onLedger, Register(fetched)
  PROVE  /\ queue' \in Seq(1 .. onLedger)
         /\ jobs' \subseteq JobsUpTo(onLedger) /\ WithinLimit(jobs') /\ jobs \subseteq jobs'
         /\ \A j \in jobs' \ jobs : j.step = "check"
         /\ Elements(queue) \subseteq Elements(queue') \cup PaymentsOf(jobs')
         /\ \A p \in StartAfter(Known) + 1 .. fetched :
              p \in seen \/ p \in Elements(queue') \cup PaymentsOf(jobs')
         /\ monitor = "waiting" /\ monitor' = "connecting"
         /\ seen' = seen \cup StartAfter(Known) + 1 .. fetched
         /\ workerCursor' = (IF Known = NoCursor THEN NoCursor ELSE fetched)
         /\ workerAt' = fetched
         /\ UNCHANGED <<ledger, database, announcements, pending,
                        replayAt, replayTo, monitorAt, skipped>>
<1>1. /\ monitor = "waiting" /\ monitor' = "connecting"
      /\ seen' = seen \cup StartAfter(Known) + 1 .. fetched
      /\ workerCursor' = (IF Known = NoCursor THEN NoCursor ELSE fetched)
      /\ workerAt' = fetched
      /\ UNCHANGED <<ledger, database, announcements, pending,
                     replayAt, replayTo, monitorAt, skipped>>
  BY DEF Register, Listen, Known
<1>2. IF Missed(Known, fetched) = <<>>
      THEN UNCHANGED <<queue, jobs>>
      ELSE ProcessQueue(queue \o Missed(Known, fetched), jobs)
  BY DEF Register, Known
<1>3. /\ Known \in -1 .. onLedger /\ onLedger \in Nat
      /\ queue \in Seq(1 .. onLedger) /\ jobs \in SUBSET JobsUpTo(onLedger)
      /\ WithinLimit(jobs)
  BY KnownFacts DEF Placed, QueuePlaced, JobsPlaced
<1> DEFINE missed == Missed(Known, fetched)
<1>4. /\ missed \in Seq(1 .. onLedger)
      /\ Elements(missed) = {p \in StartAfter(Known) + 1 .. fetched : p \notin seen}
      /\ (missed = <<>>) => \A p \in StartAfter(Known) + 1 .. fetched : p \in seen
  BY <1>3, MissedFacts DEF Placed
<1> HIDE DEF missed
<1>5. CASE missed = <<>>
  <2>1. UNCHANGED <<queue, jobs>>
    BY <1>2, <1>5 DEF missed
  <2>. QED BY <1>1, <1>3, <1>4, <1>5, <2>1
<1>6. CASE missed # <<>>
  <2>1. ProcessQueue(queue \o missed, jobs)
    BY <1>2, <1>6 DEF missed
  <2>2. /\ queue \o missed \in Seq(1 .. onLedger)
        /\ Elements(queue \o missed) = Elements(queue) \cup Elements(missed)
    BY <1>3, <1>4, ElementsOfConcat
  <2> DEFINE q == queue \o missed
  <2>3. q \in Seq(1 .. onLedger) /\ ProcessQueue(q, jobs)
    BY <2>1, <2>2
  <2> HIDE DEF q
  <2>4. /\ queue' \in Seq(1 .. onLedger)
        /\ jobs' \subseteq JobsUpTo(onLedger) /\ WithinLimit(jobs') /\ jobs \subseteq jobs'
        /\ \A j \in jobs' \ jobs : j.step = "check" /\ j.payment \in Elements(q)
        /\ Elements(q) \subseteq Elements(queue') \cup PaymentsOf(jobs')
    BY <1>3, <2>3, QueueTaken
  <2>. QED BY <1>1, <1>4, <2>2, <2>4 DEF q
<1>. QED BY <1>5, <1>6

LEMMA RegisterPlaced ==
  ASSUME Placed, RegisterWallet \/ RegisterUnreplayed
  PROVE  Placed'
<1>1. PICK fetched \in 0 .. onLedger : Register(fetched)
  BY KnownFacts DEF RegisterWallet, RegisterUnreplayed, Known
<1>2. /\ Known \in -1 .. onLedger /\ StartAfter(Known) \in 0 .. onLedger
      /\ onLedger \in Nat
  BY KnownFacts
<1>3. /\ queue' \in Seq(1 .. onLedger)
      /\ jobs' \subseteq JobsUpTo(onLedger) /\ WithinLimit(jobs')
      /\ monitor' = "connecting"
      /\ seen' = seen \cup StartAfter(Known) + 1 .. fetched
      /\ workerCursor' \in {NoCursor, fetched} /\ workerAt' = fetched
      /\ UNCHANGED <<ledger, cursor, pending, replayAt, replayTo, monitorAt>>
  BY <1>1, RegisterFacts DEF database
<1>4. onLedger' = onLedger
  BY <1>3 DEF onLedger
<1>5. LedgerPlaced' /\ MonitorPlaced' /\ QueuePlaced' /\ JobsPlaced'
  BY <1>3, <1>4
     DEF Placed, LedgerPlaced, MonitorPlaced, QueuePlaced, JobsPlaced, WithinLimit
<1>6. CursorsPlaced'
  BY <1>2, <1>3, <1>4 DEF Placed, CursorsPlaced, NoCursor
<1>7. SeenPlaced'
  <2>1. StartAfter(Known) + 1 .. fetched \subseteq 1 .. onLedger
    BY <1>2
  <2>. QED BY <1>3, <1>4, <2>1 DEF Placed, SeenPlaced
<1>. QED BY <1>5, <1>6, <1>7 DEF Placed

(* What the worker's stream delivers is known already, queued or in a job. *)
LEMMA DeliverFacts ==
  ASSUME Placed, WorkerDeliver
  PROVE  /\ workerAt \in 0 .. onLedger - 1 /\ workerAt' = workerAt + 1
         /\ onLedger \in Nat
         /\ seen' = seen \cup {workerAt + 1}
         /\ queue' \in Seq(1 .. onLedger)
         /\ jobs' \subseteq JobsUpTo(onLedger) /\ WithinLimit(jobs') /\ jobs \subseteq jobs'
         /\ \A j \in jobs' \ jobs :
              j.step = "check" /\ j.payment \in Elements(queue) \cup {workerAt + 1}
         /\ Elements(queue') \subseteq Elements(queue) \cup {workerAt + 1}
         /\ Elements(queue) \subseteq Elements(queue') \cup PaymentsOf(jobs')
         /\ workerAt + 1 \in seen \cup Elements(queue') \cup PaymentsOf(jobs')
         /\ UNCHANGED <<ledger, database, announcements,
                        workerCursor, pending, streams, skipped, bounds>>
<1> DEFINE p == workerAt + 1
<1>1. /\ workerAt # Closed /\ workerAt < onLedger /\ workerAt' = p
      /\ seen' = seen \cup {p}
      /\ IF p \in seen THEN UNCHANGED <<queue, jobs>>
                       ELSE ProcessQueue(Append(queue, p), jobs)
      /\ UNCHANGED <<ledger, database, announcements,
                     workerCursor, pending, streams, skipped, bounds>>
  BY DEF WorkerDeliver
<1>2. /\ onLedger \in Nat /\ workerAt \in 0 .. onLedger - 1 /\ p \in 1 .. onLedger
      /\ queue \in Seq(1 .. onLedger) /\ jobs \in SUBSET JobsUpTo(onLedger)
      /\ WithinLimit(jobs)
  <2>1. onLedger \in Nat /\ workerAt \in -1 .. onLedger
    BY LedgerSize DEF Placed, CursorsPlaced
  <2>2. workerAt \in 0 .. onLedger - 1 /\ p \in 1 .. onLedger
    BY <1>1, <2>1 DEF Closed
  <2>. QED BY <2>1, <2>2 DEF Placed, QueuePlaced, JobsPlaced
<1>3. CASE p \in seen
  <2>1. UNCHANGED <<queue, jobs>>
    BY <1>1, <1>3
  <2>. QED BY <1>1, <1>2, <1>3, <2>1
<1>4. CASE p \notin seen
  <2> DEFINE q == Append(queue, p)
  <2>1. ProcessQueue(q, jobs)
    BY <1>1, <1>4
  <2>2. q \in Seq(1 .. onLedger) /\ Elements(q) = Elements(queue) \cup {p}
    BY <1>2, ElementsOfAppend
  <2> HIDE DEF q, p
  <2>3. /\ queue' \in Seq(1 .. onLedger)
        /\ jobs' \subseteq JobsUpTo(onLedger) /\ WithinLimit(jobs') /\ jobs \subseteq jobs'
        /\ \A j \in jobs' \ jobs : j.step = "check" /\ j.payment \in Elements(q)
        /\ Elements(queue') \subseteq Elements(q)
        /\ Elements(q) \subseteq Elements(queue') \cup PaymentsOf(jobs')
    BY <1>2, <2>1, <2>2, QueueTaken
  <2>. QED BY <1>1, <1>2, <2>2, <2>3 DEF p
<1>. QED BY <1>3, <1>4

LEMMA DeliverPlaced ==
  ASSUME Placed, WorkerDeliver
  PROVE  Placed'
<1>1. /\ workerAt \in 0 .. onLedger - 1 /\ workerAt' = workerAt + 1
      /\ onLedger \in Nat
      /\ seen' = seen \cup {workerAt + 1}
      /\ queue' \in Seq(1 .. onLedger)
      /\ jobs' \subseteq JobsUpTo(onLedger) /\ WithinLimit(jobs')
      /\ UNCHANGED <<ledger, database, announcements,
                     workerCursor, pending, streams, skipped, bounds>>
  BY DeliverFacts
<1>2. UNCHANGED <<ledger, cursor, workerCursor, pending,
                  monitor, replayAt, replayTo, monitorAt>>
  BY <1>1 DEF database, streams
<1>3. onLedger' = onLedger
  BY <1>2 DEF onLedger
<1>4. CursorsPlaced' /\ SeenPlaced'
  <2>1. workerAt + 1 \in 1 .. onLedger /\ workerAt + 1 \in -1 .. onLedger
    BY <1>1
  <2>. QED BY <1>1, <1>2, <1>3, <2>1 DEF Placed, CursorsPlaced, SeenPlaced
<1>5. LedgerPlaced' /\ MonitorPlaced' /\ JobsPlaced'
  BY <1>1, <1>2, <1>3 DEF Placed, LedgerPlaced, MonitorPlaced, JobsPlaced, WithinLimit
<1>6. QueuePlaced'
  <2>1. monitor # "down"
    BY <1>1 DEF Placed, QueuePlaced, Closed
  <2>. QED BY <1>1, <1>2, <1>3, <2>1 DEF QueuePlaced
<1>. QED BY <1>4, <1>5, <1>6 DEF Placed

(* A job that ends makes room for the next. *)
LEMMA FinishFacts ==
  ASSUME Placed, NEW j \in jobs, Finish(j)
  PROVE  /\ queue' \in Seq(1 .. onLedger) /\ (queue = <<>> => queue' = <<>>)
         /\ jobs' \subseteq JobsUpTo(onLedger) /\ WithinLimit(jobs')
         /\ jobs \ {j} \subseteq jobs'
         /\ \A k \in jobs' \ jobs : k.step = "check" /\ k.payment \in Elements(queue)
         /\ Elements(queue') \subseteq Elements(queue)
         /\ Elements(queue) \subseteq Elements(queue') \cup PaymentsOf(jobs')
         /\ workerCursor' \in {workerCursor, j.payment}
         /\ pending' \in {pending, j.payment}
         /\ UNCHANGED <<seen, workerAt>>
<1>1. /\ onLedger \in Nat /\ queue \in Seq(1 .. onLedger)
      /\ jobs \ {j} \in SUBSET JobsUpTo(onLedger) /\ WithinLimit(jobs \ {j})
  <2>1. WithinLimit(jobs) /\ jobs \subseteq JobsUpTo(onLedger)
    BY DEF Placed, JobsPlaced
  <2>2. WithinLimit(jobs \ {j})
    BY <2>1, JobsRemoveOne
  <2>. QED BY <2>1, <2>2, LedgerSize DEF Placed, QueuePlaced
<1>2. CASE j.via = "worker"
  <2>1. /\ workerCursor' = j.payment /\ pending' = j.payment
        /\ ProcessQueue(queue, jobs \ {j}) /\ UNCHANGED <<seen, workerAt>>
    BY <1>2 DEF Finish
  <2> DEFINE js == jobs \ {j}
  <2>2. js \in SUBSET JobsUpTo(onLedger) /\ WithinLimit(js) /\ ProcessQueue(queue, js)
    BY <1>1, <2>1
  <2>3. js \subseteq jobs
    OBVIOUS
  <2> HIDE DEF js
  <2>4. /\ queue' \in Seq(1 .. onLedger) /\ (queue = <<>> => queue' = <<>>)
        /\ jobs' \subseteq JobsUpTo(onLedger) /\ WithinLimit(jobs')
        /\ js \subseteq jobs'
        /\ \A k \in jobs' \ js : k.step = "check" /\ k.payment \in Elements(queue)
        /\ Elements(queue') \subseteq Elements(queue)
        /\ Elements(queue) \subseteq Elements(queue') \cup PaymentsOf(jobs')
    BY <1>1, <2>2, QueueTaken
  <2>. QED BY <2>1, <2>3, <2>4 DEF js
<1>3. CASE j.via # "worker"
  <2>1. jobs' = jobs \ {j} /\ UNCHANGED worker
    BY <1>3 DEF Finish
  <2>. QED BY <1>1, <2>1 DEF worker
<1>. QED BY <1>2, <1>3

LEMMA JobPlace ==
  ASSUME Placed, NEW j \in jobs
  PROVE  /\ j.payment \in 1 .. onLedger /\ j.payment \in Payments /\ onLedger \in Nat
         /\ j.via \in Vias /\ j.step \in {"check", "record", "save"}
BY LedgerSize DEF Placed, JobsPlaced, JobsUpTo

LEMMA FinishPlaced ==
  ASSUME Placed, NEW j \in jobs, Finish(j), cursor' \in {cursor, j.payment},
         UNCHANGED <<ledger, streams>>
  PROVE  Placed'
<1>1. /\ queue' \in Seq(1 .. onLedger) /\ (queue = <<>> => queue' = <<>>)
      /\ jobs' \subseteq JobsUpTo(onLedger) /\ WithinLimit(jobs')
      /\ workerCursor' \in {workerCursor, j.payment}
      /\ pending' \in {pending, j.payment}
      /\ UNCHANGED <<seen, workerAt>>
  BY FinishFacts
<1>2. onLedger' = onLedger /\ j.payment \in 1 .. onLedger /\ onLedger \in Nat
      /\ UNCHANGED <<monitor, replayAt, replayTo, monitorAt>>
  BY JobPlace DEF onLedger, streams
<1>3. CursorsPlaced'
  BY <1>1, <1>2 DEF Placed, CursorsPlaced
<1>4. LedgerPlaced' /\ SeenPlaced' /\ MonitorPlaced' /\ QueuePlaced' /\ JobsPlaced'
  BY <1>1, <1>2
     DEF Placed, LedgerPlaced, SeenPlaced, MonitorPlaced, QueuePlaced, JobsPlaced,
         WithinLimit
<1>. QED BY <1>3, <1>4 DEF Placed

LEMMA MovePlaced ==
  ASSUME Placed, NEW j \in jobs, NEW step \in {"check", "record", "save"},
         MoveTo(j, step), cursor' \in {cursor, j.payment},
         UNCHANGED <<ledger, worker, streams>>
  PROVE  Placed' /\ PaymentsOf(jobs') = PaymentsOf(jobs)
<1>1. /\ onLedger' = onLedger /\ j.payment \in 1 .. onLedger /\ onLedger \in Nat
      /\ UNCHANGED <<monitor, replayAt, replayTo, monitorAt>>
      /\ UNCHANGED <<queue, seen, workerCursor, pending, workerAt>>
  BY JobPlace DEF onLedger, streams, worker
<1>2. /\ jobs' \subseteq JobsUpTo(onLedger) /\ WithinLimit(jobs')
      /\ PaymentsOf(jobs') = PaymentsOf(jobs)
  BY <1>1, JobsMove DEF MoveTo, Placed, JobsPlaced
<1>3. CursorsPlaced'
  BY <1>1 DEF Placed, CursorsPlaced
<1>4. LedgerPlaced' /\ SeenPlaced' /\ MonitorPlaced' /\ QueuePlaced' /\ JobsPlaced'
  BY <1>1, <1>2
     DEF Placed, LedgerPlaced, SeenPlaced, MonitorPlaced, QueuePlaced, JobsPlaced,
         WithinLimit
<1>. QED BY <1>2, <1>3, <1>4 DEF Placed

(* A job of the monitor begins. *)
LEMMA MonitorJobPlaced ==
  ASSUME Placed, NEW via \in {"replay", "stream"}, NEW p \in 1 .. onLedger,
         jobs' = jobs \cup {Job(via, p)}
  PROVE  /\ jobs' \subseteq JobsUpTo(onLedger) /\ WithinLimit(jobs')
         /\ PaymentsOf(jobs') = PaymentsOf(jobs) \cup {p}
         /\ jobs \subseteq jobs' /\ \A j \in jobs' \ jobs : j.step = "check"
<1> DEFINE k == Job(via, p)
<1>1. /\ k \in JobsUpTo(onLedger) /\ k.via # "worker" /\ k.payment = p /\ k.step = "check"
  BY DEF Job, JobsUpTo, Vias
<1>2. jobs' = jobs \cup {k}
  OBVIOUS
<1> HIDE DEF k
<1>3. WithinLimit(jobs \cup {k})
  BY <1>1, JobsAddOne DEF Placed, JobsPlaced
<1>. QED BY <1>1, <1>2, <1>3 DEF Placed, JobsPlaced, PaymentsOf

(* The monitor's steps, and the job they begin. *)
LEMMA MonitorFacts ==
  ASSUME Placed,
         \/ BeginReplay \/ ReplayFails \/ WatchFails \/ OpenStream
         \/ ReplayNext \/ MonitorDeliver
  PROVE  /\ Placed'
         /\ UNCHANGED <<ledger, database, announcements, worker, skipped, matchFailures,
                        disconnects, crashes>>
         /\ failures' \in {failures, failures + 1}
         /\ \A j \in jobs' \ jobs : j.step = "check"
         /\ jobs \subseteq jobs'
         /\ monitor \in {"connecting", "replaying", "opening", "open"}
         /\ \/ monitor' \in {"connecting", "replaying", "opening", "open"}
            \/ monitor' = "abandoned" /\ failures' = failures + 1
<1>1. /\ UNCHANGED <<ledger, database, announcements, worker, skipped, matchFailures,
                     disconnects, crashes>>
      /\ failures' \in {failures, failures + 1}
      /\ monitor \in {"connecting", "replaying", "opening", "open"}
      /\ \/ monitor' \in {"connecting", "replaying", "opening", "open"}
         \/ monitor' = "abandoned" /\ failures' = failures + 1
  BY DEF BeginReplay, ReplayFails, WatchFails, OpenStream, ReplayNext, MonitorDeliver,
         MonitorStep, bounds
<1>2. /\ onLedger' = onLedger /\ onLedger \in Nat
      /\ UNCHANGED <<cursor, queue, seen, workerCursor, pending, workerAt>>
      /\ cursor \in -1 .. onLedger
  BY <1>1, LedgerSize DEF onLedger, database, worker, Placed, CursorsPlaced
<1>3. /\ monitorAt \in 0 .. onLedger /\ replayAt \in 0 .. onLedger
      /\ replayTo \in 0 .. onLedger /\ replayAt <= replayTo
  BY DEF Placed, MonitorPlaced
<1>4. StartAfter(cursor) \in 0 .. onLedger /\ (cursor # NoCursor => StartAfter(cursor) = cursor)
  BY <1>2, StartFacts DEF Placed
<1>5. /\ {replayAt', replayTo', monitorAt'} \subseteq 0 .. onLedger /\ replayAt' <= replayTo'
      /\ \/ jobs' = jobs
         \/ \E via \in {"replay", "stream"}, p \in 1 .. onLedger :
              jobs' = jobs \cup {Job(via, p)}
  <2>1. CASE BeginReplay
    <3>1. CASE StartAfter(cursor) < onLedger
      <4>1. cursor # NoCursor
        BY <1>2, <3>1 DEF StartAfter
      <4>2. replayAt' = cursor /\ replayTo' = onLedger /\ UNCHANGED <<jobs, monitorAt>>
        BY <2>1, <3>1 DEF BeginReplay
      <4>. QED BY <1>2, <1>3, <1>4, <3>1, <4>1, <4>2
    <3>2. CASE ~(StartAfter(cursor) < onLedger)
      BY <1>3, <2>1, <3>2 DEF BeginReplay
    <3>. QED BY <3>1, <3>2
  <2>2. CASE ReplayFails \/ WatchFails
    BY <1>3, <2>2 DEF ReplayFails, WatchFails
  <2>3. CASE OpenStream
    BY <1>3, <1>4, <2>3 DEF OpenStream
  <2>4. CASE ReplayNext
    <3>1. CASE replayAt < replayTo
      <4>1. /\ replayAt' = replayAt + 1 /\ UNCHANGED <<replayTo, monitorAt>>
            /\ jobs' = jobs \cup {Job("replay", replayAt + 1)}
        BY <2>4, <3>1 DEF ReplayNext
      <4>2. replayAt + 1 \in 1 .. onLedger /\ replayAt + 1 <= replayTo
        BY <1>2, <1>3, <3>1
      <4>. QED BY <1>2, <1>3, <4>1, <4>2
    <3>2. CASE ~(replayAt < replayTo)
      BY <1>2, <1>3, <2>4, <3>2 DEF ReplayNext
    <3>. QED BY <3>1, <3>2
  <2>5. CASE MonitorDeliver
    <3>1. /\ monitorAt' = monitorAt + 1 /\ monitorAt < onLedger
          /\ UNCHANGED <<replayTo, replayAt>>
          /\ jobs' = jobs \cup {Job("stream", monitorAt + 1)}
      BY <2>5 DEF MonitorDeliver
    <3>2. monitorAt + 1 \in 1 .. onLedger
      BY <1>2, <1>3, <3>1
    <3>. QED BY <1>2, <1>3, <3>1, <3>2
  <2>. QED BY <2>1, <2>2, <2>3, <2>4, <2>5
<1>6. /\ jobs' \subseteq JobsUpTo(onLedger) /\ WithinLimit(jobs')
      /\ jobs \subseteq jobs' /\ \A j \in jobs' \ jobs : j.step = "check"
  BY <1>5, MonitorJobPlaced DEF Placed, JobsPlaced
<1>7. /\ LedgerPlaced' /\ CursorsPlaced' /\ SeenPlaced' /\ MonitorPlaced'
      /\ QueuePlaced' /\ JobsPlaced'
  BY <1>1, <1>2, <1>5, <1>6
     DEF Placed, LedgerPlaced, CursorsPlaced, SeenPlaced, MonitorPlaced, QueuePlaced,
         JobsPlaced, WithinLimit
<1>8. Placed'
  BY <1>7 DEF Placed
<1>. QED BY <1>1, <1>6, <1>8

(* Streams that break, and a process that stops. *)
LEMMA BreakPlaced ==
  ASSUME Placed, WorkerReopen \/ Disconnect \/ Crash
  PROVE  Placed'
<1>1. /\ onLedger \in Nat /\ {cursor, workerCursor, pending, workerAt} \subseteq -1 .. onLedger
      /\ StartAfter(workerCursor) \in 0 .. onLedger
  <2>1. workerCursor \in -1 .. onLedger
    BY DEF Placed, CursorsPlaced
  <2>. QED BY <2>1, LedgerSize, StartFacts DEF Placed, CursorsPlaced
<1>2. CASE WorkerReopen
  <2>1. /\ UNCHANGED <<ledger, cursor, queue, seen, workerCursor, pending, jobs,
                       monitor, replayAt, replayTo, monitorAt>>
        /\ workerAt' = StartAfter(workerCursor) /\ workerAt # Closed
    BY <1>2 DEF WorkerReopen, database, streams
  <2>2. onLedger' = onLedger
    BY <2>1 DEF onLedger
  <2>. QED BY <1>1, <2>1, <2>2
         DEF Placed, LedgerPlaced, CursorsPlaced, SeenPlaced, MonitorPlaced, QueuePlaced,
             JobsPlaced, WithinLimit
<1>3. CASE Disconnect
  <2>1. /\ UNCHANGED <<ledger, cursor, queue, seen, jobs, replayAt, replayTo>>
        /\ workerAt' = Closed /\ workerCursor' = NoCursor /\ pending' = NoCursor
        /\ monitor' = "waiting" /\ monitorAt' = 0
    BY <1>3 DEF Disconnect, database
  <2>2. onLedger' = onLedger
    BY <2>1 DEF onLedger
  <2>. QED BY <1>1, <2>1, <2>2
         DEF Placed, LedgerPlaced, CursorsPlaced, SeenPlaced, MonitorPlaced, QueuePlaced,
             JobsPlaced, WithinLimit, Closed, NoCursor
<1>4. CASE Crash
  <2>1. /\ UNCHANGED <<ledger, cursor>>
        /\ workerAt' = Closed /\ workerCursor' = NoCursor /\ pending' = NoCursor
        /\ monitor' = "down" /\ replayAt' = 0 /\ replayTo' = 0 /\ monitorAt' = 0
        /\ queue' = <<>> /\ jobs' = {} /\ seen' = {}
    BY <1>4 DEF Crash, database
  <2>2. onLedger' = onLedger
    BY <2>1 DEF onLedger
  <2>3. queue' \in Seq(1 .. onLedger)
    BY <2>1, EmptySeq
  <2>4. JobsPlaced'
    <3>1. IsFiniteSet({}) /\ Cardinality({}) = 0
      BY FS_EmptySet
    <3>2. WorkerJobs({}) = {}
      BY DEF WorkerJobs
    <3>3. WithinLimit({})
      BY <3>1, <3>2, LimitType DEF WithinLimit
    <3>. QED BY <2>1, <3>3 DEF JobsPlaced
  <2>. QED BY <1>1, <2>1, <2>2, <2>3, <2>4
         DEF Placed, LedgerPlaced, CursorsPlaced, SeenPlaced, MonitorPlaced, QueuePlaced,
             Closed, NoCursor
<1>. QED BY <1>2, <1>3, <1>4

(* Flushes, hooks, the refresh and stuttering. *)
QuietStep ==
  \/ FlushCursors \/ FlushFails \/ RefreshStatus
  \/ (\E s \in {"funded", "failed"} : RunHook(s)) \/ UNCHANGED vars

LEMMA QuietFacts ==
  ASSUME QuietStep
  PROVE  /\ UNCHANGED <<ledger, receipts, rows, matchOf, matched, raised>>
         /\ UNCHANGED <<queue, seen, workerCursor, workerAt, jobs, streams, skipped>>
         /\ UNCHANGED <<matchFailures, disconnects, crashes>>
         /\ failures' \in {failures, failures + 1}
         /\ \/ UNCHANGED <<cursor, pending>>
            \/ pending # NoCursor /\ pending' = NoCursor /\ cursor' = pending
            \/ pending' = NoCursor /\ cursor' = cursor
BY DEF QuietStep, FlushCursors, FlushFails, RefreshStatus, RunHook, vars,
       database, worker, streams, bounds

LEMMA QuietPlaced ==
  ASSUME Placed, QuietStep
  PROVE  Placed'
<1>1. /\ UNCHANGED <<ledger, queue, seen, workerCursor, workerAt, jobs,
                     monitor, replayAt, replayTo, monitorAt>>
      /\ cursor' \in {cursor, pending} /\ pending' \in {pending, NoCursor}
  BY QuietFacts DEF streams
<1>2. onLedger' = onLedger /\ onLedger \in Nat
  BY <1>1, LedgerSize DEF onLedger, Placed
<1>. QED BY <1>1, <1>2
       DEF Placed, LedgerPlaced, CursorsPlaced, SeenPlaced, MonitorPlaced, QueuePlaced,
           JobsPlaced, WithinLimit, NoCursor

(* The steps of a job. *)
LEMMA MoveFacts ==
  ASSUME NEW j \in jobs,
         \/ CheckStatus(j) \/ Record(j) \/ RecordFails(j) \/ RecordCollides(j)
         \/ MatchFails(j)
  PROVE  /\ \E step \in {"record", "save"} : MoveTo(j, step)
         /\ cursor' \in {cursor, j.payment}
         /\ UNCHANGED <<ledger, worker, streams, events, disconnects, crashes>>
         /\ failures' \in {failures, failures + 1}
         /\ matchFailures' \in {matchFailures, matchFailures + 1}
BY DEF CheckStatus, Record, RecordFails, RecordCollides, MatchFails, database,
       announcements, bounds

LEMMA EndFacts ==
  ASSUME NEW j \in jobs, CheckFails(j) \/ SaveCursor(j) \/ SaveFails(j)
  PROVE  /\ Finish(j) /\ cursor' \in {cursor, j.payment}
         /\ UNCHANGED <<ledger, streams, receipts, rows, matchOf, matched, raised, status>>
         /\ UNCHANGED <<announcements, skipped, matchFailures, disconnects, crashes>>
         /\ failures' \in {failures, failures + 1}
         /\ \/ j.step = "save" /\ cursor' = j.payment
            \/ failures' = failures + 1 /\ cursor' = cursor
BY DEF CheckFails, SaveCursor, SaveFails, database, bounds

LEMMA PlacedStep ==
  ASSUME Placed, [Next]_vars
  PROVE  Placed'
<1>1. CASE Pay
  BY <1>1, PayPlaced
<1>2. CASE Start \/ RegisterWallet \/ RegisterUnreplayed \/ WorkerDeliver
  BY <1>2, StartPlaced, RegisterPlaced, DeliverPlaced
<1>3. CASE \/ BeginReplay \/ ReplayFails \/ WatchFails \/ OpenStream
           \/ ReplayNext \/ MonitorDeliver
  BY <1>3, MonitorFacts
<1>4. CASE WorkerReopen \/ Disconnect \/ Crash
  BY <1>4, BreakPlaced
<1>5. ASSUME NEW j \in jobs,
             \/ CheckStatus(j) \/ Record(j) \/ RecordFails(j) \/ RecordCollides(j)
             \/ MatchFails(j)
      PROVE  Placed'
  BY <1>5, MoveFacts, MovePlaced
<1>6. ASSUME NEW j \in jobs, CheckFails(j) \/ SaveCursor(j) \/ SaveFails(j)
      PROVE  Placed'
  BY <1>6, EndFacts, FinishPlaced
<1>7. CASE QuietStep
  BY <1>7, QuietPlaced
<1>. QED BY <1>1, <1>2, <1>3, <1>4, <1>5, <1>6, <1>7
       DEF Next, StreamStep, JobStep, JobFailure, QuietStep

---------------------------------------------------------------------------
(* The database. *)
LEMMA AmountFacts ==
  ASSUME DatabaseTyped, NEW p \in Payments
  PROVE  /\ AmountOf[p] \in Nat \ {0} /\ MatchFor(p) \in Nat /\ Credit(p) \in Nat
         /\ matched + MatchFor(p) \in 0 .. Pledge
<1>1. AmountOf[p] \in Nat \ {0} /\ Ratio \in Nat /\ Pledge \in Nat
  BY PaymentsAssumption, CampaignAssumption
<1>2. AmountOf[p] * Ratio \in Nat
  BY <1>1, MulNat
<1>3. matched \in Nat /\ matched <= Pledge
  BY <1>1 DEF DatabaseTyped
<1>4. MatchFor(p) \in Nat /\ MatchFor(p) <= Pledge - matched
  BY <1>1, <1>2, <1>3 DEF MatchFor, Smaller
<1> HIDE DEF MatchFor
<1>. QED BY <1>1, <1>3, <1>4 DEF Credit

(* A step of the database that is neither a payment's transaction, nor a    *)
(* refresh, leaves its tables alone.                                        *)
LEMMA TablesStay ==
  ASSUME Placed, [Next]_vars
  PROVE  \/ Pay /\ UNCHANGED <<receipts, rows, matchOf, matched, raised, status>>
         \/ \E j \in jobs : Record(j)
         \/ RefreshStatus
         \/ UNCHANGED <<ledger, receipts, rows, matchOf, matched, raised, status>>
<1>1. CASE Pay
  BY <1>1 DEF Pay, database
<1>2. ASSUME \/ Start \/ RegisterWallet \/ RegisterUnreplayed \/ WorkerDeliver
             \/ WorkerReopen \/ Disconnect \/ Crash
      PROVE  UNCHANGED <<ledger, receipts, rows, matchOf, matched, raised, status>>
  BY <1>2 DEF Start, RegisterWallet, RegisterUnreplayed, Register, WorkerDeliver,
              WorkerReopen, Disconnect, Crash, database
<1>3. ASSUME \/ BeginReplay \/ ReplayFails \/ WatchFails \/ OpenStream
             \/ ReplayNext \/ MonitorDeliver
      PROVE  UNCHANGED <<ledger, receipts, rows, matchOf, matched, raised, status>>
  BY <1>3, MonitorFacts DEF database
<1>4. ASSUME NEW j \in jobs,
             CheckStatus(j) \/ RecordFails(j) \/ RecordCollides(j) \/ MatchFails(j)
      PROVE  UNCHANGED <<ledger, receipts, rows, matchOf, matched, raised, status>>
  BY <1>4 DEF CheckStatus, RecordFails, RecordCollides, MatchFails, database
<1>5. ASSUME NEW j \in jobs, CheckFails(j) \/ SaveCursor(j) \/ SaveFails(j)
      PROVE  UNCHANGED <<ledger, receipts, rows, matchOf, matched, raised, status>>
  BY <1>5, EndFacts
<1>6. ASSUME \/ FlushCursors \/ FlushFails
             \/ (\E s \in {"funded", "failed"} : RunHook(s)) \/ UNCHANGED vars
      PROVE  UNCHANGED <<ledger, receipts, rows, matchOf, matched, raised, status>>
  BY <1>6 DEF FlushCursors, FlushFails, RunHook, vars, database
<1>. QED BY <1>1, <1>2, <1>3, <1>4, <1>5, <1>6 DEF Next, StreamStep, JobStep, JobFailure

(* What the transaction of a payment writes. *)
LEMMA RecordFacts ==
  ASSUME Placed, DatabaseTyped, NEW j \in jobs, Record(j)
  PROVE  LET p == j.payment IN
         /\ p \in Payments /\ p \in 1 .. onLedger /\ UNCHANGED <<ledger, skipped>>
         /\ cursor' = p /\ receipts' = receipts \cup {p}
         /\ Fresh(p) =>
              /\ rows' = [rows EXCEPT ![p] = rows[p] + 1]
              /\ matchOf' = [matchOf EXCEPT ![p] = matchOf[p] + MatchFor(p)]
              /\ matched' = matched + MatchFor(p)
              /\ raised' = raised + AmountOf[p] + MatchFor(p)
              /\ status' = IF raised + Credit(p) >= Target THEN "funded" ELSE status
              /\ hooks' \in {hooks, hooks \cup {"funded"}}
         /\ ~Fresh(p) => UNCHANGED <<rows, matchOf, matched, raised, status, hooks>>
<1>1. j.payment \in Payments /\ j.payment \in 1 .. onLedger
  BY JobPlace
<1>2. /\ AmountOf[j.payment] \in Nat /\ MatchFor(j.payment) \in Nat /\ raised \in Nat
  BY <1>1, AmountFacts DEF DatabaseTyped
<1>3. raised + Credit(j.payment) = raised + AmountOf[j.payment] + MatchFor(j.payment)
  BY <1>2 DEF Credit
<1>. QED BY <1>1, <1>3 DEF Record, StatusAfter

LEMMA DatabaseTypedStep ==
  ASSUME Placed, DatabaseTyped, [Next]_vars
  PROVE  DatabaseTyped'
<1>1. ASSUME NEW j \in jobs, Record(j)
      PROVE  DatabaseTyped'
  <2> DEFINE p == j.payment
  <2>1. /\ p \in Payments /\ receipts' = receipts \cup {p}
        /\ Fresh(p) =>
              /\ rows' = [rows EXCEPT ![p] = rows[p] + 1]
              /\ matchOf' = [matchOf EXCEPT ![p] = matchOf[p] + MatchFor(p)]
              /\ matched' = matched + MatchFor(p)
              /\ raised' = raised + AmountOf[p] + MatchFor(p)
              /\ status' = IF raised + Credit(p) >= Target THEN "funded" ELSE status
        /\ ~Fresh(p) => UNCHANGED <<rows, matchOf, matched, raised, status, hooks>>
    BY <1>1, RecordFacts
  <2>2. /\ AmountOf[p] \in Nat \ {0} /\ MatchFor(p) \in Nat
        /\ matched + MatchFor(p) \in 0 .. Pledge
    BY <2>1, AmountFacts
  <2> HIDE DEF p
  <2>3. CASE ~Fresh(p)
    BY <2>1, <2>3 DEF DatabaseTyped
  <2>4. CASE Fresh(p)
    <3>1. rows[p] + 1 \in Nat /\ matchOf[p] + MatchFor(p) \in Nat
      BY <2>1, <2>2 DEF DatabaseTyped
    <3>2. raised + AmountOf[p] + MatchFor(p) \in Nat
      BY <2>2 DEF DatabaseTyped
    <3>. QED BY <2>1, <2>2, <2>4, <3>1, <3>2 DEF DatabaseTyped
  <2>. QED BY <2>3, <2>4
<1>2. CASE RefreshStatus
  BY <1>2 DEF RefreshStatus, DatabaseTyped
<1>3. CASE UNCHANGED <<receipts, rows, matchOf, matched, raised, status>>
  BY <1>3 DEF DatabaseTyped
<1>. QED BY <1>1, <1>2, <1>3, TablesStay

LEMMA HooksTypedStep ==
  ASSUME HooksTyped, [Next]_vars
  PROVE  HooksTyped'
<1>1. ASSUME NEW j \in jobs, Record(j) PROVE HooksTyped'
  <2>1. events' = events /\ hooks' \in {hooks, hooks \cup {"funded"}}
    BY <1>1 DEF Record
  <2>. QED BY <2>1 DEF HooksTyped
<1>2. CASE RefreshStatus
  <2>1. events' = events /\ hooks' = hooks \cup {status'} /\ status' \in {"funded", "failed"}
    BY <1>2 DEF RefreshStatus
  <2>. QED BY <2>1 DEF HooksTyped
<1>3. ASSUME NEW s \in {"funded", "failed"}, RunHook(s) PROVE HooksTyped'
  BY <1>3 DEF RunHook, HooksTyped
<1>4. CASE Crash
  BY <1>4 DEF Crash, HooksTyped
<1>5. ASSUME NEW j \in jobs,
             \/ CheckStatus(j) \/ RecordCollides(j) \/ SaveCursor(j) \/ JobFailure(j)
      PROVE  UNCHANGED announcements
  BY <1>5 DEF CheckStatus, RecordCollides, SaveCursor, JobFailure, CheckFails, RecordFails,
              MatchFails, SaveFails
<1>6. ASSUME \/ Pay \/ StreamStep \/ WorkerReopen \/ Disconnect \/ ReplayFails
             \/ RegisterUnreplayed \/ WatchFails \/ FlushCursors \/ FlushFails
             \/ UNCHANGED vars
      PROVE  UNCHANGED announcements
  BY <1>6 DEF Pay, StreamStep, WorkerReopen, Disconnect, ReplayFails, RegisterUnreplayed,
              WatchFails, FlushCursors, FlushFails, Start, WorkerDeliver, BeginReplay,
              ReplayNext, OpenStream, MonitorDeliver, RegisterWallet, Register, MonitorStep,
              vars
<1>7. UNCHANGED announcements => HooksTyped'
  BY DEF announcements, HooksTyped
<1>. QED BY <1>1, <1>2, <1>3, <1>4, <1>5, <1>6, <1>7 DEF Next, JobStep

LEMMA HistoryTypedStep ==
  ASSUME Placed, HistoryTyped, [Next]_vars
  PROVE  /\ HistoryTyped' /\ skipped \subseteq skipped'
         /\ failures \in Nat /\ matchFailures \in Nat /\ crashes \in Nat
         /\ failures' \in {failures, failures + 1}
         /\ matchFailures' \in {matchFailures, matchFailures + 1}
         /\ crashes' \in {crashes, crashes + 1}
<1>0. {failures, matchFailures, disconnects, crashes} \subseteq Nat /\ skipped \subseteq Payments
  BY DEF HistoryTyped
<1> DEFINE Counted == /\ failures' \in {failures, failures + 1}
                      /\ matchFailures' \in {matchFailures, matchFailures + 1}
                      /\ disconnects' \in {disconnects, disconnects + 1}
                      /\ crashes' \in {crashes, crashes + 1}
<1>1. ASSUME NEW j \in jobs, JobStep(j) \/ JobFailure(j)
      PROVE  Counted /\ skipped' \in {skipped, skipped \cup {j.payment}}
  BY <1>1 DEF JobStep, JobFailure, CheckStatus, Record, RecordCollides, SaveCursor,
              CheckFails, RecordFails, MatchFails, SaveFails, bounds
<1>2. ASSUME \/ BeginReplay \/ ReplayFails \/ WatchFails \/ OpenStream
             \/ ReplayNext \/ MonitorDeliver
      PROVE  Counted /\ skipped' = skipped
  BY <1>2, MonitorFacts
<1>3. ASSUME QuietStep
      PROVE  Counted /\ skipped' = skipped
  BY <1>3, QuietFacts
<1>4. ASSUME \/ Pay \/ Start \/ RegisterWallet \/ RegisterUnreplayed \/ WorkerDeliver
             \/ WorkerReopen \/ Disconnect \/ Crash
      PROVE  Counted /\ skipped' = skipped
  BY <1>4 DEF Pay, Start, RegisterWallet, RegisterUnreplayed, Register, WorkerDeliver,
              WorkerReopen, Disconnect, Crash, bounds
<1>5. ASSUME Counted, \/ skipped' = skipped
                      \/ \E j \in jobs : skipped' = skipped \cup {j.payment}
      PROVE  HistoryTyped' /\ skipped \subseteq skipped'
  <2>1. \A j \in jobs : j.payment \in Payments
    BY JobPlace
  <2>. QED BY <1>0, <1>5, <2>1 DEF HistoryTyped
<1>6. Counted /\ \/ skipped' = skipped
                 \/ \E j \in jobs : skipped' = skipped \cup {j.payment}
  BY <1>1, <1>2, <1>3, <1>4 DEF Next, StreamStep, QuietStep
<1>. QED BY <1>0, <1>5, <1>6

---------------------------------------------------------------------------
(* What is recorded. *)

(* A payment once recorded stays recorded. *)
LEMMA RecordedStays ==
  ASSUME Placed, DatabaseTyped, [Next]_vars, NEW p \in 1 .. onLedger, TransactionRecorded(p)
  PROVE  TransactionRecorded(p)'
<1>1. PICK q \in 1 .. onLedger : p <= onLedger /\ ledger[q] = ledger[p] /\ rows[q] > 0
  BY DEF TransactionRecorded
<1>2. /\ onLedger \in Nat /\ q \in Payments /\ rows[q] \in Nat
  BY LedgerSize DEF Placed, DatabaseTyped
<1>3. CASE Pay /\ UNCHANGED rows
  <2>1. onLedger' = onLedger + 1 /\ ledger'[p] = ledger[p] /\ ledger'[q] = ledger[q]
    BY <1>3, PayPlaced
  <2>2. q \in 1 .. onLedger' /\ p <= onLedger'
    BY <1>1, <1>2, <2>1
  <2>. QED BY <1>1, <1>3, <2>1, <2>2 DEF TransactionRecorded
<1>4. ASSUME UNCHANGED ledger, rows'[q] > 0
      PROVE  TransactionRecorded(p)'
  <2>1. onLedger' = onLedger
    BY <1>4 DEF onLedger
  <2>. QED BY <1>1, <1>4, <2>1 DEF TransactionRecorded
<1>5. ASSUME NEW j \in jobs, Record(j) PROVE TransactionRecorded(p)'
  <2>1. /\ UNCHANGED ledger /\ j.payment \in Payments
        /\ \/ rows' = [rows EXCEPT ![j.payment] = rows[j.payment] + 1]
           \/ rows' = rows
    BY <1>5, RecordFacts
  <2>2. rows'[q] > 0
    BY <1>1, <1>2, <2>1 DEF DatabaseTyped
  <2>. QED BY <1>4, <2>1, <2>2
<1>6. CASE RefreshStatus
  BY <1>1, <1>4, <1>6 DEF RefreshStatus
<1>. QED BY <1>1, <1>3, <1>4, <1>5, <1>6, TablesStay

(* The transaction of a payment leaves it recorded. *)
LEMMA RecordRecords ==
  ASSUME Placed, DatabaseTyped, ReceiptMeansRecorded, [Next]_vars,
         NEW j \in jobs, Record(j)
  PROVE  TransactionRecorded(j.payment)'
<1> DEFINE p == j.payment
<1>1. /\ p \in Payments /\ p \in 1 .. onLedger /\ UNCHANGED ledger
      /\ Fresh(p) => rows' = [rows EXCEPT ![p] = rows[p] + 1]
  BY RecordFacts
<1>2. CASE Fresh(p)
  <2>1. onLedger' = onLedger /\ onLedger \in Nat
    BY <1>1, LedgerSize DEF onLedger, Placed
  <2>2. rows'[p] > 0
    BY <1>1, <1>2 DEF DatabaseTyped
  <2> HIDE DEF p
  <2>. QED BY <1>1, <2>1, <2>2 DEF TransactionRecorded, p
<1>3. CASE ~Fresh(p)
  <2>1. TransactionRecorded(p)
    BY <1>3 DEF Fresh, ReceiptMeansRecorded
  <2>. QED BY <1>1, <2>1, RecordedStays
<1>. QED BY <1>2, <1>3

(* What the rows of a table of contributions add up to. *)
Worths(r, m) == [p \in Payments |-> r[p] * AmountOf[p] + m[p]]

LEMMA WorthsType ==
  ASSUME DatabaseTyped
  PROVE  IsFiniteSet(Payments) /\ Worths(rows, matchOf) \in [Payments -> Nat]
<1>1. IsFiniteSet(Payments)
  BY PaymentsAssumption, FS_Interval, SMT DEF Payments
<1>2. \A p \in Payments : rows[p] * AmountOf[p] + matchOf[p] \in Nat
  <2> SUFFICES ASSUME NEW p \in Payments PROVE rows[p] * AmountOf[p] + matchOf[p] \in Nat
    OBVIOUS
  <2>1. rows[p] \in Nat /\ AmountOf[p] \in Nat /\ matchOf[p] \in Nat
    BY AmountFacts DEF DatabaseTyped
  <2>2. rows[p] * AmountOf[p] \in Nat
    BY <2>1, MulNat
  <2>. QED BY <2>1, <2>2
<1>. QED BY <1>1, <1>2 DEF Worths

LEMMA RecordBookRecord ==
  ASSUME Placed, DatabaseTyped, RecordBook, [Next]_vars, NEW j \in jobs, Record(j)
  PROVE  RecordBook'
<1> DEFINE p == j.payment
           match == MatchFor(p)
<1>0. RowsExist /\ CreditedOnce /\ RaisedIsRecorded /\ ReceiptMeansRecorded /\ FundedMeansTarget
  BY DEF RecordBook
<1>1. /\ p \in Payments /\ p \in 1 .. onLedger /\ UNCHANGED ledger
      /\ receipts' = receipts \cup {p}
      /\ Fresh(p) =>
           /\ rows' = [rows EXCEPT ![p] = rows[p] + 1]
           /\ matchOf' = [matchOf EXCEPT ![p] = matchOf[p] + match]
           /\ matched' = matched + match
           /\ raised' = raised + AmountOf[p] + match
           /\ status' = IF raised + Credit(p) >= Target THEN "funded" ELSE status
      /\ ~Fresh(p) => UNCHANGED <<rows, matchOf, matched, raised, status>>
  BY RecordFacts
<1>2. /\ AmountOf[p] \in Nat \ {0} /\ match \in Nat /\ raised \in Nat /\ matched \in Nat
      /\ Credit(p) = AmountOf[p] + match
      /\ rows \in [Payments -> Nat] /\ matchOf \in [Payments -> Nat]
  BY <1>1, AmountFacts, CampaignAssumption DEF DatabaseTyped, Credit
<1>3. onLedger' = onLedger /\ onLedger \in Nat
  BY <1>1, LedgerSize DEF onLedger, Placed
<1>4. ReceiptMeansRecorded'
  <2>1. TransactionRecorded(p)'
    BY <1>0, RecordRecords
  <2>2. ASSUME NEW x \in receipts PROVE TransactionRecorded(x)'
    <3>1. TransactionRecorded(x) /\ x \in Payments
      BY <1>0 DEF ReceiptMeansRecorded, DatabaseTyped
    <3>2. x \in 1 .. onLedger
      BY <1>3, <3>1, PaymentsAssumption DEF TransactionRecorded, Payments
    <3>. QED BY <3>1, <3>2, RecordedStays
  <2>. QED BY <1>1, <2>1, <2>2 DEF ReceiptMeansRecorded
<1> HIDE DEF p, match
<1>5. p \in Payments /\ matchOf \in [Payments -> Nat]
  BY <1>1, <1>2
<1>6. CASE ~Fresh(p)
  BY <1>0, <1>1, <1>3, <1>4, <1>6
     DEF RecordBook, RowsExist, CreditedOnce, RaisedIsRecorded, FundedMeansTarget
<1>7. CASE Fresh(p)
  <2>1. \A q \in 1 .. onLedger : ledger[q] = ledger[p] => ~(rows[q] > 0)
    BY <1>1, <1>3, <1>7 DEF Fresh, TransactionRecorded
  <2>2. /\ rows' \in [Payments -> Nat] /\ rows[p] = 0 /\ rows'[p] = 1
        /\ \A q \in Payments : q # p => rows'[q] = rows[q]
    BY <1>1, <1>2, <1>7, <2>1
  <2>3. RowsExist'
    BY <1>0, <1>1, <1>3, <2>2 DEF RowsExist
  <2>4. CreditedOnce'
    <3> SUFFICES ASSUME NEW x \in 1 .. onLedger, NEW y \in 1 .. onLedger,
                        rows'[x] > 0, rows'[y] > 0, ledger[x] = ledger[y]
                 PROVE  x = y /\ rows'[x] = 1
      BY <1>1, <1>3 DEF CreditedOnce
    <3>1. x \in Payments /\ y \in Payments
      BY LedgerSize DEF Placed
    <3>. QED BY <1>0, <2>1, <2>2, <3>1 DEF CreditedOnce
  <2>5. RaisedIsRecorded'
    <3> DEFINE f == Worths(rows, matchOf)
    <3>1. IsFiniteSet(Payments) /\ f \in [Payments -> Nat]
      BY WorthsType
    <3>2. f[p] = rows[p] * AmountOf[p] + matchOf[p]
      BY <1>1 DEF Worths
    <3>3. Worths(rows', matchOf') = [f EXCEPT ![p] = f[p] + (AmountOf[p] + match)]
      <4>1. ASSUME NEW x \in Payments
            PROVE  rows'[x] * AmountOf[x] + matchOf'[x]
                     = IF x = p THEN f[p] + (AmountOf[p] + match) ELSE f[x]
        <5>1. CASE x = p
          <6>1. 1 * AmountOf[p] = AmountOf[p] /\ 0 * AmountOf[p] = 0
            BY <1>2
          <6>2. matchOf'[p] = matchOf[p] + match /\ matchOf[p] \in Nat
            BY <1>1, <1>2, <1>7
          <6>. QED BY <1>2, <2>2, <3>2, <5>1, <6>1, <6>2
        <5>2. CASE x # p
          <6>1. rows'[x] = rows[x] /\ matchOf'[x] = matchOf[x]
            BY <1>1, <1>2, <1>7, <2>2, <5>2
          <6>. QED BY <5>2, <6>1 DEF Worths
        <5>. QED BY <5>1, <5>2
      <4> HIDE DEF f
      <4>. QED BY <3>1, <4>1 DEF Worths
    <3> HIDE DEF f
    <3>4. f[p] \in Nat /\ f[p] + (AmountOf[p] + match) \in Nat
      BY <1>1, <1>2, <3>1
    <3>5. Total(Worths(rows', matchOf')) = Total(f) - f[p] + (f[p] + (AmountOf[p] + match))
      <4> DEFINE v == f[p] + (AmountOf[p] + match)
      <4>1. v \in Nat
        BY <3>4
      <4> HIDE DEF v
      <4>2. Total([f EXCEPT ![p] = v]) = Total(f) - f[p] + v
        BY <1>5, <3>1, <4>1, TotalUpdate
      <4>. QED BY <3>3, <4>2 DEF v
    <3>6. Total(f) = raised
      BY <1>0 DEF f, Worths, RaisedIsRecorded
    <3>7. Total(Worths(rows', matchOf')) = raised'
      BY <1>1, <1>2, <1>7, <3>4, <3>5, <3>6
    <3>8. Total(matchOf') = matched'
      <4>1. matchOf[p] \in Nat /\ matchOf[p] + match \in Nat
        BY <1>1, <1>2
      <4>2. Total(matchOf') = Total(matchOf) - matchOf[p] + (matchOf[p] + match)
        <5> DEFINE v == matchOf[p] + match
        <5>1. v \in Nat /\ matchOf' = [matchOf EXCEPT ![p] = v]
          BY <1>1, <1>7, <4>1
        <5> HIDE DEF v
        <5>2. Total([matchOf EXCEPT ![p] = v]) = Total(matchOf) - matchOf[p] + v
          BY <1>5, <3>1, <5>1, TotalUpdate
        <5>. QED BY <5>1, <5>2 DEF v
      <4>. QED BY <1>0, <1>1, <1>2, <1>7, <4>1, <4>2 DEF RaisedIsRecorded
    <3>. QED BY <3>7, <3>8 DEF RaisedIsRecorded, Worths
  <2>6. FundedMeansTarget'
    BY <1>0, <1>1, <1>2, <1>7, CampaignAssumption DEF FundedMeansTarget
  <2>. QED BY <1>4, <2>3, <2>4, <2>5, <2>6 DEF RecordBook
<1>. QED BY <1>6, <1>7

LEMMA RecordBookStep ==
  ASSUME Placed, DatabaseTyped, RecordBook, [Next]_vars
  PROVE  RecordBook'
<1>0. RowsExist /\ CreditedOnce /\ RaisedIsRecorded /\ ReceiptMeansRecorded /\ FundedMeansTarget
  BY DEF RecordBook
<1>1. ASSUME NEW j \in jobs, Record(j) PROVE RecordBook'
  BY <1>1, RecordBookRecord
<1>2. CASE Pay /\ UNCHANGED <<receipts, rows, matchOf, matched, raised, status>>
  <2>1. /\ onLedger' = onLedger + 1 /\ onLedger \in Nat
        /\ \A p \in 1 .. onLedger : ledger'[p] = ledger[p]
    BY <1>2, PayPlaced
  <2>2. RowsExist'
    BY <1>0, <1>2, <2>1, PaymentsAssumption DEF RowsExist, Payments
  <2>3. CreditedOnce'
    <3> SUFFICES ASSUME NEW x \in 1 .. onLedger', NEW y \in 1 .. onLedger',
                        rows[x] > 0, rows[y] > 0, ledger'[x] = ledger'[y]
                 PROVE  x = y /\ rows[x] = 1
      BY <1>2 DEF CreditedOnce
    <3>1. x <= onLedger /\ y <= onLedger
      <4>1. onLedger' <= NPayments
        BY <1>2, PayPlaced DEF Placed, LedgerPlaced
      <4>2. x \in Payments /\ y \in Payments
        BY <2>1, <4>1, PaymentsAssumption DEF Payments
      <4>. QED BY <1>0, <4>2 DEF RowsExist
    <3>2. x \in 1 .. onLedger /\ y \in 1 .. onLedger
      BY <2>1, <3>1
    <3>. QED BY <1>0, <2>1, <3>2 DEF CreditedOnce
  <2>4. ReceiptMeansRecorded'
    <3> SUFFICES ASSUME NEW x \in receipts PROVE TransactionRecorded(x)'
      BY <1>2 DEF ReceiptMeansRecorded
    <3>1. TransactionRecorded(x) /\ x \in Payments
      BY <1>0 DEF ReceiptMeansRecorded, DatabaseTyped
    <3>2. x \in 1 .. onLedger
      BY <2>1, <3>1, PaymentsAssumption DEF TransactionRecorded, Payments
    <3>. QED BY <3>1, <3>2, RecordedStays
  <2>. QED BY <1>0, <1>2, <2>2, <2>3, <2>4 DEF RecordBook, RaisedIsRecorded, FundedMeansTarget
<1>3. CASE RefreshStatus
  <2>1. /\ UNCHANGED <<ledger, receipts, rows, matchOf, matched, raised>>
        /\ status = "active" /\ status' = IF raised >= Target THEN "funded" ELSE "failed"
    BY <1>3 DEF RefreshStatus
  <2>2. onLedger' = onLedger
    BY <2>1 DEF onLedger
  <2>. QED BY <1>0, <2>1, <2>2
         DEF RecordBook, RowsExist, CreditedOnce, RaisedIsRecorded, ReceiptMeansRecorded,
             TransactionRecorded, FundedMeansTarget
<1>4. CASE UNCHANGED <<ledger, receipts, rows, matchOf, matched, raised, status>>
  <2>1. onLedger' = onLedger
    BY <1>4 DEF onLedger
  <2>. QED BY <1>0, <1>4, <2>1
         DEF RecordBook, RowsExist, CreditedOnce, RaisedIsRecorded, ReceiptMeansRecorded,
             TransactionRecorded, FundedMeansTarget
<1>. QED BY <1>1, <1>2, <1>3, <1>4, TablesStay

---------------------------------------------------------------------------
(* What is dealt with. *)
LEMMA DealtStays ==
  ASSUME Placed, DatabaseTyped, HistoryTyped, [Next]_vars,
         NEW p \in 1 .. onLedger, DealtWith(p)
  PROVE  DealtWith(p)'
BY RecordedStays, HistoryTypedStep DEF DealtWith

(* Most steps begin jobs at their first step, and give the worker nothing   *)
(* to flush.                                                                *)
LEMMA NewJobsCheck ==
  ASSUME Placed,
         \/ Pay \/ Start \/ RegisterWallet \/ RegisterUnreplayed \/ WorkerDeliver
         \/ BeginReplay \/ ReplayFails \/ WatchFails \/ OpenStream
         \/ ReplayNext \/ MonitorDeliver
         \/ WorkerReopen \/ Disconnect \/ Crash \/ QuietStep
  PROVE  /\ \A k \in jobs' : k \in jobs \/ k.step = "check"
         /\ pending' \in {pending, NoCursor}
<1>1. CASE Pay \/ Start \/ WorkerReopen \/ Disconnect
  <2>1. jobs' = jobs /\ pending' \in {pending, NoCursor}
    BY <1>1 DEF Pay, Start, WorkerReopen, Disconnect, worker
  <2>. QED BY <2>1
<1>2. CASE Crash
  <2>1. jobs' = {} /\ pending' = NoCursor
    BY <1>2 DEF Crash
  <2>. QED BY <2>1
<1>3. CASE RegisterWallet \/ RegisterUnreplayed
  <2>1. PICK fetched \in 0 .. onLedger : Register(fetched)
    BY <1>3, KnownFacts DEF RegisterWallet, RegisterUnreplayed, Known
  <2>2. (\A k \in jobs' \ jobs : k.step = "check") /\ pending' = pending
    BY <2>1, RegisterFacts
  <2>. QED BY <2>2
<1>4. CASE WorkerDeliver
  <2>1. (\A k \in jobs' \ jobs : k.step = "check") /\ pending' = pending
    BY <1>4, DeliverFacts
  <2>. QED BY <2>1
<1>5. CASE \/ BeginReplay \/ ReplayFails \/ WatchFails \/ OpenStream
           \/ ReplayNext \/ MonitorDeliver
  <2>1. (\A k \in jobs' \ jobs : k.step = "check") /\ pending' = pending
    BY <1>5, MonitorFacts DEF worker
  <2>. QED BY <2>1
<1>6. CASE QuietStep
  <2>1. jobs' = jobs /\ pending' \in {pending, NoCursor}
    BY <1>6, QuietFacts
  <2>. QED BY <2>1
<1>. QED BY <1>1, <1>2, <1>3, <1>4, <1>5, <1>6

LEMMA DoneBookStep ==
  ASSUME Placed, DatabaseTyped, HistoryTyped, RecordBook, DoneBook, [Next]_vars
  PROVE  DoneBook'
<1> SUFFICES ASSUME failures' + matchFailures' = 0
             PROVE  /\ \A k \in jobs' : k.step = "save" => DealtWith(k.payment)'
                    /\ pending' # NoCursor => DealtWith(pending)'
  BY DEF DoneBook
<1>1. failures = 0 /\ matchFailures = 0 /\ failures' = 0 /\ matchFailures' = 0
  BY HistoryTypedStep
<1>2. /\ \A k \in jobs : k.step = "save" => DealtWith(k.payment)
      /\ pending # NoCursor => DealtWith(pending)
  BY <1>1 DEF DoneBook
<1>3. \A k \in jobs : k.payment \in 1 .. onLedger
  BY JobPlace
<1>4. \A k \in jobs : k.step = "save" => DealtWith(k.payment)'
  BY <1>2, <1>3, DealtStays
<1>5. PICK from : from = pending
  OBVIOUS
<1>6. from # NoCursor => DealtWith(from)'
  <2>1. from \in 1 .. onLedger \/ from = NoCursor
    BY <1>5, LedgerSize DEF Placed, CursorsPlaced, NoCursor
  <2>. QED BY <1>2, <1>5, <2>1, DealtStays
<1>7. ASSUME NEW p, pending' = p, p = NoCursor \/ DealtWith(p)'
      PROVE  pending' # NoCursor => DealtWith(pending)'
  BY <1>7 DEF DealtWith, TransactionRecorded
<1>8. ASSUME \A k \in jobs' : k \in jobs \/ k.step = "check",
             pending' \in {pending, NoCursor}
      PROVE  /\ \A k \in jobs' : k.step = "save" => DealtWith(k.payment)'
             /\ pending' # NoCursor => DealtWith(pending)'
  <2>1. \A k \in jobs' : k.step = "save" => DealtWith(k.payment)'
    BY <1>4, <1>8
  <2>. QED BY <1>5, <1>6, <1>7, <1>8, <2>1
<1>9. ASSUME NEW j \in jobs,
             \/ CheckStatus(j) \/ Record(j) \/ RecordFails(j) \/ RecordCollides(j)
             \/ MatchFails(j)
      PROVE  /\ \A k \in jobs' : k.step = "save" => DealtWith(k.payment)'
             /\ pending' # NoCursor => DealtWith(pending)'
  <2>1. \/ MoveTo(j, "record")
        \/ MoveTo(j, "save") /\ DealtWith(j.payment)'
    <3>1. CASE CheckStatus(j)
      <4>1. \/ MoveTo(j, "record")
            \/ MoveTo(j, "save") /\ skipped' = skipped \cup {j.payment}
        BY <3>1 DEF CheckStatus
      <4>2. ASSUME skipped' = skipped \cup {j.payment} PROVE DealtWith(j.payment)'
        BY <4>2 DEF DealtWith
      <4>. QED BY <4>1, <4>2
    <3>2. CASE Record(j)
      <4>1. MoveTo(j, "save")
        BY <3>2 DEF Record
      <4>. QED BY <3>2, <4>1, RecordRecords DEF RecordBook, DealtWith
    <3>3. CASE RecordFails(j) \/ MatchFails(j)
      <4>1. failures' = failures + 1 \/ matchFailures' = matchFailures + 1
        BY <3>3 DEF RecordFails, MatchFails
      <4>. QED BY <1>1, <4>1
    <3>4. CASE RecordCollides(j)
      <4>1. DealtWith(j.payment) /\ MoveTo(j, "save")
        BY <3>4 DEF RecordCollides, DealtWith
      <4>. QED BY <1>3, <4>1, DealtStays
    <3>. QED BY <1>9, <3>1, <3>2, <3>3, <3>4
  <2>2. pending' = pending
    BY <1>9, MoveFacts DEF worker
  <2>3. j \in JobsUpTo(onLedger)
    BY DEF Placed, JobsPlaced
  <2>4. PICK p : p = j.payment
    OBVIOUS
  <2>5. \A k \in jobs' : \/ k \in jobs \/ k.step = "record"
                         \/ k.payment = p /\ DealtWith(p)'
    BY <2>1, <2>3, <2>4 DEF MoveTo, JobsUpTo
  <2>6. \A k \in jobs' : k.step = "save" => DealtWith(k.payment)'
    BY <1>4, <2>5
  <2>. QED BY <1>5, <1>6, <1>7, <2>2, <2>6
<1>10. ASSUME NEW j \in jobs, CheckFails(j) \/ SaveCursor(j) \/ SaveFails(j)
      PROVE  /\ \A k \in jobs' : k.step = "save" => DealtWith(k.payment)'
             /\ pending' # NoCursor => DealtWith(pending)'
  <2>1. Finish(j) /\ j.step = "save"
    BY <1>1, <1>10, EndFacts
  <2>2. /\ \A k \in jobs' \ jobs : k.step = "check"
        /\ pending' \in {pending, j.payment}
    BY <2>1, FinishFacts
  <2>3. \A k \in jobs' : k.step = "save" => DealtWith(k.payment)'
    BY <1>4, <2>2
  <2>4. DealtWith(j.payment)'
    BY <1>4, <2>1
  <2>. QED BY <1>5, <1>6, <1>7, <2>2, <2>3, <2>4
<1>. QED BY <1>8, <1>9, <1>10, NewJobsCheck DEF Next, StreamStep, JobStep, JobFailure, QuietStep

---------------------------------------------------------------------------
(* What is in sight.  In each step a payment in hand stays in hand, and one *)
(* beyond everything stays so or comes into somebody's hands.               *)
LEMMA HandStays ==
  ASSUME IngestionInv, [Next]_vars,
         \A q \in PaymentsOf(jobs) : q \in PaymentsOf(jobs') \/ DealtWith(q)',
         Elements(queue) \subseteq Elements(queue') \cup PaymentsOf(jobs'),
         NEW p \in 1 .. onLedger, InHand(p)
  PROVE  InHand(p)'
<1>1. DealtWith(p) => DealtWith(p)'
  BY DealtStays DEF IngestionInv
<1>. QED BY <1>1 DEF InHand

LEMMA NumbersInPlace ==
  ASSUME Placed
  PROVE  /\ onLedger \in Nat
         /\ {cursor, workerCursor, pending, workerAt, monitorAt, replayAt, replayTo}
              \subseteq -1 .. onLedger
         /\ PaymentsOf(jobs) \subseteq 1 .. onLedger
         /\ Elements(queue) \subseteq 1 .. onLedger /\ seen \subseteq 1 .. onLedger
<1>1. onLedger \in Nat
  BY LedgerSize DEF Placed
<1>2. {cursor, workerCursor, pending, workerAt, monitorAt, replayAt, replayTo}
        \subseteq -1 .. onLedger
  BY <1>1 DEF Placed, CursorsPlaced, MonitorPlaced
<1>3. PaymentsOf(jobs) \subseteq 1 .. onLedger
  BY JobPlace DEF PaymentsOf
<1>4. Elements(queue) \subseteq 1 .. onLedger
  BY ElementOfSeq DEF Placed, QueuePlaced, Elements
<1>. QED BY <1>1, <1>2, <1>3, <1>4 DEF Placed, SeenPlaced

LEMMA PaySighted ==
  ASSUME IngestionInv, Sighted, [Next]_vars, Pay
  PROVE  Sighted'
<1>1. /\ onLedger' = onLedger + 1 /\ onLedger \in Nat
      /\ UNCHANGED <<cursor, queue, seen, workerCursor, pending, workerAt, jobs>>
      /\ UNCHANGED <<monitor, replayAt, replayTo, monitorAt>>
  BY PayPlaced DEF IngestionInv, Pay, database, worker, streams
<1>2. Watched'
  BY <1>1 DEF Sighted, Watched
<1>3. ASSUME NEW p \in 1 .. onLedger PROVE InHand(p)' \/ Beyond(p)'
  <2>1. InHand(p) => InHand(p)'
    BY <1>1, HandStays
  <2>2. Beyond(p) => Beyond(p)'
    BY <1>1 DEF Beyond
  <2>. QED BY <2>1, <2>2 DEF Sighted
<1>4. ASSUME NEW p, p = onLedger + 1 PROVE Beyond(p)'
  <2>1. /\ {cursor, workerCursor, pending, workerAt, monitorAt, replayAt}
             \subseteq -1 .. onLedger
        /\ PaymentsOf(jobs) \subseteq 1 .. onLedger
        /\ Elements(queue) \subseteq 1 .. onLedger /\ seen \subseteq 1 .. onLedger
    BY NumbersInPlace DEF IngestionInv
  <2>2. /\ \A c \in -1 .. onLedger : p > c
        /\ \A c \in 1 .. onLedger : p > c
        /\ p \notin 1 .. onLedger
    BY <1>1, <1>4
  <2>. QED BY <1>1, <2>1, <2>2 DEF Beyond
<1>5. \A p \in 1 .. onLedger' : p \in 1 .. onLedger \/ p = onLedger + 1
  BY <1>1
<1>. QED BY <1>2, <1>3, <1>4, <1>5 DEF Sighted

LEMMA StartSighted ==
  ASSUME IngestionInv, Sighted, [Next]_vars, Start
  PROVE  Sighted'
<1>1. /\ monitor = "down" /\ monitor' = "waiting" /\ cursor # NoCursor
      /\ queue' = Missed(cursor, onLedger) /\ workerAt' = onLedger
      /\ workerCursor' = onLedger
      /\ UNCHANGED <<ledger, cursor, jobs>>
  BY DEF Start, Listen, database, Sighted, Watched
<1>2. /\ onLedger \in Nat /\ cursor \in -1 .. onLedger /\ onLedger \in 0 .. onLedger
      /\ StartAfter(cursor) = cursor /\ queue = <<>>
  BY <1>1, NumbersInPlace, StartFacts DEF IngestionInv, Placed, QueuePlaced
<1>3. Elements(queue') = {p \in cursor + 1 .. onLedger : p \notin seen}
  BY <1>1, <1>2, MissedFacts DEF IngestionInv, Placed
<1>4. Watched'
  BY <1>1, <1>2 DEF Watched, NoCursor
<1>5. onLedger' = onLedger
  BY <1>1 DEF onLedger
<1>6. Elements(queue) = {}
  <2>1. Len(queue) = 0
    BY <1>2, EmptySeq
  <2>. QED BY <2>1 DEF Elements
<1>7. ASSUME NEW p \in 1 .. onLedger PROVE InHand(p)'
  <2>1. InHand(p) => InHand(p)'
    BY <1>1, <1>6, HandStays
  <2>2. ASSUME Beyond(p) PROVE InHand(p)'
    <3>1. p > cursor /\ p \notin seen
      BY <2>2 DEF Beyond
    <3>2. p \in cursor + 1 .. onLedger
      BY <1>2, <3>1
    <3>. QED BY <1>3, <3>1, <3>2 DEF InHand
  <2>. QED BY <2>1, <2>2 DEF Sighted
<1>. QED BY <1>4, <1>5, <1>7 DEF Sighted

LEMMA RegisterSighted ==
  ASSUME IngestionInv, Sighted, [Next]_vars, RegisterWallet
  PROVE  Sighted'
<1>1. /\ Known \in -1 .. onLedger /\ onLedger \in Nat /\ onLedger \in 0 .. onLedger
      /\ Known # NoCursor /\ cursor # NoCursor
  BY KnownFacts DEF IngestionInv, Sighted, Watched, Known
<1>2. Register(onLedger)
  BY DEF RegisterWallet
<1>3. StartAfter(Known) = Known
  BY <1>1, StartFacts DEF IngestionInv, Placed
<1>4. /\ jobs \subseteq jobs'
      /\ Elements(queue) \subseteq Elements(queue') \cup PaymentsOf(jobs')
      /\ \A p \in Known + 1 .. onLedger :
           p \in seen \/ p \in Elements(queue') \cup PaymentsOf(jobs')
      /\ monitor' = "connecting"
      /\ workerCursor' = onLedger /\ workerAt' = onLedger
      /\ UNCHANGED <<ledger, cursor>>
  BY <1>1, <1>2, <1>3, RegisterFacts DEF IngestionInv, database
<1>5. Watched'
  BY <1>1, <1>4 DEF Watched, NoCursor, Closed
<1>6. onLedger' = onLedger
  BY <1>4 DEF onLedger
<1>7. ASSUME NEW p \in 1 .. onLedger PROVE InHand(p)'
  <2>1. InHand(p) => InHand(p)'
    BY <1>4, HandStays DEF PaymentsOf
  <2>2. ASSUME Beyond(p) PROVE InHand(p)'
    <3>1. p > Known /\ p \notin seen
      BY <2>2 DEF Beyond, Known
    <3>2. p \in Known + 1 .. onLedger
      BY <1>1, <3>1
    <3>. QED BY <1>4, <3>1, <3>2 DEF InHand
  <2>. QED BY <2>1, <2>2 DEF Sighted
<1>. QED BY <1>5, <1>6, <1>7 DEF Sighted

LEMMA DeliverSighted ==
  ASSUME IngestionInv, Sighted, [Next]_vars, WorkerDeliver
  PROVE  Sighted'
<1>1. /\ workerAt \in 0 .. onLedger - 1 /\ workerAt' = workerAt + 1
      /\ onLedger \in Nat
      /\ seen' = seen \cup {workerAt + 1}
      /\ jobs \subseteq jobs'
      /\ \A j \in jobs' \ jobs : j.payment \in Elements(queue) \cup {workerAt + 1}
      /\ Elements(queue') \subseteq Elements(queue) \cup {workerAt + 1}
      /\ Elements(queue) \subseteq Elements(queue') \cup PaymentsOf(jobs')
      /\ workerAt + 1 \in seen \cup Elements(queue') \cup PaymentsOf(jobs')
      /\ UNCHANGED <<ledger, cursor, workerCursor, pending, monitor, monitorAt, replayAt>>
  BY DeliverFacts DEF IngestionInv, database, streams
<1>2. Watched'
  BY <1>1 DEF Sighted, Watched, Closed
<1>3. onLedger' = onLedger
  BY <1>1 DEF onLedger
<1>4. PaymentsOf(jobs') \subseteq PaymentsOf(jobs) \cup Elements(queue) \cup {workerAt + 1}
  BY <1>1 DEF PaymentsOf
<1>5. ASSUME NEW p \in 1 .. onLedger PROVE InHand(p)' \/ Beyond(p)'
  <2>1. InHand(p) => InHand(p)'
    BY <1>1, HandStays DEF PaymentsOf
  <2>2. ASSUME Beyond(p), p # workerAt + 1 PROVE Beyond(p)'
    <3>1. p > workerAt
      BY <2>2 DEF Beyond
    <3>2. p > workerAt + 1
      BY <1>1, <2>2, <3>1
    <3>. QED BY <1>1, <1>4, <2>2, <3>2 DEF Beyond
  <2>3. ASSUME Beyond(p), p = workerAt + 1 PROVE InHand(p)'
    BY <1>1, <2>3 DEF Beyond, InHand
  <2>. QED BY <2>1, <2>2, <2>3 DEF Sighted
<1>. QED BY <1>2, <1>3, <1>5 DEF Sighted

(* The monitor comes no further than the payment it hands to a job. *)
LEMMA MonitorReach ==
  ASSUME Placed, cursor # NoCursor,
         \/ BeginReplay \/ ReplayFails \/ WatchFails \/ OpenStream
         \/ ReplayNext \/ MonitorDeliver,
         NEW p \in 1 .. onLedger, p > cursor, p > monitorAt, p > replayAt
  PROVE  \/ p \in PaymentsOf(jobs')
         \/ /\ p > monitorAt' /\ p > replayAt'
            /\ \A q \in PaymentsOf(jobs') : q \in PaymentsOf(jobs) \/ p > q
<1>1. /\ onLedger \in Nat /\ cursor \in -1 .. onLedger
      /\ monitorAt \in 0 .. onLedger /\ replayAt \in 0 .. onLedger
      /\ StartAfter(cursor) = cursor
  BY NumbersInPlace, StartFacts DEF Placed, MonitorPlaced
<1>2. CASE BeginReplay
  BY <1>1, <1>2 DEF BeginReplay
<1>3. CASE ReplayFails \/ WatchFails
  BY <1>1, <1>3 DEF ReplayFails, WatchFails
<1>4. CASE OpenStream
  BY <1>1, <1>4 DEF OpenStream
<1>5. ASSUME NEW via \in {"replay", "stream"}, NEW e \in {monitorAt + 1, replayAt + 1},
             jobs' = jobs \cup {Job(via, e)},
             monitorAt' \in {monitorAt, e}, replayAt' \in {replayAt, e}
      PROVE  \/ p \in PaymentsOf(jobs')
             \/ /\ p > monitorAt' /\ p > replayAt'
                /\ \A q \in PaymentsOf(jobs') : q \in PaymentsOf(jobs) \/ p > q
  <2> DEFINE k == Job(via, e)
  <2>0. k.payment = e /\ jobs' = jobs \cup {k}
    BY <1>5 DEF Job
  <2> HIDE DEF k
  <2>1. PaymentsOf(jobs') = PaymentsOf(jobs) \cup {e}
    BY <2>0 DEF PaymentsOf
  <2>2. e \in Nat /\ (p = e \/ p > e)
    BY <1>1
  <2>. QED BY <1>5, <2>1, <2>2
<1>6. CASE ReplayNext
  <2>1. CASE replayAt < replayTo
    <3>1. replayAt' = replayAt + 1 /\ monitorAt' = monitorAt
          /\ jobs' = jobs \cup {Job("replay", replayAt + 1)}
      BY <1>6, <2>1 DEF ReplayNext
    <3>. QED BY <1>5, <3>1
  <2>2. CASE ~(replayAt < replayTo)
    <3>1. replayAt' = 0 /\ monitorAt' = monitorAt /\ jobs' = jobs
      BY <1>6, <2>2 DEF ReplayNext
    <3>. QED BY <1>1, <3>1
  <2>. QED BY <2>1, <2>2
<1>7. CASE MonitorDeliver
  <2>1. monitorAt' = monitorAt + 1 /\ replayAt' = replayAt
        /\ jobs' = jobs \cup {Job("stream", monitorAt + 1)}
    BY <1>7 DEF MonitorDeliver
  <2>. QED BY <1>5, <2>1
<1>. QED BY <1>2, <1>3, <1>4, <1>6, <1>7

LEMMA MonitorSighted ==
  ASSUME IngestionInv, Sighted, [Next]_vars, failures' = failures,
         \/ BeginReplay \/ ReplayFails \/ WatchFails \/ OpenStream
         \/ ReplayNext \/ MonitorDeliver
  PROVE  Sighted'
<1>1. /\ UNCHANGED <<ledger, cursor, queue, seen, workerCursor, pending, workerAt>>
      /\ jobs \subseteq jobs'
      /\ monitor \in {"connecting", "replaying", "opening", "open"}
      /\ monitor' # "abandoned"
  <2>1. failures # failures + 1
    BY DEF IngestionInv, HistoryTyped
  <2>. QED BY <2>1, MonitorFacts DEF IngestionInv, database, worker
<1>2. Watched'
  BY <1>1 DEF Sighted, Watched
<1>3. onLedger' = onLedger
  BY <1>1 DEF onLedger
<1>4. ASSUME NEW p \in 1 .. onLedger PROVE InHand(p)' \/ Beyond(p)'
  <2>1. InHand(p) => InHand(p)'
    BY <1>1, HandStays DEF PaymentsOf
  <2>2. ASSUME Beyond(p) PROVE InHand(p)' \/ Beyond(p)'
    <3>1. p > cursor /\ p > monitorAt /\ p > replayAt
      BY <2>2 DEF Beyond
    <3>2. \/ p \in PaymentsOf(jobs')
          \/ /\ p > monitorAt' /\ p > replayAt'
             /\ \A q \in PaymentsOf(jobs') : q \in PaymentsOf(jobs) \/ p > q
      BY <3>1, MonitorReach DEF IngestionInv, Sighted, Watched
    <3>3. CASE p \in PaymentsOf(jobs')
      BY <3>3 DEF InHand
    <3>4. CASE /\ p > monitorAt' /\ p > replayAt'
               /\ \A q \in PaymentsOf(jobs') : q \in PaymentsOf(jobs) \/ p > q
      BY <1>1, <2>2, <3>4 DEF Beyond
    <3>. QED BY <3>2, <3>3, <3>4
  <2>. QED BY <2>1, <2>2 DEF Sighted
<1>. QED BY <1>2, <1>3, <1>4 DEF Sighted

LEMMA BreakSighted ==
  ASSUME IngestionInv, Sighted, [Next]_vars, WorkerReopen \/ Disconnect
  PROVE  Sighted'
<1>1. /\ UNCHANGED <<ledger, cursor, queue, seen, jobs, replayAt>>
      /\ onLedger \in Nat /\ workerCursor \in -1 .. onLedger
  BY NumbersInPlace DEF WorkerReopen, Disconnect, IngestionInv, database, streams
<1>2. \/ /\ workerAt # Closed /\ workerCursor # NoCursor
         /\ workerAt' = workerCursor /\ UNCHANGED <<workerCursor, pending, monitor, monitorAt>>
      \/ /\ workerAt' = -1 /\ workerCursor' = -1 /\ pending' = -1 /\ monitorAt' = 0
         /\ monitor' = "waiting"
  <2>1. CASE WorkerReopen
    <3>1. workerAt # Closed /\ workerCursor # NoCursor
          /\ workerAt' = StartAfter(workerCursor)
          /\ UNCHANGED <<workerCursor, pending, monitor, monitorAt>>
      BY <2>1 DEF WorkerReopen, Sighted, Watched, streams
    <3>. QED BY <1>1, <3>1, StartFacts DEF IngestionInv, Placed
  <2>2. CASE Disconnect
    BY <2>2 DEF Disconnect, Closed, NoCursor
  <2>. QED BY <2>1, <2>2
<1>3. Watched'
  BY <1>1, <1>2 DEF Sighted, Watched, Closed, NoCursor
<1>4. onLedger' = onLedger
  BY <1>1 DEF onLedger
<1>5. ASSUME NEW p \in 1 .. onLedger PROVE InHand(p)' \/ Beyond(p)'
  <2>1. InHand(p) => InHand(p)'
    BY <1>1, HandStays
  <2>2. Beyond(p) => Beyond(p)'
    <3>1. p > 0 /\ p > -1
      BY <1>1
    <3>. QED BY <1>1, <1>2, <3>1 DEF Beyond
  <2>. QED BY <2>1, <2>2 DEF Sighted
<1>. QED BY <1>3, <1>4, <1>5 DEF Sighted

LEMMA MoveSighted ==
  ASSUME IngestionInv, Sighted, [Next]_vars, NEW j \in jobs,
         \/ CheckStatus(j) \/ Record(j) \/ RecordFails(j) \/ RecordCollides(j)
         \/ MatchFails(j)
  PROVE  Sighted'
<1>1. /\ cursor' \in {cursor, j.payment} /\ UNCHANGED <<ledger, worker, streams>>
      /\ PaymentsOf(jobs') = PaymentsOf(jobs)
  <2>1. PICK step \in {"record", "save"} : MoveTo(j, step)
    BY MoveFacts
  <2>. QED BY <2>1, MoveFacts, MovePlaced DEF IngestionInv
<1>2. /\ UNCHANGED <<queue, seen, workerCursor, pending, workerAt, monitor, monitorAt, replayAt>>
      /\ j.payment \in 1 .. onLedger /\ j.payment \in PaymentsOf(jobs)
      /\ j.payment # NoCursor
  <2>1. j.payment \in 1 .. onLedger /\ onLedger \in Nat
    BY JobPlace DEF IngestionInv
  <2>. QED BY <1>1, <2>1 DEF worker, streams, PaymentsOf, NoCursor
<1>3. Watched'
  BY <1>1, <1>2 DEF Sighted, Watched
<1>4. onLedger' = onLedger
  BY <1>1 DEF onLedger
<1>5. ASSUME NEW p \in 1 .. onLedger PROVE InHand(p)' \/ Beyond(p)'
  <2>1. InHand(p) => InHand(p)'
    BY <1>1, <1>2, HandStays
  <2>2. Beyond(p) => Beyond(p)'
    BY <1>1, <1>2 DEF Beyond
  <2>. QED BY <2>1, <2>2 DEF Sighted
<1>. QED BY <1>3, <1>4, <1>5 DEF Sighted

LEMMA EndSighted ==
  ASSUME IngestionInv, Sighted, [Next]_vars, NEW j \in jobs,
         CheckFails(j) \/ SaveCursor(j) \/ SaveFails(j),
         Faultless, failures' = failures
  PROVE  Sighted'
<1>1. /\ Finish(j) /\ j.step = "save" /\ cursor' = j.payment
      /\ UNCHANGED <<ledger, monitor, monitorAt, replayAt>>
  <2>1. failures # failures + 1
    BY DEF IngestionInv, HistoryTyped
  <2>. QED BY <2>1, EndFacts DEF streams
<1>2. /\ jobs \ {j} \subseteq jobs'
      /\ \A k \in jobs' \ jobs : k.payment \in Elements(queue)
      /\ Elements(queue') \subseteq Elements(queue)
      /\ Elements(queue) \subseteq Elements(queue') \cup PaymentsOf(jobs')
      /\ workerCursor' \in {workerCursor, j.payment}
      /\ pending' \in {pending, j.payment}
      /\ UNCHANGED <<seen, workerAt>>
  BY <1>1, FinishFacts DEF IngestionInv
<1>3. /\ j.payment \in 1 .. onLedger /\ j.payment \in PaymentsOf(jobs)
      /\ j.payment # NoCursor
  <2>1. j.payment \in 1 .. onLedger /\ onLedger \in Nat
    BY JobPlace DEF IngestionInv
  <2>. QED BY <2>1 DEF PaymentsOf, NoCursor
<1>4. DealtWith(j.payment)'
  <2>1. failures + matchFailures = 0
    BY DEF Faultless, IngestionInv, HistoryTyped
  <2>. QED BY <1>1, <1>3, <2>1, DealtStays DEF IngestionInv, DoneBook
<1>5. Watched'
  BY <1>1, <1>2, <1>3 DEF Sighted, Watched
<1>6. onLedger' = onLedger
  BY <1>1 DEF onLedger
<1>7. PaymentsOf(jobs') \subseteq PaymentsOf(jobs) \cup Elements(queue)
  BY <1>2 DEF PaymentsOf
<1>8. PICK e : e = j.payment
  OBVIOUS
<1>9. \A q \in PaymentsOf(jobs) : q \in PaymentsOf(jobs') \/ DealtWith(q)'
  BY <1>2, <1>4, <1>8 DEF PaymentsOf
<1>10. ASSUME NEW p \in 1 .. onLedger PROVE InHand(p)' \/ Beyond(p)'
  <2>1. InHand(p) => InHand(p)'
    BY <1>2, <1>9, HandStays
  <2>2. Beyond(p) => Beyond(p)'
    BY <1>1, <1>2, <1>3, <1>7 DEF Beyond
  <2>. QED BY <2>1, <2>2 DEF Sighted
<1>. QED BY <1>5, <1>6, <1>10 DEF Sighted

LEMMA QuietSighted ==
  ASSUME IngestionInv, Sighted, [Next]_vars, QuietStep
  PROVE  Sighted'
<1>1. /\ UNCHANGED <<ledger, queue, seen, workerCursor, workerAt, jobs,
                     monitor, monitorAt, replayAt>>
      /\ cursor' \in {cursor, pending} /\ pending' \in {pending, NoCursor}
      /\ cursor' # NoCursor
  BY QuietFacts DEF streams, Sighted, Watched
<1>2. Watched'
  BY <1>1 DEF Sighted, Watched
<1>3. onLedger' = onLedger /\ onLedger \in Nat
  BY <1>1, NumbersInPlace DEF onLedger, IngestionInv
<1>4. ASSUME NEW p \in 1 .. onLedger PROVE InHand(p)' \/ Beyond(p)'
  <2>1. InHand(p) => InHand(p)'
    BY <1>1, HandStays
  <2>2. Beyond(p) => Beyond(p)'
    <3>1. p > NoCursor
      BY <1>3 DEF NoCursor
    <3>. QED BY <1>1, <3>1 DEF Beyond
  <2>. QED BY <2>1, <2>2 DEF Sighted
<1>. QED BY <1>2, <1>3, <1>4 DEF Sighted

LEMMA SightBookStep ==
  ASSUME IngestionInv, [Next]_vars
  PROVE  SightBook'
<1> SUFFICES ASSUME Faultless' PROVE Sighted'
  BY DEF SightBook
<1>1. /\ Faultless /\ failures' = failures /\ matchFailures' = matchFailures
      /\ crashes' = crashes
  <2>1. /\ failures \in Nat /\ matchFailures \in Nat /\ crashes \in Nat
        /\ failures' \in {failures, failures + 1}
        /\ matchFailures' \in {matchFailures, matchFailures + 1}
        /\ crashes' \in {crashes, crashes + 1}
    BY HistoryTypedStep DEF IngestionInv, HistoryTyped
  <2>2. InitialCursor = 0 /\ failures' + matchFailures' + crashes' = 0
    BY DEF Faultless
  <2>3. \A a, b, c \in Nat : a + b + c = 0 => a = 0 /\ b = 0 /\ c = 0
    OBVIOUS
  <2>4. failures' \in Nat /\ matchFailures' \in Nat /\ crashes' \in Nat
    BY <2>1
  <2>5. failures' = 0 /\ matchFailures' = 0 /\ crashes' = 0
    BY <2>2, <2>3, <2>4
  <2>6. failures = 0 /\ matchFailures = 0 /\ crashes = 0
    BY <2>1, <2>5
  <2>. QED BY <2>2, <2>5, <2>6 DEF Faultless
<1>2. Sighted
  BY <1>1 DEF IngestionInv, SightBook
<1>3. CASE RegisterUnreplayed \/ Crash
  <2>1. failures' = failures + 1 \/ crashes' = crashes + 1
    BY <1>3 DEF RegisterUnreplayed, Crash
  <2>. QED BY <1>1, <2>1 DEF IngestionInv, HistoryTyped
<1>4. ASSUME NEW j \in jobs, JobStep(j) \/ JobFailure(j)
      PROVE  Sighted'
  BY <1>1, <1>2, <1>4, MoveSighted, EndSighted DEF JobStep, JobFailure
<1>5. CASE \/ BeginReplay \/ ReplayFails \/ WatchFails \/ OpenStream
           \/ ReplayNext \/ MonitorDeliver
  BY <1>1, <1>2, <1>5, MonitorSighted
<1>6. CASE Pay \/ Start \/ RegisterWallet \/ WorkerDeliver \/ WorkerReopen \/ Disconnect
  BY <1>2, <1>6, PaySighted, StartSighted, RegisterSighted, DeliverSighted, BreakSighted
<1>7. CASE QuietStep
  BY <1>2, <1>7, QuietSighted
<1>. QED BY <1>3, <1>4, <1>5, <1>6, <1>7 DEF Next, StreamStep, QuietStep

---------------------------------------------------------------------------
LEMMA InitIngestionInv == Init => IngestionInv
<1> SUFFICES ASSUME Init PROVE IngestionInv
  OBVIOUS
<1>1. onLedger = 0 /\ ledger \in Seq(Payments) /\ NPayments \in Nat
  BY EmptySeq, PaymentsAssumption DEF Init, onLedger
<1>2. Placed
  <2>1. queue \in Seq(1 .. onLedger)
    BY EmptySeq DEF Init
  <2>2. JobsPlaced
    <3>1. IsFiniteSet({}) /\ Cardinality({}) = 0 /\ WorkerJobs({}) = {}
      BY FS_EmptySet DEF WorkerJobs
    <3>2. WithinLimit({})
      BY <3>1, LimitType DEF WithinLimit
    <3>. QED BY <3>2 DEF Init, JobsPlaced
  <2>3. cursor \in {-1, 0}
    BY LimitsAssumption DEF Init, NoCursor
  <2>. QED BY <1>1, <2>1, <2>2, <2>3
         DEF Init, Placed, LedgerPlaced, CursorsPlaced, SeenPlaced, MonitorPlaced,
             QueuePlaced, NoCursor, Closed
<1>3. DatabaseTyped /\ HooksTyped /\ HistoryTyped
  BY CampaignAssumption DEF Init, DatabaseTyped, HooksTyped, HistoryTyped
<1>4. RecordBook
  <2>1. RaisedIsRecorded
    <3>1. \A p \in Payments : rows[p] * AmountOf[p] + matchOf[p] = 0
      BY PaymentsAssumption DEF Init
    <3>2. [p \in Payments |-> rows[p] * AmountOf[p] + matchOf[p]] = [p \in Payments |-> 0]
      BY <3>1
    <3>3. Total([p \in Payments |-> 0]) = 0
      BY TotalZero
    <3>. QED BY <3>2, <3>3 DEF Init, RaisedIsRecorded
  <2>2. RowsExist /\ CreditedOnce
    BY <1>1 DEF Init, RowsExist, CreditedOnce
  <2>3. ReceiptMeansRecorded
    BY DEF Init, ReceiptMeansRecorded
  <2>4. FundedMeansTarget
    BY CampaignAssumption DEF Init, FundedMeansTarget
  <2>. QED BY <2>1, <2>2, <2>3, <2>4 DEF RecordBook
<1>5. DoneBook
  BY DEF Init, DoneBook
<1>6. SightBook
  <2>1. 1 .. onLedger = {}
    BY <1>1
  <2>2. Faultless => Watched
    BY DEF Init, Faultless, Watched, NoCursor
  <2>. QED BY <2>1, <2>2 DEF SightBook, Sighted
<1>. QED BY <1>2, <1>3, <1>4, <1>5, <1>6 DEF IngestionInv

LEMMA NextIngestionInv == IngestionInv /\ [Next]_vars => IngestionInv'
<1> SUFFICES ASSUME IngestionInv, [Next]_vars PROVE IngestionInv'
  OBVIOUS
<1>1. Placed /\ DatabaseTyped /\ HooksTyped /\ HistoryTyped /\ RecordBook /\ DoneBook
  BY DEF IngestionInv
<1>2. Placed' /\ DatabaseTyped' /\ HooksTyped' /\ HistoryTyped'
  BY <1>1, PlacedStep, DatabaseTypedStep, HooksTypedStep, HistoryTypedStep
<1>3. RecordBook' /\ DoneBook' /\ SightBook'
  BY <1>1, RecordBookStep, DoneBookStep, SightBookStep
<1>. QED BY <1>2, <1>3 DEF IngestionInv

(* The inductive invariant of the ingestion. *)
THEOREM IngestionInvariance == Spec => []IngestionInv
BY InitIngestionInv, NextIngestionInv, PTL DEF Spec

(* Cursors, queue, jobs, streams and tables keep their types: no stream and *)
(* no cursor runs ahead of the ledger.                                      *)
THEOREM IngestionTypeCorrect == Spec => []IngestionTypeOK
<1>1. IngestionInv => IngestionTypeOK
  <2> SUFFICES ASSUME IngestionInv PROVE IngestionTypeOK
    OBVIOUS
  <2>1. Placed /\ DatabaseTyped /\ HooksTyped /\ HistoryTyped
    BY DEF IngestionInv
  <2>2. onLedger \in 0 .. NPayments /\ NPayments \in Nat /\ 1 .. onLedger \subseteq Payments
    BY <2>1, LedgerSize DEF Placed
  <2>3. ledger \in Seq(Payments) /\ onLedger <= NPayments
    BY <2>1 DEF Placed, LedgerPlaced
  <2>4. /\ cursor \in {NoCursor} \cup 0 .. NPayments
        /\ {workerCursor, pending, workerAt} \subseteq -1 .. NPayments
        /\ {replayAt, replayTo, monitorAt} \subseteq 0 .. NPayments
    BY <2>1, <2>2 DEF Placed, CursorsPlaced, MonitorPlaced, NoCursor
  <2>5. queue \in Seq(Payments)
    BY <2>1, <2>2, SeqMonotonic DEF Placed, QueuePlaced
  <2>6. jobs \subseteq [via : {"worker", "replay", "stream"},
                        payment : Payments, step : {"check", "record", "save"}]
    BY <2>1, <2>2 DEF Placed, JobsPlaced, JobsUpTo, Vias
  <2>7. seen \subseteq Payments
    BY <2>1, <2>2 DEF Placed, SeenPlaced
  <2>8. monitor \in {"down", "connecting", "replaying", "opening", "open", "waiting",
                     "abandoned"}
    BY <2>1 DEF Placed, MonitorPlaced
  <2>. QED BY <2>1, <2>3, <2>4, <2>5, <2>6, <2>7, <2>8
         DEF DatabaseTyped, HooksTyped, HistoryTyped, IngestionTypeOK
<1>. QED BY <1>1, IngestionInvariance, PTL

(* What is out of hand is ahead of a stream, or of the replay to come. *)
LEMMA SightedMeansNothingLost ==
  ASSUME Placed, Sighted
  PROVE  NothingLost
<1>1. ASSUME NEW p \in 1 .. onLedger, InHand(p)
      PROVE  \/ TransactionRecorded(p) \/ p \in skipped \/ JobsOf(p) # {}
             \/ \E i \in 1 .. Len(queue) : queue[i] = p
  <2>1. CASE p \in PaymentsOf(jobs)
    BY <2>1 DEF PaymentsOf, JobsOf
  <2>2. CASE p \in Elements(queue)
    BY <2>2 DEF Elements
  <2>. QED BY <1>1, <2>1, <2>2 DEF InHand, DealtWith
<1>2. ASSUME NEW p \in 1 .. onLedger, Beyond(p)
      PROVE  AheadOfAStream(p)
  <2>1. p > cursor /\ p > workerAt
    BY <1>2 DEF Beyond
  <2>2. workerAt # Closed \/ monitor \in {"down", "waiting"}
    BY DEF Sighted, Watched, Placed, MonitorPlaced
  <2>. QED BY <2>1, <2>2 DEF AheadOfAStream
<1>. QED BY <1>1, <1>2 DEF Sighted, NothingLost

LEMMA IngestionInvAgrees ==
  ASSUME IngestionInv, InitialCursor = 0
  PROVE  RecordsAgree
<1>1. RecordBook /\ Placed
  BY DEF IngestionInv
<1>2. NothingLost
  <2>1. CASE failures + matchFailures + crashes = 0
    <3>1. Sighted
      BY <2>1 DEF IngestionInv, SightBook, Faultless
    <3>. QED BY <1>1, <3>1, SightedMeansNothingLost
  <2>2. CASE ~(failures + matchFailures + crashes = 0)
    BY <2>2 DEF NothingLost
  <2>. QED BY <2>1, <2>2
<1>. QED BY <1>1, <1>2 DEF RecordBook, RecordsAgree

(* Whatever the two pipelines, failures, crashes and replays do: each       *)
(* transaction is credited once, raised_amount and the used pledge are what *)
(* the contributions add up to, a receipt means a contribution, and the     *)
(* campaign is `funded' exactly while its target is reached.                *)
THEOREM ContributionsAddUp ==
  Spec => [](/\ CreditedOnce /\ RaisedIsRecorded /\ ReceiptMeansRecorded
             /\ FundedMeansTarget)
<1>1. IngestionInv => /\ CreditedOnce /\ RaisedIsRecorded /\ ReceiptMeansRecorded
                      /\ FundedMeansTarget
  BY DEF IngestionInv, RecordBook
<1>. QED BY <1>1, IngestionInvariance, PTL

(* And for a wallet with a cursor no payment of a transaction that is not   *)
(* recorded is out of everybody's sight unless something failed or crashed  *)
(* or it was dropped because the campaign had closed.  Without a cursor the *)
(* streams start at `now', past the payments made before                    *)
(* (openStreamForWallet).                                                   *)
THEOREM RecordsAgreeAlways == Spec => [](InitialCursor = 0 => RecordsAgree)
<1>1. IngestionInv => (InitialCursor = 0 => RecordsAgree)
  BY IngestionInvAgrees
<1>. QED BY <1>1, IngestionInvariance, PTL

---------------------------------------------------------------------------
(* Which steps move the saved cursor. *)
LEMMA CursorMoves ==
  ASSUME Placed, [Next]_vars, cursor' # cursor
  PROVE  \/ pending # NoCursor /\ cursor' = pending
         \/ \E j \in jobs : Record(j) /\ cursor' = j.payment
         \/ \E j \in jobs : j.step = "save" /\ cursor' = j.payment
<1>1. CASE \/ Pay \/ Start \/ RegisterWallet \/ RegisterUnreplayed \/ WorkerDeliver
           \/ WorkerReopen \/ Disconnect \/ Crash \/ UNCHANGED vars
  BY <1>1 DEF Pay, Start, RegisterWallet, RegisterUnreplayed, Register, WorkerDeliver,
              WorkerReopen, Disconnect, Crash, database, vars
<1>2. CASE \/ BeginReplay \/ ReplayFails \/ WatchFails \/ OpenStream
           \/ ReplayNext \/ MonitorDeliver
  BY <1>2, MonitorFacts DEF database
<1>3. CASE QuietStep
  BY <1>3, QuietFacts
<1>4. ASSUME NEW j \in jobs,
             CheckStatus(j) \/ RecordFails(j) \/ RecordCollides(j) \/ MatchFails(j)
      PROVE  FALSE
  BY <1>4 DEF CheckStatus, RecordFails, RecordCollides, MatchFails, database
<1>5. ASSUME NEW j \in jobs, Record(j) PROVE cursor' = j.payment
  BY <1>5 DEF Record
<1>6. ASSUME NEW j \in jobs, CheckFails(j) \/ SaveCursor(j) \/ SaveFails(j)
      PROVE  j.step = "save" /\ cursor' = j.payment
  BY <1>6, EndFacts
<1>. QED BY <1>1, <1>2, <1>3, <1>4, <1>5, <1>6
       DEF Next, StreamStep, JobStep, JobFailure, QuietStep

LEMMA CursorStep ==
  ASSUME IngestionInv, [Next]_vars, cursor' # cursor, failures + matchFailures = 0
  PROVE  \E p \in Payments : p = cursor' /\ (TransactionRecorded(p) \/ p \in skipped)'
<1>1. Placed /\ DatabaseTyped /\ HistoryTyped /\ RecordBook /\ DoneBook
  BY DEF IngestionInv
<1>2. 1 .. onLedger \subseteq Payments /\ onLedger \in Nat
  BY <1>1, LedgerSize DEF Placed
<1>3. SUFFICES ASSUME NEW p \in 1 .. onLedger, cursor' = p, DealtWith(p) \/ DealtWith(p)'
               PROVE  DealtWith(p)'
  <2>1. \E p \in 1 .. onLedger : cursor' = p /\ (DealtWith(p) \/ DealtWith(p)')
    <3>1. CASE pending # NoCursor /\ cursor' = pending
      <4>1. PICK p : p = pending
        OBVIOUS
      <4>2. p \in 1 .. onLedger
        BY <1>1, <1>2, <3>1, <4>1 DEF Placed, CursorsPlaced, NoCursor
      <4>3. DealtWith(p)
        BY <1>1, <3>1, <4>1 DEF DoneBook
      <4>. QED BY <3>1, <4>1, <4>2, <4>3
    <3>2. ASSUME NEW j \in jobs, Record(j), cursor' = j.payment
          PROVE  \E p \in 1 .. onLedger : cursor' = p /\ (DealtWith(p) \/ DealtWith(p)')
      <4>1. PICK p : p = j.payment
        OBVIOUS
      <4>2. TransactionRecorded(p)'
        BY <1>1, <3>2, <4>1, RecordRecords DEF RecordBook
      <4>. QED BY <1>1, <3>2, <4>1, <4>2, JobPlace DEF DealtWith
    <3>3. ASSUME NEW j \in jobs, j.step = "save", cursor' = j.payment
          PROVE  \E p \in 1 .. onLedger : cursor' = p /\ (DealtWith(p) \/ DealtWith(p)')
      <4>1. DealtWith(j.payment)
        BY <1>1, <3>3 DEF DoneBook
      <4>. QED BY <1>1, <3>3, <4>1, JobPlace
    <3>. QED BY <1>1, <3>1, <3>2, <3>3, CursorMoves
  <2>2. PICK p \in 1 .. onLedger : cursor' = p /\ (DealtWith(p) \/ DealtWith(p)')
    BY <2>1
  <2>3. DealtWith(p)'
    BY <1>3, <2>2
  <2>4. p \in Payments /\ p = cursor' /\ (TransactionRecorded(p) \/ p \in skipped)'
    BY <1>2, <2>2, <2>3 DEF DealtWith
  <2>. QED BY <2>4
<1>. QED BY <1>1, <1>3, DealtStays

(* The saved cursor moves only to payments whose transaction is recorded or *)
(* that were dropped because the campaign had closed, unless a transaction *)
(* or a match has failed before (CursorFollowsSuccess).                    *)
THEOREM CursorSound == Spec => CursorFollowsSuccess
<1>1. IngestionInv /\ [Next]_vars =>
        [cursor' # cursor /\ failures + matchFailures = 0 =>
           \E p \in Payments : p = cursor' /\ (TransactionRecorded(p) \/ p \in skipped)']_vars
  BY CursorStep
<1>. QED BY <1>1, IngestionInvariance, PTL DEF Spec, CursorFollowsSuccess
=============================================================================
