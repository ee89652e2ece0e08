---------------------------- MODULE ReleaseProofs ----------------------------
(***************************************************************************)
(* For any number of worker passes, approvers, rounds and faults: the      *)
(* types, and that a milestone is paid once, that its rows tell what the   *)
(* ledger did, and that evidence which was stopped stays unpaid.           *)
(*                                                                         *)
(* The inductive invariant says where every envelope comes from and what   *)
(* an actor that holds one may rely on.  Its last two parts hold until an  *)
(* attempt is taken from a worker that is still at it, the others always.  *)
(***************************************************************************)
EXTENDS MilestoneRelease, FiniteSetTheorems, TLAPS

WorkerPlaces == {"idle", "check", "build", "store", "mark", "send", "ask",
                 "look", "recheck", "fail", "finalize"}
WorkerStates == [at : WorkerPlaces, envelope : Envelopes \cup {None}]
ApproverStates == [at : {"idle", "claim", "build", "send", "record"},
                   round : 0 .. MaxRounds, envelope : Envelopes \cup {None}]

MilestoneTypeOK ==
  /\ campaign \in {"active", "funded", "in_progress", "completed",
                   "disputed", "refunded"}
  /\ disputes \in Nat
  /\ status \in {"pending", "pending_review", "rejected", "released"}
  /\ auto \in {"none", "awaiting_evidence", "scheduled", "halted",
               "ineligible", "releasing", "released", "failed", "cancelled",
               "superseded"}
  /\ enabled \in BOOLEAN /\ due \in BOOLEAN /\ claimed \in BOOLEAN
  /\ round \in 0 .. MaxRounds
  /\ submitting \in BOOLEAN
HistoryTypeOK ==
  /\ disturbances \in 0 .. MaxDisturbances /\ faults \in 0 .. MaxFaults
  /\ disputed \subseteq 1 .. MaxRounds /\ rejected \subseteq 1 .. MaxRounds
  /\ overtaken \in BOOLEAN
RowTypeOK ==
  /\ attempt \in {"none", "confirmed", "failed"} \cup InFlight
  /\ terms \in 0 .. MaxRounds
  /\ envelope \in Envelopes \cup {None}
  /\ withdrawal \in Envelopes \cup {None}
  /\ attempt \in {"prepared", "submitted", "confirmed"} => envelope # None
LedgerTypeOK ==
  /\ sequence \in Nat
  /\ network \subseteq Envelopes /\ landed \subseteq Envelopes
  /\ spent \subseteq Envelopes /\ late \subseteq Envelopes
Types ==
  /\ MilestoneTypeOK /\ HistoryTypeOK /\ RowTypeOK /\ LedgerTypeOK
  /\ worker \in [Workers -> WorkerStates]
  /\ approver \in [Approvers -> ApproverStates]

LEMMA TypesAreTypes == Types <=> ReleaseTypeOK
BY DEF Types, ReleaseTypeOK, MilestoneTypeOK, HistoryTypeOK, RowTypeOK,
       LedgerTypeOK, WorkerStates, ApproverStates, WorkerPlaces

---------------------------------------------------------------------------
(* The rounds: a submission begins a new one, which nobody has stopped yet; *)
(* the attempt copies one that was not disputed, and there is no other.     *)
RoundBook ==
  /\ submitting => round < MaxRounds
  /\ status # "pending" => round >= 1
  /\ status = "pending_review" => round \notin rejected
  /\ auto = "scheduled" => round >= 1 /\ round \notin disputed
  /\ disputed \subseteq 1 .. round /\ rejected \subseteq 1 .. round
  /\ attempt # "none" =>
       auto # "scheduled" /\ terms \in 1 .. round /\ terms \notin disputed
  /\ \A a \in Approvers : approver[a].at # "idle" => approver[a].round \in 1 .. round

Sending == {"mark", "send", "ask", "look", "recheck", "finalize"}
OfAttempt(e) ==
  /\ e \in Envelopes /\ e.trigger = "auto" /\ e.round = terms
  /\ e.sequence - 1 <= sequence

Holding(w) ==
  /\ worker[w].at # "idle" => attempt # "none"
  /\ worker[w].at = "check" => worker[w].envelope \in {None, envelope}
  /\ worker[w].at = "store" => OfAttempt(worker[w].envelope)
  /\ worker[w].at \in Sending =>
       worker[w].envelope = envelope /\ envelope # None
  /\ worker[w].at = "finalize" => envelope \in landed

(* The envelopes: the attempt has one, once it is prepared, and all that    *)
(* the worker sends is this one; the rest is an approver's.                 *)
EnvelopeBook ==
  /\ attempt \in {"none", "claimed"} => envelope = None
  /\ envelope # None => OfAttempt(envelope)
  /\ \A w \in Workers : Holding(w)

ApproverBook ==
  \A a \in Approvers :
    /\ approver[a].at \in {"send", "record"} =>
         /\ approver[a].envelope \in Envelopes
         /\ approver[a].envelope.trigger = "manual"
         /\ approver[a].envelope.sequence - 1 <= sequence
    /\ approver[a].at = "record" => approver[a].envelope \in landed

(* The ledger: a number is taken once, and no envelope waits for one that   *)
(* is further than the next.                                                *)
LedgerBook ==
  /\ \A e \in network \cup landed \cup spent :
       /\ e.trigger = "auto" => e = envelope
       /\ e.sequence - 1 <= sequence
  /\ \A e \in landed \cup spent : e.sequence <= sequence
  /\ landed \cap spent = {}

(* The rows: an attempt in flight keeps the milestone claimed, and what is  *)
(* released or confirmed was paid.                                          *)
RowBook ==
  /\ attempt \in InFlight => claimed
  /\ attempt = "confirmed" => status = "released" /\ envelope \in landed
  /\ status = "released" <=> withdrawal # None
  /\ withdrawal # None => withdrawal \in landed

---------------------------------------------------------------------------
(* No worker is overtaken: what it finds is as it left it.                  *)
Dead(e) == e \notin landed /\ (e \in network => ~MayLand(e))

Place(w) ==
  LET at == worker[w].at IN
  /\ at = "check" => attempt = IF worker[w].envelope = None THEN "claimed" ELSE "prepared"
  /\ at \in {"build", "store"} => attempt = "claimed"
  /\ at = "mark" => attempt \in {"prepared", "submitted"}
  /\ at \in {"send", "ask", "look", "recheck", "finalize"} => attempt = "submitted"
  /\ at = "ask" => envelope \notin network
  /\ at = "fail" => attempt \in InFlight /\ Dead(envelope)

Steady ==
  /\ \A v, w \in Workers :
       worker[v].at # "idle" /\ worker[w].at # "idle" => v = w
  /\ \A w \in Workers : Place(w)
  /\ attempt \in {"claimed", "prepared"} =>
       envelope \notin network \cup landed \cup spent
  /\ attempt = "failed" => Dead(envelope)
  /\ attempt \in InFlight => auto = "releasing" /\ status = "pending_review"
  /\ attempt \in InFlight \cup {"confirmed"} => terms \notin rejected
AttemptBook == ~overtaken => Steady

(* An approver who has claimed the milestone has it for himself, and so has *)
(* the payment that he leaves behind.                                       *)
Owner(a) == approver[a].at \in {"build", "send", "record"}
Manual == {e \in network \cup landed \cup spent : e.trigger = "manual"}

Claimed ==
  /\ (Manual # {} \/ \E a \in Approvers : Owner(a)) =>
       claimed /\ attempt \in {"none", "failed"}
  /\ \A a, b \in Approvers : Owner(a) /\ Owner(b) => a = b
  /\ \A a \in Approvers : approver[a].at \in {"build", "send"} => Manual = {}
  /\ \A a \in Approvers :
       approver[a].at = "record" => Manual = {approver[a].envelope}
  /\ \A e, f \in Manual : e = f
ManualBook == ~overtaken => Claimed

IInv == /\ Types /\ RoundBook /\ EnvelopeBook /\ ApproverBook /\ LedgerBook
        /\ RowBook /\ AttemptBook /\ ManualBook
---------------------------------------------------------------------------
(* Types.                                                                  *)
Approver(a) ==
  \/ Approve(a) \/ Claim(a) \/ BuildRelease(a) \/ SendRelease(a)
  \/ RecordRelease(a) \/ ApproverStops(a)
Worker(w) ==
  \/ \E sound \in BOOLEAN : ClaimDue(w, sound)
  \/ Recover(w) \/ Advance(w) \/ WorkerStops(w)

LEMMA NextCases ==
  [Next]_vars => \/ Requests \/ Environment \/ (\E w \in Workers : Worker(w))
                 \/ (\E a \in Approvers : Approver(a)) \/ UNCHANGED vars
BY DEF Next, Worker, Approver

(* Each actor leaves the others' variables alone. *)
LEMMA Frames ==
  /\ Requests \/ Environment => UNCHANGED <<row, withdrawal, actors>>
  /\ \A w \in Workers : Worker(w) => UNCHANGED <<approver, disputes, evidence>>
  /\ \A a \in Approvers : Approver(a) =>
       UNCHANGED <<worker, row, disputes, evidence, counters, history>>
<1>. USE DEF row, actors
<1>1. Requests \/ Environment => UNCHANGED <<row, withdrawal, actors>>
  BY DEF Requests, Environment, Configure, OptOut, BeginSubmission,
     Submit, Reject, RaiseDispute, CloseDispute, ReleaseToCreator,
     RefundContributors, WindowElapses, TargetFound, OtherPayment,
     PendingLands, EnvelopeExpires
<1>2. ASSUME NEW w \in Workers, Worker(w)
      PROVE  UNCHANGED <<approver, disputes, evidence>>
  BY <1>2 DEF Worker, Advance, ClaimDue, Recover, Check, Build, Store,
     MarkSubmitted, Send, Ask, Look, Recheck, Fail, Finalize, WorkerStops
<1>3. ASSUME NEW a \in Approvers, Approver(a)
      PROVE  UNCHANGED <<worker, row, disputes, evidence, counters, history>>
  BY <1>3 DEF Approver, Approve, Claim, BuildRelease, SendRelease,
              RecordRelease, ApproverStops
<1>. QED BY <1>1, <1>2, <1>3

LEMMA MilestoneTypeStep ==
  ASSUME IInv, [Next]_vars
  PROVE  MilestoneTypeOK'
<1>. USE DEF milestone, evidence, MilestoneTypeOK
<1>0. MilestoneTypeOK /\ (submitting => round < MaxRounds) /\ MaxRounds \in Nat
  BY BoundsAssumption DEF IInv, Types, RoundBook
<1>1. CASE Configure \/ OptOut \/ BeginSubmission \/ Reject \/ WindowElapses
  BY <1>0, <1>1 DEF Configure, OptOut, BeginSubmission, Reject, WindowElapses
<1>2. ASSUME NEW q \in BOOLEAN, Submit(q) PROVE MilestoneTypeOK'
  <2>1. Scheduled(q) \in {auto, "scheduled", "ineligible"}
    BY <1>0 DEF Scheduled
  <2>2. auto' \in {auto, "scheduled", "ineligible"} /\ due' \in {due, FALSE}
    BY <1>2, <2>1 DEF Submit
  <2>3. round' \in 0 .. MaxRounds /\ status' \in {status, "pending_review"}
    BY <1>0, <1>2 DEF Submit
  <2>4. UNCHANGED <<campaign, disputes, enabled, claimed>> /\ submitting' = FALSE
    BY <1>2 DEF Submit
  <2>. QED BY <1>0, <2>2, <2>3, <2>4
<1>3. CASE \/ RaiseDispute \/ CloseDispute \/ ReleaseToCreator
           \/ RefundContributors \/ TargetFound
  BY <1>0, <1>3 DEF RaiseDispute, CloseDispute, ReleaseToCreator,
                    RefundContributors, TargetFound
<1>4. CASE UNCHANGED <<campaign, disputes, milestone, evidence>>
  BY <1>0, <1>4
<1>5. CASE OtherPayment \/ PendingLands \/ EnvelopeExpires
  BY <1>4, <1>5 DEF OtherPayment, PendingLands, EnvelopeExpires
<1>6. ASSUME NEW w \in Workers, Worker(w) PROVE MilestoneTypeOK'
  <2>1. ASSUME NEW sound \in BOOLEAN, ClaimDue(w, sound) PROVE MilestoneTypeOK'
    BY <1>0, <2>1 DEF ClaimDue
  <2>2. CASE Fail(w) \/ Finalize(w)
    BY <1>0, <2>2 DEF Fail, Finalize, Progresses
  <2>3. CASE \/ Recover(w) \/ Check(w) \/ Build(w) \/ Store(w) \/ MarkSubmitted(w)
             \/ Send(w) \/ Ask(w) \/ Look(w) \/ Recheck(w) \/ WorkerStops(w)
    BY <1>4, <2>3 DEF Recover, Check, Build, Store, MarkSubmitted, Send, Ask,
                      Look, Recheck, WorkerStops
  <2>. QED BY <1>6, <2>1, <2>2, <2>3 DEF Worker, Advance
<1>7. ASSUME NEW a \in Approvers, Approver(a) PROVE MilestoneTypeOK'
  <2>1. CASE Claim(a) \/ RecordRelease(a)
    BY <1>0, <2>1 DEF Claim, RecordRelease, Progresses
  <2>2. CASE Approve(a) \/ BuildRelease(a) \/ SendRelease(a) \/ ApproverStops(a)
    BY <1>4, <2>2 DEF Approve, BuildRelease, SendRelease, ApproverStops
  <2>. QED BY <1>7, <2>1, <2>2 DEF Approver
<1>. HIDE DEF milestone, evidence, MilestoneTypeOK
<1>8. CASE UNCHANGED vars
  BY <1>4, <1>8 DEF vars
<1>. QED
  BY <1>1, <1>2, <1>3, <1>5, <1>6, <1>7, <1>8, NextCases DEF Requests, Environment

LEMMA HistoryTypeStep ==
  ASSUME IInv, [Next]_vars
  PROVE  HistoryTypeOK'
<1>. USE DEF counters, history
<1>0. /\ HistoryTypeOK
      /\ auto = "scheduled" => round \in 1 .. MaxRounds
      /\ status # "pending" => round \in 1 .. MaxRounds
      /\ MaxFaults \in Nat /\ MaxDisturbances \in Nat
  BY BoundsAssumption DEF IInv, Types, RoundBook, MilestoneTypeOK
<1>1. CASE Reject \/ RaiseDispute \/ OtherPayment
  <2>1. overtaken' = overtaken
    BY <1>1 DEF Reject, RaiseDispute, OtherPayment
  <2>2. /\ disturbances' \in 0 .. MaxDisturbances /\ faults' \in 0 .. MaxFaults
        /\ disputed' \subseteq 1 .. MaxRounds /\ rejected' \subseteq 1 .. MaxRounds
    <3>1. CASE Reject
      BY <1>0, <3>1 DEF Reject, HistoryTypeOK
    <3>2. CASE Disturb /\ UNCHANGED <<faults, rejected>> /\ disputed' \subseteq 1 .. MaxRounds
      BY <1>0, <3>2 DEF Disturb, HistoryTypeOK
    <3>3. CASE OtherPayment
      BY <1>0, <3>2, <3>3 DEF OtherPayment, HistoryTypeOK
    <3>4. CASE RaiseDispute
      BY <1>0, <3>2, <3>4 DEF RaiseDispute, HistoryTypeOK
    <3>. QED BY <1>1, <3>1, <3>3, <3>4
  <2>. QED BY <1>0, <2>1, <2>2 DEF HistoryTypeOK
<1>2. CASE UNCHANGED <<counters, history>>
  BY <1>0, <1>2 DEF HistoryTypeOK
<1>3. CASE \/ Configure \/ OptOut \/ BeginSubmission
           \/ (\E q \in BOOLEAN : Submit(q)) \/ CloseDispute
           \/ ReleaseToCreator \/ RefundContributors
           \/ WindowElapses \/ TargetFound \/ PendingLands \/ EnvelopeExpires
  BY <1>2, <1>3 DEF Configure, OptOut, BeginSubmission, Submit, CloseDispute,
     ReleaseToCreator, RefundContributors, WindowElapses, TargetFound,
     PendingLands, EnvelopeExpires
<1>4. ASSUME NEW w \in Workers, Worker(w) PROVE HistoryTypeOK'
  <2>1. CASE Recover(w) \/ WorkerStops(w)
    <3>1. faults' \in {faults, faults + 1} /\ (faults' # faults => faults < MaxFaults)
      BY <2>1 DEF Recover, WorkerStops
    <3>2. UNCHANGED <<disturbances, disputed, rejected>>
      BY <2>1 DEF Recover, WorkerStops
    <3>3. CASE overtaken' = overtaken
      BY <1>0, <3>1, <3>2, <3>3 DEF HistoryTypeOK
    <3>4. CASE overtaken' = TRUE
      BY <1>0, <3>1, <3>2, <3>4 DEF HistoryTypeOK
    <3>5. CASE WorkerStops(w)
      BY <3>3, <3>5 DEF WorkerStops
    <3>6. CASE Recover(w)
      BY <3>3, <3>4, <3>6 DEF Recover
    <3>. QED BY <2>1, <3>5, <3>6
  <2>2. CASE \/ (\E sound \in BOOLEAN : ClaimDue(w, sound))
             \/ Check(w) \/ Build(w) \/ Store(w) \/ MarkSubmitted(w)
             \/ Send(w) \/ Ask(w) \/ Look(w) \/ Recheck(w) \/ Fail(w) \/ Finalize(w)
    BY <1>2, <2>2 DEF ClaimDue, Check, Build, Store, MarkSubmitted, Send, Ask,
                      Look, Recheck, Fail, Finalize
  <2>. QED BY <1>4, <2>1, <2>2 DEF Worker, Advance
<1>5. ASSUME NEW a \in Approvers, Approver(a) PROVE HistoryTypeOK'
  BY <1>2, <1>5, Frames
<1>6. CASE UNCHANGED vars
  BY <1>2, <1>6 DEF vars
<1>. QED
  BY <1>1, <1>3, <1>4, <1>5, <1>6, NextCases DEF Requests, Environment

LEMMA RowTypeStep ==
  ASSUME IInv, [Next]_vars
  PROVE  RowTypeOK'
<1>. USE DEF row
<1>0. /\ RowTypeOK /\ round \in 0 .. MaxRounds
      /\ approver \in [Approvers -> ApproverStates]
      /\ EnvelopeBook /\ ApproverBook
      /\ attempt = "claimed" => envelope = None
  BY DEF IInv, Types, MilestoneTypeOK, EnvelopeBook
<1>2. CASE UNCHANGED <<row, withdrawal>>
  BY <1>0, <1>2 DEF RowTypeOK
<1>3. CASE Requests \/ Environment
  BY <1>2, <1>3, Frames
<1>4. ASSUME NEW w \in Workers, Worker(w) PROVE RowTypeOK'
  <2>1. ASSUME NEW sound \in BOOLEAN, ClaimDue(w, sound) PROVE RowTypeOK'
    BY <1>0, <2>1 DEF ClaimDue, RowTypeOK, InFlight
  <2>2. CASE Store(w)
    <3>1. worker[w].envelope \in Envelopes
      BY <1>0, <2>2 DEF Store, EnvelopeBook, Holding, OfAttempt
    <3>. QED BY <1>0, <2>2, <3>1, NoneAssumption DEF Store, RowTypeOK, InFlight
  <2>3. CASE MarkSubmitted(w) \/ Fail(w)
    BY <1>0, <2>3 DEF MarkSubmitted, Fail, RowTypeOK, InFlight
  <2>4. CASE Finalize(w)
    <3>1. envelope # None
      BY <1>0, <2>4 DEF Finalize, EnvelopeBook, Holding, Sending
    <3>. QED BY <1>0, <2>4, <3>1 DEF Finalize, RowTypeOK
  <2>5. CASE \/ Recover(w) \/ Check(w) \/ Build(w) \/ Send(w) \/ Ask(w)
             \/ Look(w) \/ Recheck(w) \/ WorkerStops(w)
    BY <1>2, <2>5 DEF Recover, Check, Build, Send, Ask, Look, Recheck, WorkerStops
  <2>. QED BY <1>4, <2>1, <2>2, <2>3, <2>4, <2>5 DEF Worker, Advance
<1>5. ASSUME NEW a \in Approvers, Approver(a) PROVE RowTypeOK'
  <2>1. CASE RecordRelease(a)
    <3>1. approver[a].envelope \in Envelopes
      BY <1>0, <2>1 DEF RecordRelease, ApproverBook
    <3>. QED BY <1>0, <2>1, <3>1 DEF RecordRelease, RowTypeOK
  <2>2. CASE \/ Approve(a) \/ Claim(a) \/ BuildRelease(a) \/ SendRelease(a)
             \/ ApproverStops(a)
    BY <1>2, <2>2 DEF Approve, Claim, BuildRelease, SendRelease, ApproverStops
  <2>. QED BY <1>5, <2>1, <2>2 DEF Approver
<1>6. CASE UNCHANGED vars
  BY <1>2, <1>6 DEF vars
<1>. QED BY <1>3, <1>4, <1>5, <1>6, NextCases

(* What sending an envelope, or landing it, does to the ledger. *)
LEMMA LandingMoves ==
  ASSUME LedgerTypeOK, NEW e \in Envelopes,
         Pay(e) \/ FailOnLedger(e) \/ Succeeds(e) \/ IsRefused(e) \/ IsLost(e)
  PROVE  /\ LedgerTypeOK' /\ late' = late
         /\ sequence' \in {sequence, sequence + 1}
         /\ network' \subseteq network \cup {e}
         /\ \/ UNCHANGED <<landed, spent, sequence>>
            \/ /\ MayLand(e) /\ sequence' = sequence + 1
               /\ \/ landed' = landed \cup {e} /\ spent' = spent
                  \/ spent' = spent \cup {e} /\ landed' = landed
<1>. USE DEF ledger, LedgerTypeOK
<1>1. CASE Pay(e)
  BY <1>1 DEF Pay
<1>2. CASE FailOnLedger(e)
  BY <1>2 DEF FailOnLedger
<1>3. CASE UNCHANGED <<sequence, landed, spent, late>> /\ network' \subseteq network \cup {e}
  BY <1>3
<1>4. CASE Succeeds(e)
  BY <1>1, <1>3, <1>4 DEF Succeeds
<1>5. CASE IsRefused(e)
  BY <1>2, <1>3, <1>5 DEF IsRefused
<1>6. CASE IsLost(e)
  BY <1>3, <1>6 DEF IsLost
<1>. QED BY <1>1, <1>2, <1>4, <1>5, <1>6

(* What moves the ledger. *)
LEMMA LedgerCases ==
  [Next]_vars =>
    \/ UNCHANGED ledger
    \/ sequence' = sequence + 1 /\ UNCHANGED <<network, landed, spent, late>>
    \/ EnvelopeExpires \/ PendingLands
    \/ \E w \in Workers : Send(w)
    \/ \E a \in Approvers : SendRelease(a)
<1>. USE DEF ledger
<1>1. Requests =>
        \/ UNCHANGED ledger
        \/ sequence' = sequence + 1 /\ UNCHANGED <<network, landed, spent, late>>
  BY DEF Requests, Configure, OptOut, BeginSubmission, Submit, Reject,
         RaiseDispute, CloseDispute, ReleaseToCreator, RefundContributors
<1>2. Environment =>
        \/ UNCHANGED ledger
        \/ sequence' = sequence + 1 /\ UNCHANGED <<network, landed, spent, late>>
        \/ EnvelopeExpires \/ PendingLands
  BY DEF Environment, WindowElapses, TargetFound, OtherPayment
<1>3. ASSUME NEW w \in Workers, Worker(w) PROVE UNCHANGED ledger \/ Send(w)
  BY <1>3 DEF Worker, Advance, ClaimDue, Recover, Check, Build, Store,
     MarkSubmitted, Ask, Look, Recheck, Fail, Finalize, WorkerStops
<1>4. ASSUME NEW a \in Approvers, Approver(a)
      PROVE  UNCHANGED ledger \/ SendRelease(a)
  BY <1>4 DEF Approver, Approve, Claim, BuildRelease, RecordRelease,
              ApproverStops
<1>. QED BY <1>1, <1>2, <1>3, <1>4, NextCases DEF vars

LEMMA SentAreEnvelopes ==
  ASSUME IInv
  PROVE  /\ \A w \in Workers : worker[w].at = "send" =>
              worker[w].envelope = envelope /\ envelope \in Envelopes
         /\ \A a \in Approvers : approver[a].at = "send" =>
              approver[a].envelope \in Envelopes
BY DEF IInv, Types, EnvelopeBook, ApproverBook, Holding, RowTypeOK, Sending

LEMMA LedgerTypeStep ==
  ASSUME IInv, [Next]_vars
  PROVE  /\ LedgerTypeOK'
         /\ sequence' \in {sequence, sequence + 1}
         /\ landed \subseteq landed' /\ spent \subseteq spent'
         /\ late \subseteq late'
<1>. USE DEF ledger
<1>0. LedgerTypeOK /\ RowTypeOK
  BY DEF IInv, Types
<1>. DEFINE Goal == /\ LedgerTypeOK'
                    /\ sequence' \in {sequence, sequence + 1}
                    /\ landed \subseteq landed' /\ spent \subseteq spent'
                    /\ late \subseteq late'
<1>1. ASSUME NEW e \in Envelopes,
             Pay(e) \/ FailOnLedger(e) \/ Succeeds(e) \/ IsRefused(e) \/ IsLost(e)
      PROVE  Goal
  <2>. HIDE DEF ledger
  <2>. QED BY <1>0, <1>1, LandingMoves
<1>2. CASE PendingLands
  BY <1>0, <1>1, <1>2 DEF PendingLands, LedgerTypeOK
<1>3. ASSUME NEW w \in Workers, Send(w) PROVE Goal
  <2>. HIDE DEF Goal
  <2>. QED BY <1>1, <1>3, SentAreEnvelopes DEF Send
<1>4. ASSUME NEW a \in Approvers, SendRelease(a) PROVE Goal
  <2>. HIDE DEF Goal
  <2>. QED BY <1>1, <1>4, SentAreEnvelopes DEF SendRelease
<1>5. CASE EnvelopeExpires
  BY <1>0, <1>5 DEF EnvelopeExpires, LedgerTypeOK, RowTypeOK
<1>6. CASE sequence' = sequence + 1 /\ UNCHANGED <<network, landed, spent, late>>
  BY <1>0, <1>6 DEF LedgerTypeOK
<1>7. CASE UNCHANGED ledger
  BY <1>0, <1>7 DEF LedgerTypeOK
<1>. QED BY <1>2, <1>3, <1>4, <1>5, <1>6, <1>7, LedgerCases

(* One worker moves at a time, and so does one approver. *)
LEMMA WorkerTypeStep ==
  ASSUME IInv, [Next]_vars
  PROVE  worker' \in [Workers -> WorkerStates]
<1>. USE DEF actors
<1>0. /\ worker \in [Workers -> WorkerStates] /\ RowTypeOK
      /\ attempt # "none" => terms \in 1 .. MaxRounds
      /\ sequence \in Nat
  BY DEF IInv, Types, RoundBook, MilestoneTypeOK, LedgerTypeOK, RowTypeOK
<1>1. ASSUME NEW w \in Workers, NEW at \in WorkerPlaces, Goes(w, at)
      PROVE  worker' \in [Workers -> WorkerStates]
  BY <1>0, <1>1 DEF Goes, WorkerStates
<1>2. ASSUME NEW w \in Workers, NEW at \in WorkerPlaces,
             NEW e \in Envelopes \cup {None}, Holds(w, at, e)
      PROVE  worker' \in [Workers -> WorkerStates]
  BY <1>0, <1>2 DEF Holds, WorkerStates
<1>3. ASSUME NEW w \in Workers, Rests(w) PROVE worker' \in [Workers -> WorkerStates]
  BY <1>0, <1>3 DEF Rests, IdleWorker, WorkerStates, WorkerPlaces
<1>4. CASE UNCHANGED worker
  BY <1>0, <1>4
<1>5. ASSUME NEW w \in Workers, Worker(w) PROVE worker' \in [Workers -> WorkerStates]
  <2>1. ASSUME NEW sound \in BOOLEAN, ClaimDue(w, sound)
        PROVE  worker' \in [Workers -> WorkerStates]
    BY <1>2, <1>4, <2>1 DEF ClaimDue, WorkerPlaces
  <2>2. CASE Recover(w)
    BY <1>0, <1>2, <2>2 DEF Recover, WorkerPlaces, RowTypeOK
  <2>3. CASE Build(w)
    <3>1. CASE Goes(w, "fail")
      BY <1>1, <3>1 DEF WorkerPlaces
    <3>. DEFINE e == [round |-> terms, sequence |-> sequence + 1, trigger |-> "auto"]
    <3>2. CASE Holds(w, "store", e)
      <4>1. attempt # "none"
        BY <2>3 DEF Build, IInv, EnvelopeBook, Holding
      <4>2. e \in Envelopes
        BY <1>0, <4>1 DEF Envelopes
      <4>. HIDE DEF e
      <4>. QED BY <1>2, <3>2, <4>2 DEF WorkerPlaces
    <3>. QED BY <2>3, <3>1, <3>2 DEF Build
  <2>4. CASE Check(w) \/ Ask(w) \/ Look(w)
    <3>1. PICK at \in WorkerPlaces : Goes(w, at)
      BY <2>4 DEF Check, Ask, Look, WorkerPlaces
    <3>. QED BY <1>1, <3>1
  <2>5. CASE Store(w) \/ MarkSubmitted(w) \/ Send(w) \/ Recheck(w)
    <3>1. Rests(w) \/ \E at \in WorkerPlaces : Goes(w, at)
      BY <2>5 DEF Store, MarkSubmitted, Send, Recheck, WorkerPlaces
    <3>. QED BY <1>1, <1>3, <3>1
  <2>6. CASE Fail(w) \/ Finalize(w) \/ WorkerStops(w)
    BY <1>3, <2>6 DEF Fail, Finalize, WorkerStops
  <2>. QED BY <1>5, <2>1, <2>2, <2>3, <2>4, <2>5, <2>6 DEF Worker, Advance
<1>6. CASE Requests \/ Environment
  BY <1>4, <1>6, Frames
<1>7. ASSUME NEW a \in Approvers, Approver(a) PROVE worker' \in [Workers -> WorkerStates]
  BY <1>4, <1>7, Frames
<1>8. CASE UNCHANGED vars
  BY <1>4, <1>8 DEF vars
<1>. QED BY <1>5, <1>6, <1>7, <1>8, NextCases

LEMMA ApproverTypeStep ==
  ASSUME IInv, [Next]_vars
  PROVE  approver' \in [Approvers -> ApproverStates]
<1>. USE DEF actors
<1>0. /\ approver \in [Approvers -> ApproverStates]
      /\ round \in 0 .. MaxRounds /\ sequence \in Nat
  BY DEF IInv, Types, MilestoneTypeOK, LedgerTypeOK
<1>1. ASSUME NEW a \in Approvers, NEW r \in ApproverStates,
             approver' = [approver EXCEPT ![a] = r]
      PROVE  approver' \in [Approvers -> ApproverStates]
  BY <1>0, <1>1
<1>2. IdleApprover \in ApproverStates
  BY BoundsAssumption DEF IdleApprover, ApproverStates
<1>3. CASE UNCHANGED approver
  BY <1>0, <1>3
<1>4. ASSUME NEW a \in Approvers, Approver(a)
      PROVE  approver' \in [Approvers -> ApproverStates]
  <2>1. CASE Approve(a)
    <3>1. [at |-> "claim", round |-> round, envelope |-> None] \in ApproverStates
      BY <1>0 DEF ApproverStates
    <3>. QED BY <1>1, <2>1, <3>1 DEF Approve
  <2>2. CASE Claim(a) \/ SendRelease(a)
    <3>1. \/ approver' = [approver EXCEPT ![a] = IdleApprover]
          \/ approver' = [approver EXCEPT ![a].at = "build"]
          \/ approver' = [approver EXCEPT ![a].at = "record"]
      BY <2>2 DEF Claim, SendRelease
    <3>. QED BY <1>0, <1>1, <1>2, <3>1 DEF ApproverStates
  <2>3. CASE BuildRelease(a)
    <3>1. approver[a].round \in 1 .. MaxRounds
      BY <1>0, <2>3 DEF BuildRelease, IInv, RoundBook, ApproverStates
    <3>. DEFINE e == [round |-> approver[a].round, sequence |-> sequence + 1,
                      trigger |-> "manual"]
    <3>2. e \in Envelopes
      BY <1>0, <3>1 DEF Envelopes
    <3>3. approver' = [approver EXCEPT ![a].at = "send", ![a].envelope = e]
      BY <2>3 DEF BuildRelease
    <3>. HIDE DEF e
    <3>. QED BY <1>0, <3>2, <3>3 DEF ApproverStates
  <2>4. CASE RecordRelease(a) \/ ApproverStops(a)
    BY <1>1, <1>2, <2>4 DEF RecordRelease, ApproverStops
  <2>. QED BY <1>4, <2>1, <2>2, <2>3, <2>4 DEF Approver
<1>5. CASE Requests \/ Environment
  BY <1>3, <1>5, Frames
<1>6. ASSUME NEW w \in Workers, Worker(w)
      PROVE  approver' \in [Approvers -> ApproverStates]
  BY <1>3, <1>6, Frames
<1>7. CASE UNCHANGED vars
  BY <1>3, <1>7 DEF vars
<1>. QED BY <1>4, <1>5, <1>6, <1>7, NextCases

---------------------------------------------------------------------------
(* The rounds.                                                             *)
LEMMA RoundStep ==
  ASSUME IInv, [Next]_vars
  PROVE  RoundBook'
<1>. USE DEF milestone, evidence, row, actors, history
<1>0. /\ RoundBook /\ MilestoneTypeOK /\ HistoryTypeOK /\ RowTypeOK
      /\ approver \in [Approvers -> ApproverStates]
      /\ MaxRounds \in Nat
  BY BoundsAssumption DEF IInv, Types
<1>1. CASE UNCHANGED <<submitting, round, status, rejected, auto, disputed,
                       attempt, terms, approver>>
  BY <1>0, <1>1 DEF RoundBook
<1>2. ASSUME UNCHANGED <<submitting, round, rejected, disputed, approver, terms>>,
             \/ attempt' = attempt
             \/ (attempt # "none" /\ attempt' # "none"),
             \/ status' = status
             \/ (status' = "released" /\ round >= 1),
             auto' = auto \/ auto' # "scheduled"
      PROVE  RoundBook'
  BY <1>0, <1>2 DEF RoundBook
<1>3. CASE Configure \/ OptOut \/ BeginSubmission
  <2>1. /\ UNCHANGED <<round, status, rejected, disputed, attempt, terms, approver>>
        /\ auto' = auto \/ auto' # "scheduled"
        /\ submitting' = submitting \/ round < MaxRounds
    BY <1>3 DEF Configure, OptOut, BeginSubmission
  <2>2. submitting' => round' < MaxRounds
    BY <1>0, <2>1 DEF RoundBook
  <2>. QED BY <1>0, <2>1, <2>2 DEF RoundBook
<1>4. ASSUME NEW q \in BOOLEAN, Submit(q) PROVE RoundBook'
  <2>1. /\ UNCHANGED <<rejected, disputed, attempt, terms, approver>>
        /\ submitting' = FALSE
    BY <1>4 DEF Submit
  <2>2. CASE status \in {"pending", "rejected"}
    <3>1. /\ status' = "pending_review" /\ round' = round + 1
          /\ auto' = "scheduled" => attempt = "none" \/ auto = "scheduled"
      BY <1>4, <2>2 DEF Submit, Scheduled
    <3>2. round + 1 \notin disputed /\ round + 1 \notin rejected
      BY <1>0 DEF RoundBook, MilestoneTypeOK
    <3>. QED BY <1>0, <2>1, <3>1, <3>2 DEF RoundBook, MilestoneTypeOK
  <2>3. CASE status \notin {"pending", "rejected"}
    BY <1>0, <1>4, <2>1, <2>3 DEF Submit, RoundBook
  <2>. QED BY <2>2, <2>3
<1>5. CASE Reject
  BY <1>0, <1>5 DEF Reject, RoundBook, MilestoneTypeOK
<1>6. CASE RaiseDispute
  <2>1. /\ UNCHANGED <<submitting, round, status, rejected, attempt, terms, approver>>
        /\ auto' # "scheduled"
        /\ disputed' \subseteq disputed \cup {round}
        /\ disputed' # disputed => auto = "scheduled"
    BY <1>6 DEF RaiseDispute
  <2>. QED BY <1>0, <2>1 DEF RoundBook, MilestoneTypeOK
<1>7. CASE \/ CloseDispute \/ ReleaseToCreator \/ RefundContributors
           \/ Environment
  BY <1>1, <1>7 DEF CloseDispute, ReleaseToCreator, RefundContributors,
     Environment, WindowElapses, TargetFound, OtherPayment, PendingLands,
     EnvelopeExpires
<1>8. ASSUME NEW w \in Workers, Worker(w) PROVE RoundBook'
  <2>1. ASSUME NEW sound \in BOOLEAN, ClaimDue(w, sound) PROVE RoundBook'
    <3>1. UNCHANGED <<submitting, round, status, rejected, disputed, approver>>
      BY <2>1 DEF ClaimDue
    <3>2. \/ attempt' = attempt /\ terms' = terms
          \/ auto = "scheduled" /\ attempt' = "claimed" /\ terms' = round
      BY <2>1 DEF ClaimDue, Fires
    <3>3. auto' # "scheduled"
      BY <2>1 DEF ClaimDue
    <3>. QED BY <1>0, <3>1, <3>2, <3>3 DEF RoundBook, MilestoneTypeOK
  <2>2. CASE Store(w) \/ MarkSubmitted(w) \/ Fail(w)
    BY <1>2, <2>2 DEF Store, MarkSubmitted, Fail, InFlight
  <2>3. CASE Finalize(w)
    <3>1. attempt # "none" /\ terms \in 1 .. round
      BY <1>0, <2>3 DEF Finalize, IInv, EnvelopeBook, Holding, RoundBook
    <3>2. round >= 1
      BY <1>0, <3>1 DEF MilestoneTypeOK
    <3>. QED BY <1>2, <2>3, <3>1, <3>2 DEF Finalize
  <2>4. CASE \/ Recover(w) \/ Check(w) \/ Build(w) \/ Send(w) \/ Ask(w)
             \/ Look(w) \/ Recheck(w) \/ WorkerStops(w)
    BY <1>1, <2>4 DEF Recover, Check, Build, Send, Ask, Look, Recheck, WorkerStops
  <2>. QED BY <1>8, <2>1, <2>2, <2>3, <2>4 DEF Worker, Advance
<1>9. ASSUME NEW a \in Approvers, Approver(a) PROVE RoundBook'
  <2>1. UNCHANGED <<submitting, round, rejected, disputed, attempt, terms>>
    BY <1>9, Frames
  <2>2. ASSUME NEW r \in ApproverStates, r.at # "idle" => r.round \in 1 .. round,
               approver' = [approver EXCEPT ![a] = r]
        PROVE  \A b \in Approvers : approver'[b].at # "idle" => approver'[b].round \in 1 .. round
    BY <1>0, <2>2 DEF RoundBook
  <2>3. IdleApprover \in ApproverStates /\ IdleApprover.at = "idle"
    BY <1>0 DEF IdleApprover, ApproverStates
  <2>4. /\ status' = status \/ (status' = "released" /\ approver[a].at # "idle")
        /\ auto' = auto \/ auto' # "scheduled"
    BY <1>9 DEF Approver, Approve, Claim, BuildRelease, SendRelease,
                RecordRelease, ApproverStops
  <2>5. \A b \in Approvers : approver'[b].at # "idle" => approver'[b].round \in 1 .. round
    <3>1. CASE Approve(a)
      <4>1. [at |-> "claim", round |-> round, envelope |-> None] \in ApproverStates
        BY <1>0 DEF ApproverStates, MilestoneTypeOK
      <4>2. round \in 1 .. round
        BY <1>0, <3>1 DEF Approve, RoundBook, MilestoneTypeOK
      <4>3. approver' = [approver EXCEPT ![a] =
                           [at |-> "claim", round |-> round, envelope |-> None]]
        BY <3>1 DEF Approve
      <4>. QED BY <2>2, <4>1, <4>2, <4>3
    <3>2. CASE Claim(a) \/ SendRelease(a)
      <4>1. approver[a].at # "idle"
        BY <3>2 DEF Claim, SendRelease
      <4>2. \/ approver' = [approver EXCEPT ![a] = IdleApprover]
            \/ approver' = [approver EXCEPT ![a].at = "build"]
            \/ approver' = [approver EXCEPT ![a].at = "record"]
        BY <3>2 DEF Claim, SendRelease
      <4>. QED BY <1>0, <2>2, <2>3, <4>1, <4>2 DEF RoundBook, ApproverStates
    <3>3. CASE BuildRelease(a)
      <4>. DEFINE e == [round |-> approver[a].round, sequence |-> sequence + 1,
                        trigger |-> "manual"]
      <4>1. approver' = [approver EXCEPT ![a].at = "send", ![a].envelope = e]
        BY <3>3 DEF BuildRelease
      <4>2. approver[a].at # "idle"
        BY <3>3 DEF BuildRelease
      <4>. HIDE DEF e
      <4>. QED BY <1>0, <4>1, <4>2 DEF RoundBook, ApproverStates
    <3>4. CASE RecordRelease(a) \/ ApproverStops(a)
      BY <2>2, <2>3, <3>4 DEF RecordRelease, ApproverStops
    <3>. QED BY <1>9, <3>1, <3>2, <3>3, <3>4 DEF Approver
  <2>6. approver[a].at # "idle" => round >= 1
    BY <1>0 DEF RoundBook, MilestoneTypeOK, ApproverStates
  <2>. QED BY <1>0, <2>1, <2>4, <2>5, <2>6 DEF RoundBook
<1>10. CASE UNCHANGED vars
  BY <1>1, <1>10 DEF vars
<1>. QED
  BY <1>3, <1>4, <1>5, <1>6, <1>7, <1>8, <1>9, <1>10, NextCases DEF Requests

---------------------------------------------------------------------------
(* One worker or approver moves at a time. *)
LEMMA WorkerMoves ==
  ASSUME worker \in [Workers -> WorkerStates], NEW w \in Workers
  PROVE  /\ \A at \in WorkerPlaces : Goes(w, at) =>
              worker'[w].at = at /\ worker'[w].envelope = worker[w].envelope
         /\ \A at \in WorkerPlaces, e \in Envelopes \cup {None} : Holds(w, at, e) =>
              worker'[w].at = at /\ worker'[w].envelope = e
         /\ Rests(w) => worker'[w].at = "idle"
BY DEF WorkerStates, Goes, Holds, Rests, IdleWorker

LEMMA OthersStay ==
  ASSUME worker \in [Workers -> WorkerStates], NEW w \in Workers, Worker(w),
         NEW v \in Workers, v # w
  PROVE  worker'[v] = worker[v]
<1>1. ASSUME NEW at, NEW e, Goes(w, at) \/ Holds(w, at, e) \/ Rests(w)
      PROVE  worker'[v] = worker[v]
  BY <1>1 DEF Goes, Holds, Rests
<1>2. CASE \/ UNCHANGED worker \/ Rests(w)
           \/ (\E at, e : Goes(w, at) \/ Holds(w, at, e))
  BY <1>1, <1>2
<1>3. CASE (\E sound \in BOOLEAN : ClaimDue(w, sound)) \/ Recover(w) \/ WorkerStops(w)
  BY <1>2, <1>3 DEF ClaimDue, Recover, WorkerStops
<1>4. CASE Check(w) \/ Build(w) \/ Store(w) \/ MarkSubmitted(w) \/ Send(w)
  BY <1>2, <1>4 DEF Check, Build, Store, MarkSubmitted, Send
<1>5. CASE Ask(w) \/ Look(w) \/ Recheck(w) \/ Fail(w) \/ Finalize(w)
  BY <1>2, <1>5 DEF Ask, Look, Recheck, Fail, Finalize
<1>. QED BY <1>3, <1>4, <1>5 DEF Worker, Advance

---------------------------------------------------------------------------
(* The envelopes.                                                          *)
LEMMA EnvelopeStep ==
  ASSUME IInv, [Next]_vars
  PROVE  EnvelopeBook'
<1>. USE DEF row
<1>0. /\ EnvelopeBook /\ RowTypeOK /\ worker \in [Workers -> WorkerStates]
      /\ sequence \in Nat /\ terms \in Nat
      /\ attempt # "none" => terms \in 1 .. MaxRounds
      /\ sequence' \in {sequence, sequence + 1} /\ landed \subseteq landed'
  BY LedgerTypeStep DEF IInv, Types, RowTypeOK, RoundBook, MilestoneTypeOK,
                        LedgerTypeOK
<1>1. ASSUME NEW e, OfAttempt(e), terms' = terms PROVE OfAttempt(e)'
  BY <1>0, <1>1 DEF OfAttempt, Envelopes
<1>2. CASE UNCHANGED <<row, worker>>
  <2>1. envelope' # None => OfAttempt(envelope)'
    BY <1>0, <1>1, <1>2 DEF EnvelopeBook
  <2>2. ASSUME NEW w \in Workers PROVE Holding(w)'
    <3>1. Holding(w) /\ (worker[w].at = "store" => OfAttempt(worker[w].envelope)')
      BY <1>0, <1>1, <1>2 DEF EnvelopeBook, Holding
    <3>. QED BY <1>0, <1>2, <3>1 DEF Holding
  <2>. QED BY <1>0, <1>2, <2>1, <2>2 DEF EnvelopeBook
(* A worker moves, and the others may rely on what they hold. *)
<1>3. ASSUME NEW w \in Workers, Worker(w), Holding(w)',
             attempt # "none" => attempt' # "none" /\ terms' = terms,
             envelope' = envelope \/ envelope = None
      PROVE  \A v \in Workers : Holding(v)'
  <2>1. ASSUME NEW v \in Workers, v # w PROVE Holding(v)'
    <3>1. Holding(v) /\ worker'[v] = worker[v]
      BY <1>0, <1>3, <2>1, OthersStay DEF EnvelopeBook
    <3>2. worker[v].at = "store" => OfAttempt(worker[v].envelope)'
      BY <1>1, <1>3, <3>1 DEF Holding
    <3>. QED BY <1>0, <1>3, <3>1, <3>2 DEF Holding, OfAttempt, Sending
  <2>2. ASSUME NEW v \in Workers, v = w PROVE Holding(v)'
    BY <1>3, <2>2 DEF Holding
  <2>. QED BY <2>1, <2>2
<1>4. ASSUME NEW w \in Workers, Worker(w) PROVE EnvelopeBook'
  <2>0. Holding(w)
    BY <1>0 DEF EnvelopeBook
  <2>1. CASE Holding(w)' /\ UNCHANGED <<terms, envelope>>
             /\ attempt' \in {attempt, "submitted", "failed", "confirmed"}
    <3>1. envelope' # None => OfAttempt(envelope)'
      BY <1>0, <1>1, <2>1 DEF EnvelopeBook
    <3>2. \A v \in Workers : Holding(v)'
      BY <1>3, <1>4, <2>1
    <3>. QED BY <1>0, <2>1, <3>1, <3>2 DEF EnvelopeBook
  <2>2. ASSUME NEW sound \in BOOLEAN, ClaimDue(w, sound) PROVE EnvelopeBook'
    <3>1. CASE UNCHANGED <<row, worker>>
      BY <1>2, <3>1
    <3>2. CASE /\ attempt = "none" /\ attempt' = "claimed" /\ envelope' = None
               /\ Holds(w, "check", None)
      <4>1. worker'[w].at = "check" /\ worker'[w].envelope = None
        BY <1>0, <3>2, WorkerMoves DEF WorkerPlaces
      <4>2. Holding(w)'
        BY <3>2, <4>1 DEF Holding, Sending
      <4>3. \A v \in Workers : Holding(v)'
        BY <1>0, <1>3, <1>4, <3>2, <4>2 DEF EnvelopeBook
      <4>. QED BY <3>2, <4>3 DEF EnvelopeBook
    <3>. QED BY <2>2, <3>1, <3>2 DEF ClaimDue, Fires
  <2>3. CASE Recover(w)
    <3>1. /\ worker'[w].at \in {"look", "check"} /\ worker'[w].envelope = envelope
          /\ worker'[w].at = "look" => attempt = "submitted"
      BY <1>0, <2>3, WorkerMoves DEF Recover, WorkerPlaces, RowTypeOK
    <3>2. UNCHANGED row /\ attempt # "none"
      BY <2>3 DEF Recover, InFlight
    <3>3. Holding(w)'
      BY <1>0, <3>1, <3>2 DEF Holding, Sending, RowTypeOK
    <3>. QED BY <2>1, <3>2, <3>3
  <2>4. CASE Build(w)
    <3>1. UNCHANGED row /\ attempt # "none"
      BY <2>0, <2>4 DEF Build, Holding
    <3>2. CASE Goes(w, "fail")
      <4>1. worker'[w].at = "fail"
        BY <1>0, <3>2, WorkerMoves DEF WorkerPlaces
      <4>2. Holding(w)'
        BY <3>1, <4>1 DEF Holding, Sending
      <4>. QED BY <2>1, <3>1, <4>2
    <3>3. ASSUME NEW e, Holds(w, "store", e),
                 e = [round |-> terms, sequence |-> sequence + 1, trigger |-> "auto"]
          PROVE  EnvelopeBook'
      <4>1. e \in Envelopes /\ OfAttempt(e)
        BY <1>0, <3>1, <3>3 DEF Envelopes, OfAttempt
      <4>2. OfAttempt(e)'
        BY <1>1, <3>1, <4>1
      <4>3. worker'[w].at = "store" /\ worker'[w].envelope = e
        BY <1>0, <3>3, <4>1, WorkerMoves DEF WorkerPlaces
      <4>4. Holding(w)'
        BY <3>1, <4>2, <4>3 DEF Holding, Sending, OfAttempt
      <4>. QED BY <2>1, <3>1, <4>4
    <3>. QED BY <2>4, <3>2, <3>3 DEF Build
  <2>5. CASE Store(w)
    <3>1. CASE attempt = "claimed"
      <4>1. /\ envelope = None /\ envelope' = worker[w].envelope
            /\ attempt' = "prepared" /\ terms' = terms
            /\ OfAttempt(worker[w].envelope)
        BY <1>0, <2>0, <2>5, <3>1 DEF Store, EnvelopeBook, Holding
      <4>2. worker'[w].at = "mark" /\ worker'[w].envelope = worker[w].envelope
        BY <1>0, <2>5, <3>1, WorkerMoves DEF Store, WorkerPlaces
      <4>3. envelope' # None /\ OfAttempt(envelope)'
        BY <1>1, <4>1, NoneAssumption DEF OfAttempt
      <4>4. Holding(w)'
        BY <4>1, <4>2, <4>3 DEF Holding
      <4>5. \A v \in Workers : Holding(v)'
        BY <1>3, <1>4, <3>1, <4>1, <4>4
      <4>. QED BY <4>1, <4>3, <4>5 DEF EnvelopeBook
    <3>2. CASE attempt # "claimed"
      <4>1. UNCHANGED row /\ Rests(w)
        BY <2>5, <3>2 DEF Store
      <4>2. Holding(w)'
        BY <1>0, <4>1, WorkerMoves DEF Holding, Sending
      <4>. QED BY <2>1, <4>1, <4>2
    <3>. QED BY <3>1, <3>2
  <2>6. CASE MarkSubmitted(w) \/ Recheck(w)
    <3>1. /\ UNCHANGED <<terms, envelope>> /\ worker[w].at \in {"mark", "recheck"}
          /\ attempt' \in {attempt, "submitted"}
      BY <2>6 DEF MarkSubmitted, Recheck
    <3>2. worker'[w].at = "idle" \/ (worker'[w].at \in {"mark", "send"}
                                     /\ worker'[w].envelope = worker[w].envelope)
      BY <1>0, <2>6, WorkerMoves DEF MarkSubmitted, Recheck, WorkerPlaces
    <3>3. Holding(w)'
      BY <2>0, <3>1, <3>2 DEF Holding, Sending
    <3>. QED BY <2>1, <3>1, <3>3
  <2>7. CASE Check(w) \/ Ask(w) \/ Look(w)
    <3>1. UNCHANGED row /\ worker[w].at \in {"check", "ask", "look"}
      BY <2>7 DEF Check, Ask, Look
    <3>2. /\ worker'[w].envelope = worker[w].envelope
          /\ worker'[w].at \in {"fail", "build", "mark", "finalize", "recheck"}
          /\ worker[w].at = "check" /\ worker'[w].at \in Sending => worker[w].envelope # None
          /\ worker'[w].at = "finalize" => worker[w].envelope \in landed
          /\ worker'[w].at = "finalize" => worker[w].at \in {"ask", "look"}
      BY <1>0, <2>7, WorkerMoves DEF Check, Ask, Look, WorkerPlaces, Sending
    <3>3. Holding(w)'
      BY <1>0, <2>0, <3>1, <3>2 DEF Holding, Sending
    <3>. QED BY <2>1, <3>1, <3>3
  <2>8. CASE Send(w)
    <3>1. UNCHANGED row /\ worker[w].at = "send"
      BY <2>8 DEF Send
    <3>2. \/ worker'[w].at = "idle"
          \/ worker'[w].at = "ask" /\ worker'[w].envelope = worker[w].envelope
          \/ /\ worker'[w].at = "finalize" /\ worker'[w].envelope = worker[w].envelope
             /\ Succeeds(worker[w].envelope)
      BY <1>0, <2>8, WorkerMoves DEF Send, WorkerPlaces
    <3>3. Succeeds(worker[w].envelope) => worker[w].envelope \in landed'
      BY DEF Succeeds, Pay, ledger
    <3>4. Holding(w)'
      BY <2>0, <3>1, <3>2, <3>3 DEF Holding, Sending
    <3>. QED BY <2>1, <3>1, <3>4
  <2>9. CASE Fail(w) \/ Finalize(w) \/ WorkerStops(w)
    <3>1. /\ UNCHANGED <<terms, envelope>> /\ Rests(w)
          /\ attempt' \in {attempt, "failed", "confirmed"}
      BY <2>9 DEF Fail, Finalize, WorkerStops
    <3>2. Holding(w)'
      BY <1>0, <3>1, WorkerMoves DEF Holding, Sending
    <3>. QED BY <2>1, <3>1, <3>2
  <2>. QED
    BY <1>4, <2>2, <2>3, <2>4, <2>5, <2>6, <2>7, <2>8, <2>9 DEF Worker, Advance
<1>5. CASE Requests \/ Environment
  BY <1>2, <1>5, Frames DEF actors
<1>6. ASSUME NEW a \in Approvers, Approver(a) PROVE EnvelopeBook'
  BY <1>2, <1>6, Frames
<1>7. CASE UNCHANGED vars
  BY <1>2, <1>7 DEF vars, actors
<1>. QED BY <1>4, <1>5, <1>6, <1>7, NextCases

(* The approvers' envelopes. *)
LEMMA ApproverMoves ==
  ASSUME approver \in [Approvers -> ApproverStates], NEW a \in Approvers,
         Approver(a)
  PROVE  /\ \A b \in Approvers : b # a => approver'[b] = approver[b]
         /\ Approve(a) => approver'[a].at = "claim"
         /\ Claim(a) => approver'[a].at \in {"build", "idle"}
         /\ BuildRelease(a) =>
              /\ approver'[a].at = "send"
              /\ approver'[a].envelope =
                   [round |-> approver[a].round, sequence |-> sequence + 1,
                    trigger |-> "manual"]
         /\ SendRelease(a) =>
              \/ approver'[a].at = "idle"
              \/ /\ Succeeds(approver[a].envelope)
                 /\ approver'[a].at = "record"
                 /\ approver'[a].envelope = approver[a].envelope
         /\ RecordRelease(a) \/ ApproverStops(a) => approver'[a].at = "idle"
<1>. DEFINE built == [round |-> approver[a].round, sequence |-> sequence + 1,
                      trigger |-> "manual"]
            begun == [at |-> "claim", round |-> round, envelope |-> None]
<1>1. Approve(a) => approver' = [approver EXCEPT ![a] = begun]
  BY DEF Approve
<1>2. Claim(a) => \/ approver' = [approver EXCEPT ![a].at = "build"]
                  \/ approver' = [approver EXCEPT ![a] = IdleApprover]
  BY DEF Claim
<1>3. BuildRelease(a) =>
        approver' = [approver EXCEPT ![a].at = "send", ![a].envelope = built]
  BY DEF BuildRelease
<1>4. SendRelease(a) =>
        \/ approver' = [approver EXCEPT ![a] = IdleApprover]
        \/ /\ Succeeds(approver[a].envelope)
           /\ approver' = [approver EXCEPT ![a].at = "record"]
  BY DEF SendRelease
<1>5. RecordRelease(a) \/ ApproverStops(a) =>
        approver' = [approver EXCEPT ![a] = IdleApprover]
  BY DEF RecordRelease, ApproverStops
<1>6. begun.at = "claim"
  OBVIOUS
<1>. HIDE DEF built, begun
<1>7. Approve(a) => approver'[a].at = "claim"
  BY <1>1, <1>6
<1>8. Claim(a) => approver'[a].at \in {"build", "idle"}
  BY <1>2 DEF IdleApprover, ApproverStates
<1>9. BuildRelease(a) => approver'[a].at = "send" /\ approver'[a].envelope = built
  BY <1>3 DEF ApproverStates
<1>10. SendRelease(a) =>
         \/ approver'[a].at = "idle"
         \/ /\ Succeeds(approver[a].envelope)
            /\ approver'[a].at = "record"
            /\ approver'[a].envelope = approver[a].envelope
  BY <1>4 DEF IdleApprover, ApproverStates
<1>11. RecordRelease(a) \/ ApproverStops(a) => approver'[a].at = "idle"
  BY <1>5 DEF IdleApprover
<1>12. \A b \in Approvers : b # a => approver'[b] = approver[b]
  BY <1>1, <1>2, <1>3, <1>4, <1>5 DEF Approver
<1>. QED BY <1>7, <1>8, <1>9, <1>10, <1>11, <1>12 DEF built

LEMMA ApproverBookStep ==
  ASSUME IInv, [Next]_vars
  PROVE  ApproverBook'
<1>0. /\ ApproverBook /\ approver \in [Approvers -> ApproverStates]
      /\ sequence \in Nat
      /\ sequence' \in {sequence, sequence + 1} /\ landed \subseteq landed'
  BY LedgerTypeStep DEF IInv, Types, LedgerTypeOK
<1>9. sequence \in Nat /\ sequence' \in Nat /\ sequence <= sequence'
  <2>1. sequence \in Nat /\ sequence' \in {sequence, sequence + 1}
    BY <1>0
  <2>. QED BY <2>1
<1>. DEFINE Booked(b) ==
       /\ approver[b].at \in {"send", "record"} =>
            /\ approver[b].envelope \in Envelopes
            /\ approver[b].envelope.trigger = "manual"
            /\ approver[b].envelope.sequence - 1 <= sequence
       /\ approver[b].at = "record" => approver[b].envelope \in landed
<1>1. ASSUME NEW b \in Approvers, approver'[b] = approver[b] PROVE Booked(b)'
  BY <1>0, <1>1 DEF ApproverBook, Envelopes
<1>2. CASE UNCHANGED approver
  BY <1>1, <1>2 DEF ApproverBook
<1>3. ASSUME NEW a \in Approvers, Approver(a) PROVE ApproverBook'
  <2>1. Booked(a)'
    <3>1. CASE \/ Approve(a) \/ Claim(a) \/ RecordRelease(a) \/ ApproverStops(a)
      BY <1>0, <1>3, <3>1, ApproverMoves
    <3>2. CASE BuildRelease(a)
      <4>. DEFINE e == [round |-> approver[a].round, sequence |-> sequence + 1,
                        trigger |-> "manual"]
      <4>1. approver[a].round \in 1 .. MaxRounds
        BY <1>0, <3>2, BoundsAssumption
           DEF BuildRelease, IInv, Types, MilestoneTypeOK, RoundBook
      <4>2. e \in Envelopes /\ e.trigger = "manual" /\ e.sequence = sequence + 1
        BY <1>0, <4>1 DEF Envelopes
      <4>3. approver'[a].at = "send" /\ approver'[a].envelope = e
        BY <1>0, <1>3, <3>2, ApproverMoves
      <4>. HIDE DEF e
      <4>4. /\ approver'[a].envelope \in Envelopes
            /\ approver'[a].envelope.trigger = "manual"
            /\ approver'[a].envelope.sequence = sequence + 1
        BY <4>2, <4>3
      <4>5. approver'[a].envelope.sequence - 1 <= sequence'
        BY <1>9, <4>4 DEF Envelopes
      <4>. QED BY <4>3, <4>4, <4>5
    <3>3. CASE SendRelease(a)
      <4>1. Succeeds(approver[a].envelope) => approver[a].envelope \in landed'
        BY DEF Succeeds, Pay, ledger
      <4>2. approver[a].at = "send"
        BY <3>3 DEF SendRelease
      <4>3. /\ approver[a].envelope \in Envelopes
            /\ approver[a].envelope.trigger = "manual"
            /\ approver[a].envelope.sequence - 1 <= sequence
        BY <1>0, <4>2 DEF ApproverBook
      <4>4. approver[a].envelope.sequence - 1 <= sequence'
        BY <1>0, <4>3 DEF Envelopes
      <4>5. \/ approver'[a].at = "idle"
            \/ /\ approver[a].envelope \in landed'
               /\ approver'[a].envelope = approver[a].envelope
        BY <1>0, <1>3, <3>3, <4>1, ApproverMoves
      <4>. QED BY <4>3, <4>4, <4>5
    <3>. QED BY <1>3, <3>1, <3>2, <3>3 DEF Approver
  <2>2. ASSUME NEW b \in Approvers, b # a PROVE Booked(b)'
    BY <1>0, <1>1, <1>3, <2>2, ApproverMoves
  <2>. QED BY <2>1, <2>2 DEF ApproverBook
<1>4. CASE Requests \/ Environment
  BY <1>2, <1>4, Frames DEF actors
<1>5. ASSUME NEW w \in Workers, Worker(w) PROVE ApproverBook'
  BY <1>2, <1>5, Frames
<1>6. CASE UNCHANGED vars
  BY <1>2, <1>6 DEF vars, actors
<1>. QED BY <1>3, <1>4, <1>5, <1>6, NextCases

---------------------------------------------------------------------------
(* The ledger.                                                             *)
LEMMA EnvelopeMoves ==
  ASSUME IInv, [Next]_vars
  PROVE  envelope' = envelope \/ (envelope = None /\ UNCHANGED ledger)
<1>. USE DEF row
<1>1. Requests \/ Environment \/ (\E a \in Approvers : Approver(a)) => envelope' = envelope
  BY Frames
<1>2. ASSUME NEW w \in Workers, Worker(w)
      PROVE  envelope' = envelope \/ (envelope = None /\ UNCHANGED ledger)
  <2>1. ASSUME NEW sound \in BOOLEAN, ClaimDue(w, sound)
        PROVE  envelope' = envelope \/ (envelope = None /\ UNCHANGED ledger)
    BY <2>1 DEF ClaimDue, Fires, IInv, EnvelopeBook
  <2>2. CASE Store(w)
    BY <2>2 DEF Store, IInv, EnvelopeBook
  <2>3. CASE \/ Recover(w) \/ Check(w) \/ Build(w) \/ MarkSubmitted(w)
             \/ Send(w) \/ Ask(w) \/ Look(w) \/ Recheck(w) \/ Fail(w)
             \/ Finalize(w) \/ WorkerStops(w)
    BY <2>3 DEF Recover, Check, Build, MarkSubmitted, Send, Ask, Look, Recheck,
                Fail, Finalize, WorkerStops
  <2>. QED BY <1>2, <2>1, <2>2, <2>3 DEF Worker, Advance
<1>. QED BY <1>1, <1>2, NextCases DEF vars

(* An envelope of the worker's or of an approver's may be sent, or land. *)
Sendable(e) ==
  /\ e \in Envelopes /\ e.sequence - 1 <= sequence
  /\ e.trigger = "auto" => e = envelope

LEMMA AllSendable ==
  ASSUME IInv
  PROVE  /\ \A e \in network \cup landed \cup spent : Sendable(e)
         /\ \A w \in Workers : worker[w].at = "send" => Sendable(worker[w].envelope)
         /\ \A a \in Approvers :
              approver[a].at = "send" =>
                /\ Sendable(approver[a].envelope)
                /\ approver[a].envelope.trigger = "manual"
<1>1. LedgerTypeOK /\ LedgerBook /\ EnvelopeBook /\ ApproverBook
  BY DEF IInv, Types
<1>2. \A e \in network \cup landed \cup spent : Sendable(e)
  BY <1>1 DEF LedgerTypeOK, LedgerBook, Sendable
<1>3. \A w \in Workers : worker[w].at = "send" => Sendable(worker[w].envelope)
  BY <1>1 DEF EnvelopeBook, Holding, Sending, OfAttempt, Sendable
<1>4. \A a \in Approvers :
        approver[a].at = "send" =>
          Sendable(approver[a].envelope) /\ approver[a].envelope.trigger = "manual"
  BY <1>1 DEF ApproverBook, Sendable
<1>. QED BY <1>2, <1>3, <1>4

LEMMA LedgerBookStep ==
  ASSUME IInv, [Next]_vars
  PROVE  LedgerBook'
<1>0. /\ LedgerTypeOK /\ LedgerBook /\ None \notin Envelopes
      /\ envelope' = envelope \/ (envelope = None /\ UNCHANGED ledger)
  BY NoneAssumption, EnvelopeMoves DEF IInv, Types
<1>1. ASSUME NEW e, Sendable(e), envelope' = envelope,
             Pay(e) \/ FailOnLedger(e) \/ Succeeds(e) \/ IsRefused(e) \/ IsLost(e)
      PROVE  LedgerBook'
  <2>1. /\ sequence \in Nat /\ sequence' \in {sequence, sequence + 1}
        /\ network' \subseteq network \cup {e}
        /\ \/ UNCHANGED <<landed, spent, sequence>>
           \/ /\ MayLand(e) /\ sequence' = sequence + 1
              /\ \/ landed' = landed \cup {e} /\ spent' = spent
                 \/ spent' = spent \cup {e} /\ landed' = landed
    BY <1>0, <1>1, LandingMoves DEF Sendable, LedgerTypeOK
  <2>2. \A f \in network' \cup landed' \cup spent' :
          f \in network \cup landed \cup spent \/ f = e
    BY <2>1
  <2>3. \A f \in network' \cup landed' \cup spent' :
          (f.trigger = "auto" => f = envelope') /\ f.sequence - 1 <= sequence'
    BY <1>0, <1>1, <2>1, <2>2 DEF LedgerBook, LedgerTypeOK, Sendable, Envelopes
  <2>4. CASE UNCHANGED <<landed, spent, sequence>>
    BY <1>0, <2>3, <2>4 DEF LedgerBook
  <2>5. CASE /\ MayLand(e) /\ sequence' = sequence + 1
             /\ \/ landed' = landed \cup {e} /\ spent' = spent
                \/ spent' = spent \cup {e} /\ landed' = landed
    <3>1. e.sequence = sequence + 1 /\ e \notin landed \cup spent
      BY <1>0, <2>1, <2>5 DEF MayLand, LedgerBook
    <3>2. landed' \cap spent' = {}
      BY <1>0, <2>5, <3>1 DEF LedgerBook
    <3>3. \A f \in landed' \cup spent' : f.sequence <= sequence'
      BY <1>0, <1>1, <2>1, <2>5, <3>1 DEF LedgerBook, LedgerTypeOK, Envelopes, Sendable
    <3>. QED BY <2>3, <3>2, <3>3 DEF LedgerBook
  <2>. QED BY <2>1, <2>4, <2>5
<1>2. CASE PendingLands
  BY <1>0, <1>1, <1>2, AllSendable DEF PendingLands, row
<1>3. ASSUME NEW w \in Workers, Send(w) PROVE LedgerBook'
  BY <1>1, <1>3, AllSendable DEF Send, row
<1>4. ASSUME NEW a \in Approvers, SendRelease(a) PROVE LedgerBook'
  BY <1>1, <1>4, AllSendable DEF SendRelease, row
<1>5. CASE EnvelopeExpires
  BY <1>0, <1>5 DEF EnvelopeExpires, LedgerBook, row
<1>6. CASE sequence' = sequence + 1 /\ UNCHANGED <<network, landed, spent, late>>
  BY <1>0, <1>6 DEF LedgerBook, LedgerTypeOK, Envelopes, ledger
<1>7. CASE UNCHANGED ledger
  BY <1>0, <1>7, NoneAssumption DEF LedgerBook, LedgerTypeOK, ledger
<1>. QED BY <1>2, <1>3, <1>4, <1>5, <1>6, <1>7, LedgerCases

---------------------------------------------------------------------------
(* The rows.                                                               *)
LEMMA RowBookStep ==
  ASSUME IInv, [Next]_vars
  PROVE  RowBook'
<1>. USE DEF row, milestone
<1>0. /\ RowBook /\ landed \subseteq landed' /\ claimed \in BOOLEAN
      /\ EnvelopeBook /\ ApproverBook /\ None \notin Envelopes
  BY LedgerTypeStep, NoneAssumption DEF IInv, Types, MilestoneTypeOK
<1>1. CASE UNCHANGED <<status, claimed, attempt, envelope, withdrawal>>
  BY <1>0, <1>1 DEF RowBook
<1>2. CASE Requests \/ Environment
  <2>1. UNCHANGED <<attempt, envelope, withdrawal>>
    BY <1>2, Frames
  <2>2. claimed' = claimed
    BY <1>2 DEF Requests, Environment, Configure, OptOut, BeginSubmission,
       Submit, Reject, RaiseDispute, CloseDispute, ReleaseToCreator,
       RefundContributors, WindowElapses, TargetFound, OtherPayment,
       PendingLands, EnvelopeExpires
  <2>3. status' = status \/ (status # "released" /\ status' # "released")
    BY <1>2 DEF Requests, Environment, Configure, OptOut, BeginSubmission,
       Submit, Reject, RaiseDispute, CloseDispute, ReleaseToCreator,
       RefundContributors, WindowElapses, TargetFound, OtherPayment,
       PendingLands, EnvelopeExpires
  <2>. QED BY <1>0, <2>1, <2>2, <2>3 DEF RowBook
<1>3. ASSUME NEW w \in Workers, Worker(w) PROVE RowBook'
  <2>1. ASSUME NEW sound \in BOOLEAN, ClaimDue(w, sound) PROVE RowBook'
    <3>1. CASE UNCHANGED <<claimed, row>>
      BY <1>1, <2>1, <3>1 DEF ClaimDue
    <3>2. CASE claimed' = TRUE /\ attempt' = "claimed"
      BY <1>0, <2>1, <3>2 DEF ClaimDue, RowBook
    <3>. QED BY <2>1, <3>1, <3>2 DEF ClaimDue
  <2>2. CASE Store(w) \/ MarkSubmitted(w)
    <3>1. /\ UNCHANGED <<status, claimed, withdrawal>>
          /\ \/ UNCHANGED <<attempt, envelope>>
             \/ attempt \in InFlight /\ attempt' \in InFlight
      BY <2>2 DEF Store, MarkSubmitted, InFlight
    <3>. QED BY <1>0, <1>1, <3>1 DEF RowBook, InFlight
  <2>3. CASE Fail(w)
    <3>1. /\ UNCHANGED <<status, envelope, withdrawal>>
          /\ attempt' = "failed" \/ UNCHANGED <<attempt, claimed>>
      BY <2>3 DEF Fail
    <3>. QED BY <1>0, <1>1, <3>1 DEF RowBook, InFlight
  <2>4. CASE Finalize(w)
    <3>1. envelope \in landed /\ envelope # None
      BY <1>0, <2>4 DEF Finalize, EnvelopeBook, Holding, Sending
    <3>2. /\ UNCHANGED envelope /\ attempt' = "confirmed"
          /\ \/ /\ status' = "released" /\ withdrawal' = envelope
             \/ /\ status' = status /\ withdrawal' = withdrawal
                /\ attempt = "confirmed" \/ status = "released"
      BY <2>4 DEF Finalize
    <3>. QED BY <1>0, <3>1, <3>2 DEF RowBook, InFlight
  <2>5. CASE \/ Recover(w) \/ Check(w) \/ Build(w) \/ Send(w) \/ Ask(w)
             \/ Look(w) \/ Recheck(w) \/ WorkerStops(w)
    BY <1>1, <2>5 DEF Recover, Check, Build, Send, Ask, Look, Recheck, WorkerStops
  <2>. QED BY <1>3, <2>1, <2>2, <2>3, <2>4, <2>5 DEF Worker, Advance
<1>4. ASSUME NEW a \in Approvers, Approver(a) PROVE RowBook'
  <2>1. CASE Claim(a)
    <3>1. UNCHANGED <<status, attempt, envelope, withdrawal>>
      BY <2>1 DEF Claim
    <3>2. claimed => claimed'
      BY <2>1 DEF Claim
    <3>. QED BY <1>0, <3>1, <3>2 DEF RowBook
  <2>2. CASE RecordRelease(a)
    <3>1. approver[a].envelope \in landed /\ approver[a].envelope # None
      BY <1>0, <2>2 DEF RecordRelease, ApproverBook
    <3>2. /\ UNCHANGED <<attempt, envelope, claimed>>
          /\ \/ status' = "released" /\ withdrawal' = approver[a].envelope
             \/ UNCHANGED <<status, withdrawal>>
      BY <2>2 DEF RecordRelease
    <3>. QED BY <1>0, <3>1, <3>2 DEF RowBook
  <2>3. CASE Approve(a) \/ BuildRelease(a) \/ SendRelease(a) \/ ApproverStops(a)
    BY <1>1, <2>3 DEF Approve, BuildRelease, SendRelease, ApproverStops
  <2>. QED BY <1>4, <2>1, <2>2, <2>3 DEF Approver
<1>5. CASE UNCHANGED vars
  BY <1>1, <1>5 DEF vars
<1>. QED BY <1>2, <1>3, <1>4, <1>5, NextCases

---------------------------------------------------------------------------
(* No worker overtaken.                                                    *)
LEMMA OvertakenStays == [Next]_vars /\ overtaken => overtaken'
<1>. USE DEF history
<1>1. Requests \/ Environment => UNCHANGED overtaken
  BY DEF Requests, Environment, Configure, OptOut, BeginSubmission, Submit,
     Reject, RaiseDispute, CloseDispute, ReleaseToCreator, RefundContributors,
     WindowElapses, TargetFound, OtherPayment, PendingLands, EnvelopeExpires
<1>2. ASSUME NEW w \in Workers, Worker(w)
      PROVE  UNCHANGED overtaken \/ overtaken' = TRUE
  <2>1. CASE Recover(w)
    BY <2>1 DEF Recover
  <2>2. CASE \/ (\E sound \in BOOLEAN : ClaimDue(w, sound)) \/ Check(w)
             \/ Build(w) \/ Store(w) \/ MarkSubmitted(w) \/ Send(w) \/ Ask(w)
             \/ Look(w) \/ Recheck(w) \/ Fail(w) \/ Finalize(w) \/ WorkerStops(w)
    BY <2>2 DEF ClaimDue, Check, Build, Store, MarkSubmitted, Send, Ask, Look,
                Recheck, Fail, Finalize, WorkerStops
  <2>. QED BY <1>2, <2>1, <2>2 DEF Worker, Advance
<1>3. ASSUME NEW a \in Approvers, Approver(a) PROVE UNCHANGED overtaken
  BY <1>3, Frames
<1>4. UNCHANGED vars => UNCHANGED overtaken
  BY DEF vars
<1>. QED BY <1>1, <1>2, <1>3, <1>4, NextCases

(* Who does not send the attempt's envelope leaves it where it is. *)
LEMMA OthersLeaveIt ==
  ASSUME IInv, [Next]_vars, envelope' = envelope,
         \A w \in Workers : ~Send(w)
  PROVE  /\ envelope \notin network => envelope' \notin network'
         /\ envelope \notin network \cup landed \cup spent =>
              envelope' \notin network' \cup landed' \cup spent'
         /\ Dead(envelope) => Dead(envelope)'
<1>. USE DEF ledger
<1>0. /\ LedgerTypeOK /\ LedgerBook /\ RowTypeOK /\ EnvelopeBook
      /\ sequence \in Nat /\ None \notin Envelopes
      /\ envelope # None => envelope.sequence \in Nat /\ envelope.sequence - 1 <= sequence
  BY NoneAssumption DEF IInv, Types, LedgerTypeOK, EnvelopeBook, OfAttempt, Envelopes
<1>1. ASSUME sequence' \in {sequence, sequence + 1}, late \subseteq late',
             network' \cup landed' \cup spent' \subseteq
               network \cup landed \cup spent \cup {e \in Envelopes : e # envelope},
             envelope \in network' => envelope \in network,
             envelope \in landed' \ landed => envelope \in network /\ MayLand(envelope)
      PROVE  /\ envelope \notin network => envelope' \notin network'
             /\ envelope \notin network \cup landed \cup spent =>
                  envelope' \notin network' \cup landed' \cup spent'
             /\ Dead(envelope) => Dead(envelope)'
  <2>1. Dead(envelope) => envelope \notin landed'
    BY <1>1 DEF Dead
  <2>2. ASSUME Dead(envelope), envelope \in network'
        PROVE  ~MayLand(envelope)'
    <3>1. envelope \in network /\ ~MayLand(envelope) /\ envelope # None
      BY <1>0, <1>1, <2>2 DEF Dead, LedgerTypeOK
    <3>2. envelope.sequence # sequence + 1 \/ envelope \in late
      BY <3>1 DEF MayLand
    <3>3. CASE envelope \in late
      BY <1>1, <3>3 DEF MayLand
    <3>4. CASE envelope.sequence # sequence + 1
      <4>1. envelope.sequence <= sequence
        BY <1>0, <3>1, <3>4
      <4>2. sequence <= sequence'
        BY <1>0, <1>1
      <4>3. envelope.sequence # sequence' + 1
        BY <1>0, <1>1, <3>1, <4>1, <4>2
      <4>. QED BY <4>3 DEF MayLand
    <3>. QED BY <3>2, <3>3, <3>4
  <2>3. Dead(envelope) => Dead(envelope)'
    BY <2>1, <2>2 DEF Dead
  <2>. QED BY <1>1, <2>3
<1>2. CASE UNCHANGED ledger
  BY <1>0, <1>1, <1>2
<1>3. CASE sequence' = sequence + 1 /\ UNCHANGED <<network, landed, spent, late>>
  BY <1>0, <1>1, <1>3
<1>4. CASE EnvelopeExpires
  BY <1>0, <1>1, <1>4 DEF EnvelopeExpires
<1>5. CASE PendingLands
  BY <1>0, <1>1, <1>5 DEF PendingLands, Pay, FailOnLedger
<1>6. ASSUME NEW a \in Approvers, SendRelease(a)
      PROVE  /\ envelope \notin network => envelope' \notin network'
             /\ envelope \notin network \cup landed \cup spent =>
                  envelope' \notin network' \cup landed' \cup spent'
             /\ Dead(envelope) => Dead(envelope)'
  <2>1. PICK e \in Envelopes :
          /\ e # envelope
          /\ Succeeds(e) \/ IsRefused(e) \/ IsLost(e)
    BY <1>0, <1>6, AllSendable DEF SendRelease, Sendable, EnvelopeBook, OfAttempt
  <2>2. /\ late' = late /\ sequence' \in {sequence, sequence + 1}
        /\ network' \subseteq network \cup {e}
        /\ landed' \subseteq landed \cup {e} /\ spent' \subseteq spent \cup {e}
    <3>. HIDE DEF ledger
    <3>. QED BY <1>0, <2>1, LandingMoves
  <2>. QED BY <1>1, <2>1, <2>2
<1>. QED BY <1>2, <1>3, <1>4, <1>5, <1>6, LedgerCases

(* Only one worker is at the attempt: when it moves, the others rest. *)
LEMMA OneMoves ==
  ASSUME IInv, NEW w \in Workers, Worker(w), Place(w)',
         \A v \in Workers : v # w => worker[v].at = "idle"
  PROVE  /\ \A u, v \in Workers :
              worker'[u].at # "idle" /\ worker'[v].at # "idle" => u = v
         /\ \A v \in Workers : Place(v)'
<1>1. ASSUME NEW v \in Workers, v # w PROVE worker'[v].at = "idle"
  BY <1>1, OthersStay DEF IInv, Types
<1>2. ASSUME NEW v \in Workers, v # w PROVE Place(v)'
  BY <1>1, <1>2 DEF Place
<1>3. ASSUME NEW v \in Workers, v = w PROVE Place(v)'
  BY <1>3 DEF Place
<1>. QED BY <1>1, <1>2, <1>3

LEMMA SteadyMove ==
  ASSUME IInv, [Next]_vars, Steady, NEW w \in Workers, Worker(w), ~overtaken'
  PROVE  Steady'
<1>. USE DEF row, milestone
<1>0. /\ Types /\ EnvelopeBook /\ RoundBook /\ Holding(w) /\ Place(w) /\ Steady
      /\ worker \in [Workers -> WorkerStates] /\ RowTypeOK
      /\ None \notin network \cup landed \cup spent
      /\ None \notin network' \cup landed' \cup spent'
  BY NoneAssumption, LedgerTypeStep
     DEF IInv, Types, EnvelopeBook, Steady, LedgerTypeOK
<1>1. \A v \in Workers : v # w => \/ worker[v].at = "idle"
                                  \/ worker[w].at = "idle"
  BY <1>0 DEF Steady
<1>2. ASSUME UNCHANGED <<attempt, terms, envelope, rejected, auto, status>>,
             worker[w].at # "idle" \/ \A v \in Workers : worker[v].at = "idle",
             Place(w)',
             attempt \in {"claimed", "prepared", "failed"} => UNCHANGED ledger
      PROVE  Steady'
  <2>1. /\ \A u, v \in Workers :
             worker'[u].at # "idle" /\ worker'[v].at # "idle" => u = v
        /\ \A v \in Workers : Place(v)'
    BY <1>1, <1>2, OneMoves
  <2>. QED BY <1>0, <1>2, <2>1 DEF Steady, Dead, MayLand, ledger, InFlight
<1>3. ASSUME NEW sound \in BOOLEAN, ClaimDue(w, sound) PROVE Steady'
  <2>1. /\ attempt = "none" /\ UNCHANGED <<ledger, status, rejected>>
        /\ \A v \in Workers : worker[v].at = "idle"
    BY <1>0, <1>3 DEF ClaimDue, Fires, EnvelopeBook, Holding, history
  <2>2. CASE UNCHANGED <<row, worker>>
    <3>1. \A v \in Workers : worker'[v].at = "idle"
      BY <2>1, <2>2
    <3>2. \A v \in Workers : Place(v)'
      BY <3>1 DEF Place
    <3>. QED BY <2>1, <2>2, <3>1, <3>2 DEF Steady, InFlight
  <2>3. CASE /\ Holds(w, "check", None) /\ attempt' = "claimed" /\ envelope' = None
             /\ terms' = round /\ auto' = "releasing" /\ ~Blocked
    <3>1. worker'[w].at = "check" /\ worker'[w].envelope = None
      BY <1>0, <2>3, WorkerMoves DEF WorkerPlaces
    <3>2. Place(w)'
      BY <2>3, <3>1 DEF Place
    <3>3. /\ \A u, v \in Workers :
               worker'[u].at # "idle" /\ worker'[v].at # "idle" => u = v
          /\ \A v \in Workers : Place(v)'
      BY <2>1, <3>2, OneMoves
    <3>4. status' = "pending_review" /\ terms' \notin rejected'
      BY <1>0, <2>1, <2>3 DEF Blocked, RoundBook
    <3>. QED BY <1>0, <2>3, <3>3, <3>4 DEF Steady, InFlight
  <2>. QED BY <1>3, <2>2, <2>3 DEF ClaimDue
<1>4. CASE Recover(w)
  <2>1. /\ \A v \in Workers : worker[v].at = "idle"
        /\ UNCHANGED <<ledger, row, rejected, auto, status>>
    BY <1>4 DEF Recover
  <2>2. /\ worker'[w].at = IF attempt = "submitted" THEN "look" ELSE "check"
        /\ worker'[w].envelope = envelope /\ attempt \in InFlight
    BY <1>0, <1>4, WorkerMoves DEF Recover, WorkerPlaces, RowTypeOK
  <2>3. attempt = "claimed" => envelope = None
    BY <1>0 DEF EnvelopeBook
  <2>4. Place(w)'
    BY <1>0, <2>1, <2>2, <2>3 DEF Place, RowTypeOK, InFlight
  <2>. QED BY <1>2, <2>1, <2>4
<1>5. CASE Check(w)
  <2>1. \/ worker'[w].at = "fail"
        \/ worker'[w].at = "build" /\ worker[w].envelope = None
        \/ worker'[w].at = "mark" /\ worker[w].envelope # None
    BY <1>0, <1>5, WorkerMoves DEF Check, WorkerPlaces
  <2>2. attempt \in {"claimed", "prepared"} /\ worker[w].at = "check"
    BY <1>0, <1>5 DEF Check, Place
  <2>3. Dead(envelope) /\ UNCHANGED <<ledger, row, rejected, auto, status>>
    BY <1>0, <1>5, <2>2 DEF Check, Steady, Dead, history
  <2>4. Place(w)'
    BY <1>0, <2>1, <2>2, <2>3 DEF Place, Dead, MayLand, InFlight, ledger
  <2>. QED BY <1>2, <2>2, <2>3, <2>4
<1>6. CASE Build(w)
  <2>1. attempt = "claimed" /\ worker[w].at = "build"
    BY <1>0, <1>6 DEF Build, Place
  <2>2. UNCHANGED <<ledger, row, rejected, auto, status>> /\ Dead(envelope)
    BY <1>0, <1>6, <2>1 DEF Build, Steady, Dead, history
  <2>3. ASSUME NEW e, Holds(w, "store", e) PROVE worker'[w].at = "store"
    BY <1>0, <2>3 DEF Holds
  <2>4. worker'[w].at = "store" \/ worker'[w].at = "fail"
    BY <1>0, <1>6, <2>3, WorkerMoves DEF Build, WorkerPlaces
  <2>5. Place(w)'
    BY <2>1, <2>2, <2>4 DEF Place, Dead, MayLand, InFlight, ledger
  <2>. QED BY <1>2, <2>1, <2>2, <2>5
<1>7. CASE Store(w)
  <2>1. attempt = "claimed" /\ worker[w].at = "store" /\ envelope = None
    BY <1>0, <1>7 DEF Store, Place, EnvelopeBook
  <2>2. /\ UNCHANGED <<ledger, terms, rejected, auto, status>>
        /\ attempt' = "prepared" /\ envelope' = worker[w].envelope
        /\ worker'[w].at = "mark"
    BY <1>0, <1>7, <2>1, WorkerMoves DEF Store, WorkerPlaces, history
  <2>3. worker[w].envelope \in Envelopes /\ worker[w].envelope.trigger = "auto"
    BY <1>0, <2>1 DEF Holding, OfAttempt
  <2>4. worker[w].envelope \notin network \cup landed \cup spent
    <3>1. \A e \in network \cup landed \cup spent :
            e.trigger = "auto" => e = envelope
      BY AllSendable DEF Sendable
    <3>. QED BY <2>1, <2>3, <3>1, NoneAssumption
  <2>5. Place(w)'
    BY <2>2 DEF Place
  <2>6. /\ \A u, v \in Workers :
             worker'[u].at # "idle" /\ worker'[v].at # "idle" => u = v
        /\ \A v \in Workers : Place(v)'
    BY <1>1, <2>1, <2>5, OneMoves
  <2>. QED BY <1>0, <2>1, <2>2, <2>4, <2>6 DEF Steady, InFlight, ledger
<1>8. CASE MarkSubmitted(w)
  <2>1. attempt \in {"prepared", "submitted"} /\ worker[w].at = "mark"
    BY <1>0, <1>8 DEF MarkSubmitted, Place
  <2>2. /\ UNCHANGED <<terms, rejected, auto, status>>
        /\ attempt' = "submitted" /\ worker'[w].at = "send"
    BY <1>0, <1>8, <2>1, WorkerMoves DEF MarkSubmitted, WorkerPlaces, history
  <2>3. Place(w)'
    BY <2>2 DEF Place
  <2>4. /\ \A u, v \in Workers :
             worker'[u].at # "idle" /\ worker'[v].at # "idle" => u = v
        /\ \A v \in Workers : Place(v)'
    BY <1>1, <2>1, <2>3, OneMoves
  <2>. QED BY <1>0, <2>1, <2>2, <2>4 DEF Steady, InFlight
<1>9. CASE Send(w)
  <2>1. /\ attempt = "submitted" /\ worker[w].at = "send"
        /\ worker[w].envelope = envelope
    BY <1>0, <1>9 DEF Send, Place, Holding, Sending
  <2>2. UNCHANGED <<row, rejected, auto, status>>
    BY <1>9 DEF Send, history
  <2>3. \/ worker'[w].at \in {"idle", "finalize"}
        \/ worker'[w].at = "ask" /\ IsRefused(envelope)
    BY <1>0, <1>9, <2>1, WorkerMoves DEF Send, WorkerPlaces
  <2>4. IsRefused(envelope) => envelope \notin network'
    BY DEF IsRefused, FailOnLedger
  <2>5. Place(w)'
    BY <2>1, <2>2, <2>3, <2>4 DEF Place
  <2>. QED BY <1>2, <2>1, <2>2, <2>5
<1>10. CASE Ask(w)
  <2>1. /\ attempt = "submitted" /\ worker[w].at = "ask"
        /\ worker[w].envelope = envelope /\ envelope \notin network
    BY <1>0, <1>10 DEF Ask, Place, Holding, Sending
  <2>2. UNCHANGED <<ledger, row, rejected, auto, status>>
    BY <1>10 DEF Ask, history
  <2>3. \/ worker'[w].at = "finalize"
        \/ worker'[w].at = "fail" /\ envelope \notin landed
    BY <1>0, <1>10, <2>1, WorkerMoves DEF Ask, WorkerPlaces
  <2>4. Place(w)'
    BY <2>1, <2>2, <2>3 DEF Place, Dead, InFlight, ledger
  <2>. QED BY <1>2, <2>1, <2>2, <2>4
<1>11. CASE Look(w)
  <2>1. /\ attempt = "submitted" /\ worker[w].at = "look"
        /\ worker[w].envelope = envelope /\ envelope \in Envelopes
    BY <1>0, <1>11 DEF Look, Place, Holding, Sending, RowTypeOK
  <2>2. UNCHANGED <<ledger, row, rejected, auto, status>>
    BY <1>11 DEF Look, history
  <2>3. \/ worker'[w].at \in {"finalize", "recheck"}
        \/ /\ worker'[w].at = "fail" /\ envelope \notin landed
           /\ envelope \in spent \/ envelope \in late
    <3>1. \/ Goes(w, "finalize") \/ Goes(w, "recheck")
          \/ /\ Goes(w, "fail") /\ envelope \notin landed
             /\ envelope \in spent \/ envelope \in late
      <4>1. envelope \in spent => envelope \notin landed
        BY DEF IInv, LedgerBook
      <4>. QED BY <1>11, <2>1, <4>1 DEF Look
    <3>. QED BY <1>0, <3>1, WorkerMoves DEF WorkerPlaces
  <2>4. envelope \in spent => envelope.sequence # sequence + 1
    <3>1. envelope \in spent => envelope.sequence <= sequence
      BY DEF IInv, LedgerBook
    <3>2. envelope.sequence \in Nat /\ sequence \in Nat
      BY <1>0, <2>1 DEF Types, LedgerTypeOK, Envelopes
    <3>. QED BY <3>1, <3>2
  <2>5. worker'[w].at = "fail" => Dead(envelope)
    BY <2>3, <2>4 DEF Dead, MayLand
  <2>6. Place(w)'
    BY <2>1, <2>2, <2>3, <2>5 DEF Place, Dead, MayLand, InFlight, ledger
  <2>. QED BY <1>2, <2>1, <2>2, <2>6
<1>12. CASE Recheck(w) \/ WorkerStops(w)
  <2>1. UNCHANGED <<ledger, row, rejected, auto, status>> /\ worker[w].at # "idle"
    BY <1>12 DEF Recheck, WorkerStops, history
  <2>2. \/ worker'[w].at = "idle"
        \/ worker'[w].at = "mark" /\ worker[w].at = "recheck"
    BY <1>0, <1>12, WorkerMoves DEF Recheck, WorkerStops, WorkerPlaces
  <2>3. Place(w)'
    BY <1>0, <2>1, <2>2 DEF Place
  <2>. QED BY <1>2, <2>1, <2>3
<1>13. CASE Fail(w)
  <2>1. attempt \in InFlight /\ worker[w].at = "fail" /\ Dead(envelope)
    BY <1>0, <1>13 DEF Fail, Place
  <2>2. /\ attempt' = "failed" /\ UNCHANGED <<ledger, envelope>>
        /\ worker'[w].at = "idle"
    BY <1>0, <1>13, <2>1, WorkerMoves DEF Fail
  <2>3. Place(w)' /\ Dead(envelope)'
    BY <2>1, <2>2 DEF Place, Dead, MayLand, ledger
  <2>4. /\ \A u, v \in Workers :
             worker'[u].at # "idle" /\ worker'[v].at # "idle" => u = v
        /\ \A v \in Workers : Place(v)'
    BY <1>1, <2>1, <2>3, OneMoves
  <2>. QED BY <2>2, <2>3, <2>4 DEF Steady, InFlight
<1>14. CASE Finalize(w)
  <2>1. attempt = "submitted" /\ worker[w].at = "finalize"
    BY <1>0, <1>14 DEF Finalize, Place
  <2>2. /\ attempt' = "confirmed" /\ UNCHANGED <<terms, rejected>>
        /\ worker'[w].at = "idle"
    BY <1>0, <1>14, WorkerMoves DEF Finalize, history
  <2>3. Place(w)'
    BY <2>2 DEF Place
  <2>4. /\ \A u, v \in Workers :
             worker'[u].at # "idle" /\ worker'[v].at # "idle" => u = v
        /\ \A v \in Workers : Place(v)'
    BY <1>1, <2>1, <2>3, OneMoves
  <2>. QED BY <1>0, <2>1, <2>2, <2>4 DEF Steady, InFlight
<1>. QED
  BY <1>3, <1>4, <1>5, <1>6, <1>7, <1>8, <1>9, <1>10, <1>11, <1>12, <1>13, <1>14
     DEF Worker, Advance

LEMMA AttemptBookStep ==
  ASSUME IInv, [Next]_vars
  PROVE  AttemptBook'
<1>. USE DEF row, milestone, actors
<1>. SUFFICES ASSUME ~overtaken' PROVE Steady'
  BY DEF AttemptBook
<1>0. /\ Steady /\ Claimed /\ RowBook /\ LedgerTypeOK
      /\ worker \in [Workers -> WorkerStates]
  BY OvertakenStays DEF IInv, Types, AttemptBook, ManualBook
<1>1. ASSUME UNCHANGED <<row, worker>>,
             attempt \in InFlight => UNCHANGED <<auto, status>>,
             attempt \in InFlight \cup {"confirmed"} => UNCHANGED rejected
      PROVE  Steady'
  <2>0. ASSUME NEW w \in Workers PROVE ~Send(w)
    <3>1. Send(w) => worker[w].at = "send" /\ worker'[w].at # "send"
      BY <1>0, WorkerMoves DEF Send, WorkerPlaces
    <3>. QED BY <1>1, <3>1
  <2>1. \A w \in Workers : Place(w)'
    BY <1>0, <1>1, <2>0, OthersLeaveIt DEF Steady, Place
  <2>2. /\ attempt' \in {"claimed", "prepared"} =>
             envelope' \notin network' \cup landed' \cup spent'
        /\ attempt' = "failed" => Dead(envelope)'
    BY <1>0, <1>1, <2>0, OthersLeaveIt DEF Steady
  <2>. QED BY <1>0, <1>1, <2>1, <2>2 DEF Steady, InFlight
<1>2. CASE Requests \/ Environment
  <2>1. UNCHANGED <<row, worker>>
    BY <1>2, Frames
  <2>2. auto = "releasing" /\ status = "pending_review" =>
          UNCHANGED <<auto, status, rejected>>
    BY <1>2 DEF Requests, Environment, Configure, OptOut, BeginSubmission,
       Submit, Reject, RaiseDispute, CloseDispute, ReleaseToCreator,
       RefundContributors, WindowElapses, TargetFound, OtherPayment,
       PendingLands, EnvelopeExpires, history
  <2>3. status = "released" => UNCHANGED rejected
    BY <1>2 DEF Requests, Environment, Configure, OptOut, BeginSubmission,
       Submit, Reject, RaiseDispute, CloseDispute, ReleaseToCreator,
       RefundContributors, WindowElapses, TargetFound, OtherPayment,
       PendingLands, EnvelopeExpires, history
  <2>. QED BY <1>0, <1>1, <2>1, <2>2, <2>3 DEF Steady, RowBook
<1>3. ASSUME NEW w \in Workers, Worker(w) PROVE Steady'
  BY <1>0, <1>3, SteadyMove
<1>4. ASSUME NEW a \in Approvers, Approver(a) PROVE Steady'
  <2>1. UNCHANGED <<row, worker, rejected>>
    BY <1>4, Frames DEF history
  <2>2. UNCHANGED <<auto, status>> \/ approver[a].at = "record"
    BY <1>4 DEF Approver, Approve, Claim, BuildRelease, SendRelease,
                RecordRelease, ApproverStops
  <2>3. approver[a].at = "record" => attempt \notin InFlight
    BY <1>0 DEF Claimed, Owner, InFlight
  <2>. QED BY <1>1, <2>1, <2>2, <2>3
<1>5. CASE UNCHANGED vars
  BY <1>1, <1>5 DEF vars, history
<1>. QED BY <1>2, <1>3, <1>4, <1>5, NextCases

---------------------------------------------------------------------------
(* The approvers' payments.                                                *)
LEMMA ManualMoves ==
  ASSUME IInv, [Next]_vars, \A a \in Approvers : ~SendRelease(a)
  PROVE  Manual' = Manual
<1>. USE DEF ledger
<1>1. ASSUME NEW e, Pay(e) \/ FailOnLedger(e), e \in network \/ e.trigger = "auto"
      PROVE  Manual' = Manual
  BY <1>1 DEF Pay, FailOnLedger, Manual
<1>2. CASE PendingLands
  BY <1>1, <1>2 DEF PendingLands
<1>3. ASSUME NEW w \in Workers, Send(w) PROVE Manual' = Manual
  <2>. DEFINE e == worker[w].envelope
  <2>1. e.trigger = "auto"
    BY <1>3 DEF Send, IInv, EnvelopeBook, Holding, Sending, OfAttempt
  <2>2. \/ Pay(e) \/ FailOnLedger(e) \/ UNCHANGED ledger
        \/ /\ UNCHANGED <<sequence, landed, spent, late>>
           /\ network' = network \ {e} \/ network' \subseteq network \cup {e}
           /\ network \subseteq network' \cup {e}
    BY <1>3 DEF Send, Succeeds, IsRefused, IsLost
  <2>. HIDE DEF e
  <2>3. CASE /\ UNCHANGED <<sequence, landed, spent, late>>
             /\ network' = network \ {e} \/ network' \subseteq network \cup {e}
             /\ network \subseteq network' \cup {e}
    BY <2>1, <2>3 DEF Manual
  <2>. QED BY <1>1, <2>1, <2>2, <2>3 DEF Manual
<1>4. CASE UNCHANGED ledger
  BY <1>4 DEF Manual
<1>5. CASE sequence' = sequence + 1 /\ UNCHANGED <<network, landed, spent, late>>
  BY <1>5 DEF Manual
<1>6. CASE EnvelopeExpires
  BY <1>6 DEF EnvelopeExpires, Manual
<1>. QED BY <1>2, <1>3, <1>4, <1>5, <1>6, LedgerCases

LEMMA ManualBookStep ==
  ASSUME IInv, [Next]_vars
  PROVE  ManualBook'
<1>. USE DEF row, milestone, actors
<1>. SUFFICES ASSUME ~overtaken' PROVE Claimed'
  BY DEF ManualBook
<1>0. /\ Steady /\ Claimed /\ RowBook /\ LedgerTypeOK /\ claimed \in BOOLEAN
      /\ approver \in [Approvers -> ApproverStates]
      /\ worker \in [Workers -> WorkerStates]
  BY OvertakenStays DEF IInv, Types, AttemptBook, ManualBook, MilestoneTypeOK
<1>1. ASSUME NEW a \in Approvers, SendRelease(a)
      PROVE  approver'[a] # approver[a]
  <2>1. approver[a].at = "send"
    BY <1>1 DEF SendRelease
  <2>2. approver'[a].at # "send"
    BY <1>0, <1>1, ApproverMoves DEF Approver
  <2>. QED BY <2>1, <2>2
(* The approvers rest: the milestone stays claimed, or none has claimed it. *)
<1>2. ASSUME UNCHANGED approver,
             \/ UNCHANGED <<claimed, attempt>>
             \/ ~claimed \/ attempt \notin {"none", "failed"}
      PROVE  Claimed'
  <2>1. Manual' = Manual
    BY <1>1, <1>2, ManualMoves
  <2>2. \A a \in Approvers : Owner(a)' <=> Owner(a)
    BY <1>2 DEF Owner
  <2>3. CASE UNCHANGED <<claimed, attempt>>
    BY <1>0, <1>2, <2>1, <2>2, <2>3 DEF Claimed
  <2>4. CASE ~claimed \/ attempt \notin {"none", "failed"}
    <3>1. Manual = {} /\ \A a \in Approvers : ~Owner(a)
      BY <1>0, <2>4 DEF Claimed
    <3>2. Manual' = {} /\ \A a \in Approvers : ~Owner(a)'
      BY <2>1, <2>2, <3>1
    <3>. QED BY <3>2 DEF Claimed, Owner
  <2>. QED BY <1>2, <2>3, <2>4
<1>3. CASE Requests \/ Environment
  <2>1. UNCHANGED claimed
    BY <1>3 DEF Requests, Environment, Configure, OptOut, BeginSubmission,
       Submit, Reject, RaiseDispute, CloseDispute, ReleaseToCreator,
       RefundContributors, WindowElapses, TargetFound, OtherPayment,
       PendingLands, EnvelopeExpires
  <2>. QED BY <1>2, <1>3, <2>1, Frames
<1>4. ASSUME NEW w \in Workers, Worker(w) PROVE Claimed'
  <2>1. UNCHANGED approver
    BY <1>4, Frames
  <2>2. ASSUME NEW sound \in BOOLEAN, ClaimDue(w, sound)
        PROVE  UNCHANGED <<claimed, attempt>> \/ ~claimed
    BY <2>2 DEF ClaimDue, Fires
  <2>3. CASE Store(w) \/ MarkSubmitted(w) \/ Fail(w) \/ Finalize(w)
    <3>1. Place(w)
      BY <1>0 DEF Steady
    <3>2. attempt \notin {"none", "failed"}
      BY <2>3, <3>1 DEF Store, MarkSubmitted, Fail, Finalize, Place, InFlight
    <3>. QED BY <1>2, <2>1, <3>2
  <2>4. CASE \/ Recover(w) \/ Check(w) \/ Build(w) \/ Send(w) \/ Ask(w)
             \/ Look(w) \/ Recheck(w) \/ WorkerStops(w)
    <3>1. UNCHANGED <<claimed, attempt>>
      BY <2>4 DEF Recover, Check, Build, Send, Ask, Look, Recheck, WorkerStops
    <3>. QED BY <1>2, <2>1, <3>1
  <2>. QED BY <1>2, <1>4, <2>1, <2>2, <2>3, <2>4 DEF Worker, Advance
<1>5. ASSUME NEW a \in Approvers, Approver(a) PROVE Claimed'
  <2>1. UNCHANGED attempt /\ \A b \in Approvers : b # a => approver'[b] = approver[b]
    BY <1>0, <1>5, Frames, ApproverMoves
  <2>2. \A b \in Approvers : b # a => (Owner(b)' <=> Owner(b))
    BY <2>1 DEF Owner
  <2>3. UNCHANGED ledger => Manual' = Manual
    BY DEF Manual, ledger
  (* He is no owner any more. *)
  <2>4. ASSUME approver'[a].at \in {"idle", "claim"}, UNCHANGED <<ledger, claimed>>
        PROVE  Claimed'
    <3>1. ~Owner(a)'
      BY <2>4 DEF Owner
    <3>2. \A b \in Approvers : Owner(b)' => b # a
      BY <3>1 DEF Owner
    <3>3. \A b \in Approvers : Owner(b)' => Owner(b) /\ approver'[b] = approver[b]
      BY <2>1, <2>2, <3>2
    <3>. QED BY <1>0, <2>1, <2>3, <2>4, <3>3 DEF Claimed, Owner
  <2>5. CASE Approve(a) \/ RecordRelease(a) \/ ApproverStops(a)
    <3>1. approver'[a].at \in {"idle", "claim"}
      BY <1>0, <1>5, <2>5, ApproverMoves
    <3>2. UNCHANGED <<ledger, claimed>>
      BY <2>5 DEF Approve, RecordRelease, ApproverStops
    <3>. QED BY <2>4, <3>1, <3>2
  <2>6. CASE Claim(a)
    <3>1. UNCHANGED ledger
      BY <2>6 DEF Claim
    <3>2. CASE claimed' = claimed /\ approver'[a].at = "idle"
      BY <2>4, <3>1, <3>2
    <3>3. CASE ~claimed /\ claimed' = TRUE /\ status = "pending_review"
               /\ approver'[a].at = "build"
      <4>1. Manual = {} /\ \A b \in Approvers : ~Owner(b)
        BY <1>0, <3>3 DEF Claimed
      <4>2. attempt \in {"none", "failed"}
        BY <1>0, <3>3 DEF RowBook, InFlight, IInv, Types, RowTypeOK
      <4>3. \A b \in Approvers : Owner(b)' => b = a
        BY <2>2, <4>1
      <4>4. \A b \in Approvers : approver'[b].at # "record"
        BY <3>3, <4>3 DEF Owner
      <4>5. claimed' /\ attempt' \in {"none", "failed"} /\ Manual' = {}
        BY <2>1, <2>3, <3>1, <3>3, <4>1, <4>2
      <4>. QED BY <4>3, <4>4, <4>5 DEF Claimed
    <3>4. \/ claimed' = claimed /\ approver' = [approver EXCEPT ![a] = IdleApprover]
          \/ /\ ~claimed /\ claimed' = TRUE /\ status = "pending_review"
             /\ approver' = [approver EXCEPT ![a].at = "build"]
      BY <2>6 DEF Claim
    <3>5. approver' = [approver EXCEPT ![a] = IdleApprover] => approver'[a].at = "idle"
      BY <1>0 DEF IdleApprover
    <3>6. approver' = [approver EXCEPT ![a].at = "build"] => approver'[a].at = "build"
      BY <1>0 DEF ApproverStates
    <3>. QED BY <3>2, <3>3, <3>4, <3>5, <3>6, Zenon
  <2>7. CASE BuildRelease(a)
    <3>1. UNCHANGED <<ledger, claimed>> /\ approver[a].at = "build"
      BY <2>7 DEF BuildRelease
    <3>2. approver'[a].at = "send"
      BY <1>0, <1>5, <2>7, ApproverMoves
    <3>3. \A b \in Approvers : Owner(b)' <=> Owner(b)
      BY <2>2, <3>1, <3>2 DEF Owner
    <3>4. \A b \in Approvers : approver'[b].at = "record" => approver'[b] = approver[b]
      BY <2>1, <3>2
    <3>5. Manual' = {} /\ Manual = {}
      BY <1>0, <2>3, <3>1 DEF Claimed
    <3>6. \A b \in Approvers : approver'[b].at # "record"
      <4>1. \A b \in Approvers : Owner(b) => b = a
        BY <1>0, <3>1 DEF Claimed, Owner
      <4>. QED BY <3>2, <3>3, <4>1 DEF Owner
    <3>. QED BY <1>0, <2>1, <3>1, <3>3, <3>5, <3>6 DEF Claimed
  <2>8. CASE SendRelease(a)
    <3>. DEFINE e == approver[a].envelope
    <3>1. approver[a].at = "send" /\ UNCHANGED claimed
      BY <2>8 DEF SendRelease
    <3>2. /\ Manual = {} /\ claimed /\ attempt \in {"none", "failed"}
          /\ \A b \in Approvers : b # a => ~Owner(b)
      BY <1>0, <3>1 DEF Claimed, Owner
    <3>3. e.trigger = "manual"
      BY <3>1, AllSendable
    <3>4. \/ approver'[a].at = "idle"
          \/ Succeeds(e) /\ approver'[a].at = "record" /\ approver'[a].envelope = e
      BY <1>0, <1>5, <2>8, ApproverMoves
    <3>5. /\ network' \cup landed' \cup spent' \subseteq network \cup landed \cup spent \cup {e}
          /\ Succeeds(e) => e \in landed'
      BY <2>8 DEF SendRelease, Succeeds, IsRefused, IsLost, Pay, FailOnLedger, ledger
    <3>. HIDE DEF e
    <3>6. Manual' \subseteq {e} /\ (Succeeds(e) => Manual' = {e})
      BY <3>2, <3>3, <3>5 DEF Manual
    <3>7. \A b \in Approvers : Owner(b)' => b = a
      BY <2>2, <3>2
    <3>8. claimed' /\ attempt' \in {"none", "failed"}
      BY <2>1, <3>1, <3>2
    <3>9. CASE approver'[a].at = "idle"
      <4>1. \A b \in Approvers : ~Owner(b)'
        BY <3>7, <3>9 DEF Owner
      <4>. QED BY <3>6, <3>8, <4>1 DEF Claimed, Owner
    <3>10. CASE Manual' = {e} /\ approver'[a].at = "record" /\ approver'[a].envelope = e
      <4>1. \A b \in Approvers : approver'[b].at \notin {"build", "send"}
        BY <3>7, <3>10 DEF Owner
      <4>2. \A b \in Approvers : approver'[b].at = "record" =>
              Manual' = {approver'[b].envelope}
        BY <3>7, <3>10 DEF Owner
      <4>. QED BY <3>7, <3>8, <3>10, <4>1, <4>2 DEF Claimed
    <3>. QED BY <3>4, <3>6, <3>9, <3>10
  <2>. QED BY <1>5, <2>5, <2>6, <2>7, <2>8 DEF Approver
<1>6. CASE UNCHANGED vars
  BY <1>2, <1>6 DEF vars
<1>. QED BY <1>3, <1>4, <1>5, <1>6, NextCases

---------------------------------------------------------------------------
(* The invariant holds.                                                    *)
LEMMA InitInv == Init => IInv
<1>. SUFFICES ASSUME Init PROVE IInv
  OBVIOUS
<1>. USE DEF Init
<1>1. Types
  <2>1. IdleWorker \in WorkerStates
    BY DEF IdleWorker, WorkerStates, WorkerPlaces
  <2>2. IdleApprover \in ApproverStates
    BY BoundsAssumption DEF IdleApprover, ApproverStates
  <2>3. /\ 0 \in Nat /\ 0 \in 0 .. MaxRounds
        /\ 0 \in 0 .. MaxDisturbances /\ 0 \in 0 .. MaxFaults
    BY BoundsAssumption
  <2>4. MilestoneTypeOK
    BY <2>3, Zenon DEF MilestoneTypeOK
  <2>5. HistoryTypeOK
    BY <2>3, Zenon DEF HistoryTypeOK
  <2>6. RowTypeOK /\ LedgerTypeOK
    BY <2>3 DEF RowTypeOK, LedgerTypeOK
  <2>. QED BY <2>1, <2>2, <2>4, <2>5, <2>6 DEF Types
<1>2. /\ \A w \in Workers : worker[w] = IdleWorker
      /\ \A a \in Approvers : approver[a] = IdleApprover
  OBVIOUS
<1>3. IdleWorker.at = "idle" /\ IdleApprover.at = "idle"
  BY DEF IdleWorker, IdleApprover
<1>4. RoundBook
  BY <1>2, <1>3 DEF RoundBook
<1>5. EnvelopeBook /\ ApproverBook /\ LedgerBook /\ RowBook
  <2>1. EnvelopeBook
    BY <1>2, <1>3 DEF EnvelopeBook, Holding, Sending
  <2>2. ApproverBook
    BY <1>2, <1>3 DEF ApproverBook
  <2>3. LedgerBook
    BY DEF LedgerBook
  <2>4. RowBook
    BY DEF RowBook, InFlight
  <2>. QED BY <2>1, <2>2, <2>3, <2>4
<1>6. AttemptBook
  BY <1>2, <1>3 DEF AttemptBook, Steady, Place, InFlight
<1>7. ManualBook
  BY <1>2, <1>3 DEF ManualBook, Claimed, Manual, Owner
<1>. QED BY <1>1, <1>4, <1>5, <1>6, <1>7 DEF IInv

LEMMA InvStep == IInv /\ [Next]_vars => IInv'
<1>. SUFFICES ASSUME IInv, [Next]_vars PROVE IInv'
  OBVIOUS
<1>1. Types'
  BY MilestoneTypeStep, HistoryTypeStep, RowTypeStep, LedgerTypeStep,
     WorkerTypeStep, ApproverTypeStep DEF Types
<1>2. RoundBook' /\ EnvelopeBook' /\ ApproverBook'
  BY RoundStep, EnvelopeStep, ApproverBookStep
<1>3. LedgerBook' /\ RowBook' /\ AttemptBook' /\ ManualBook'
  BY LedgerBookStep, RowBookStep, AttemptBookStep, ManualBookStep
<1>. QED BY <1>1, <1>2, <1>3 DEF IInv

LEMMA Invariant == Spec => []IInv
BY InitInv, InvStep, PTL DEF Spec

(* The types of every column and of every step of an actor                 *)
(* (milestoneAutoRelease.js, milestones.js).                               *)
THEOREM TypeCorrect == Spec => []ReleaseTypeOK
<1>1. IInv => ReleaseTypeOK
  BY TypesAreTypes DEF IInv
<1>. QED BY <1>1, Invariant, PTL

(* What the invariant says of the attempt's envelope when it has paid. *)
LEMMA AttemptPaid ==
  ASSUME IInv, ~overtaken, envelope \in landed
  PROVE  attempt \in {"prepared", "submitted", "confirmed"}
<1>1. envelope # None
  BY NoneAssumption DEF IInv, Types, LedgerTypeOK
<1>2. attempt \notin {"none", "claimed"}
  BY <1>1 DEF IInv, EnvelopeBook
<1>3. attempt # "failed"
  BY DEF IInv, AttemptBook, Steady, Dead
<1>. QED BY <1>2, <1>3 DEF IInv, Types, RowTypeOK, InFlight

(* However workers and approvers meet, stop and retry, a milestone is paid *)
(* once, unless an attempt was taken from a worker still at it, and stays  *)
(* claimed until that is recorded (milestoneAutoRelease.js:21-27).         *)
THEOREM MilestonePaidOnce == Spec => []PaidOnce
<1>1. ASSUME IInv, ~overtaken
      PROVE  /\ Cardinality(landed) <= 1
             /\ landed # {} /\ status # "released" => claimed
  <2>0. Claimed /\ LedgerBook /\ LedgerTypeOK /\ RowBook
    BY <1>1 DEF IInv, ManualBook, Types
  <2>1. \A e \in landed : e = envelope \/ e \in Manual
    <3>1. \A e \in landed : e.trigger \in {"auto", "manual"}
      BY <2>0 DEF LedgerTypeOK, Envelopes
    <3>. QED BY <2>0, <3>1 DEF LedgerBook, Manual
  <2>2. envelope \in landed => Manual = {}
    BY <1>1, <2>0, AttemptPaid DEF Claimed
  <2>3. \A e, f \in landed : e = f
    BY <2>0, <2>1, <2>2 DEF Claimed
  <2>4. Cardinality(landed) <= 1
    <3>1. CASE landed = {}
      BY <3>1, FS_EmptySet
    <3>2. CASE landed # {}
      <4>1. PICK e : landed = {e}
        BY <2>3, <3>2
      <4>. QED BY <4>1, FS_Singleton
    <3>. QED BY <3>1, <3>2
  <2>5. ASSUME landed # {}, status # "released" PROVE claimed
    <3>1. CASE envelope \in landed
      <4>1. attempt \in InFlight
        BY <1>1, <2>0, <2>5, <3>1, AttemptPaid DEF RowBook, InFlight
      <4>. QED BY <2>0, <4>1 DEF RowBook
    <3>2. CASE Manual # {}
      BY <2>0, <3>2 DEF Claimed
    <3>. QED BY <2>1, <2>5, <3>1, <3>2
  <2>. QED BY <2>4, <2>5
<1>2. IInv => PaidOnce
  BY <1>1 DEF PaidOnce
<1>. QED BY <1>2, Invariant, PTL

(* A released milestone, a confirmed attempt and a failed one tell what    *)
(* the ledger did with the envelope (finalizeRelease, failAttempt and      *)
(* resumeSubmitted of milestoneAutoRelease.js).                            *)
THEOREM RowsAreTrue == Spec => []RowsTellTheLedger
<1>1. IInv => RowsTellTheLedger
  <2>. SUFFICES ASSUME IInv PROVE RowsTellTheLedger
    OBVIOUS
  <2>1. RowBook
    BY DEF IInv
  <2>2. attempt = "failed" /\ ~overtaken => Dead(envelope)
    BY DEF IInv, AttemptBook, Steady
  <2>. QED BY <2>1, <2>2 DEF RowBook, Dead, RowsTellTheLedger
<1>. QED BY <1>1, Invariant, PTL

(* Nobody is paid automatically for evidence that was disputed while its   *)
(* release was scheduled, nor, unless a worker was overtaken, for evidence  *)
(* that was rejected (raiseDispute of disputes.js, the claim of             *)
(* milestoneAutoRelease.js).                                               *)
THEOREM StoppedStayUnpaid == Spec => []StoppedRoundsStayUnpaid
<1>1. ASSUME IInv, NEW e \in landed, e.trigger = "auto"
      PROVE  e.round \notin disputed /\ (e.round \in rejected => overtaken)
  <2>1. e = envelope /\ envelope # None
    BY <1>1, NoneAssumption DEF IInv, LedgerBook, Types, LedgerTypeOK
  <2>2. e.round = terms /\ attempt \notin {"none", "claimed"}
    BY <1>1, <2>1 DEF IInv, EnvelopeBook, OfAttempt
  <2>3. terms \notin disputed
    BY <1>1, <2>2 DEF IInv, RoundBook
  <2>4. ASSUME ~overtaken PROVE terms \notin rejected
    <3>1. attempt \in InFlight \cup {"confirmed"}
      BY <1>1, <2>1, <2>4, AttemptPaid DEF InFlight
    <3>. QED BY <1>1, <2>4, <3>1 DEF IInv, AttemptBook, Steady
  <2>. QED BY <2>2, <2>3, <2>4
<1>2. IInv => StoppedRoundsStayUnpaid
  BY <1>1 DEF StoppedRoundsStayUnpaid
<1>. QED BY <1>2, Invariant, PTL
=============================================================================
