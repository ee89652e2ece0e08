---------------------------- MODULE EscrowProofs ----------------------------
(***************************************************************************)
(* Proofs about the escrow contract, for every set of contributors and     *)
(* payees, every target, deadline and amount, and about the two systems    *)
(* around it: the milestones contracts that release from it (and the       *)
(* abstract custody they implement), and the backend's batches of refunds  *)
(* for failed campaigns.                                                   *)
(***************************************************************************)
EXTENDS CampaignContracts, FailedCampaignRefunds, TokenSumTheorems

(* The parties are finitely many, so totals exist. *)
LEMMA PartiesFinite == IsFiniteSet(Contributors) /\ IsFiniteSet(Payees)
BY PartiesAssumption

(* What a refund takes out of the books is never more than is in them. *)
LEMMA BalanceWithinRaised ==
  ASSUME TypeOK, RaisedIsSum, NEW c \in Contributors
  PROVE  balances[c] <= totalRaised
BY PartiesFinite, TotalBoundsEach DEF TypeOK, RaisedIsSum

(* The snapshot a refund uses is a pair of natural numbers. *)
LEMMA SnapshotType ==
  ASSUME TypeOK, RaisedIsSum, SnapshotBook, NEW c \in Contributors, balances[c] > 0
  PROVE  /\ RefundPoolNow \in Nat /\ RefundBaseNow \in Nat /\ RefundBaseNow > 0
         /\ RefundPoolNow <= RefundBaseNow
         /\ PayoutOf(c) \in Nat
         /\ PayoutOf(c) * RefundBaseNow <= balances[c] * RefundPoolNow
<1>1. balances[c] \in Nat /\ balances[c] <= totalRaised
  BY BalanceWithinRaised DEF TypeOK
<1>2. /\ RefundPoolNow \in Nat /\ RefundBaseNow \in Nat /\ RefundBaseNow > 0
      /\ RefundPoolNow <= RefundBaseNow
  BY <1>1 DEF RefundPoolNow, RefundBaseNow, LesserOf, TypeOK, SnapshotBook, NotSet
<1>3. balances[c] * RefundPoolNow \in Nat
  BY <1>1, <1>2, MulNat
<1>. QED
  BY <1>2, <1>3, DivFacts DEF PayoutOf

(* A fee is a natural number. *)
LEMMA FeeType ==
  ASSUME TypeOK, NEW amount \in Nat
  PROVE  FeeOf(amount) \in Nat
<1>1. amount * feeBps \in Nat
  BY MulNat DEF TypeOK, MAX_FEE_BPS
<1>. QED BY <1>1, DivFacts DEF FeeOf, BPS

---------------------------------------------------------------------------
(* Every call keeps the variables well typed. *)
LEMMA TypeStep ==
  ASSUME TypeOK, RaisedIsSum, SnapshotBook, [Next]_vars
  PROVE  TypeOK'
<1> USE DEF deposits, approvals, refunds, settings, outflows
<1>1. ASSUME NEW m \in MilestonesContracts, SetMilestonesContract(m) PROVE TypeOK'
  BY <1>1 DEF SetMilestonesContract, TypeOK
<1>2. ASSUME NEW s \in Signers, SetSecondSigner(s) PROVE TypeOK'
  BY <1>2 DEF SetSecondSigner, TypeOK
<1>3. ASSUME NEW fee \in FeeInputs, ProposeFeeChange(fee) PROVE TypeOK'
  <2>1. fee \in 0 .. MAX_FEE_BPS
    BY <1>3, AmountsAssumption DEF ProposeFeeChange, MAX_FEE_BPS
  <2>. QED BY <1>3, <2>1 DEF ProposeFeeChange, TypeOK
<1>4. ASSUME ConfirmFeeChange PROVE TypeOK'
  BY <1>4 DEF ConfirmFeeChange, TypeOK, NotSet
<1>5. ASSUME CancelFeeChange PROVE TypeOK'
  BY <1>5 DEF CancelFeeChange, TypeOK
<1>6. ASSUME NEW c \in Contributors, NEW a \in DepositAmounts, Deposit(c, a) PROVE TypeOK'
  <2>1. a \in Nat
    BY <1>6, AmountsAssumption DEF Deposit
  <2>. QED BY <1>6, <2>1 DEF Deposit, TypeOK
<1>7. ASSUME NEW a \in DirectAmounts, TransferDirectly(a) PROVE TypeOK'
  BY <1>7, AmountsAssumption DEF TransferDirectly, TypeOK
<1>8. ASSUME NEW to \in Payees, NEW a \in ReleaseAmounts,
             ApproveWithdrawal(to, a) \/ ApproveMilestoneWithdrawal(to, a)
      PROVE  TypeOK'
  <2>1. a \in Nat
    BY <1>8, AmountsAssumption DEF ApproveWithdrawal, ApproveMilestoneWithdrawal
  <2>. QED BY <1>8, <2>1 DEF ApproveWithdrawal, ApproveMilestoneWithdrawal, Grant, TypeOK
<1>9. ASSUME NEW to \in Payees, NEW a \in ReleaseAmounts, ExecuteWithdrawal(to, a)
      PROVE  TypeOK'
  <2>1. a \in Nat
    BY <1>9, AmountsAssumption DEF ExecuteWithdrawal
  <2>2. FeeOf(a) \in Nat
    BY <2>1, FeeType
  <2>. QED BY <1>9, <2>1, <2>2 DEF ExecuteWithdrawal, TypeOK
<1>10. ASSUME NEW s \in Signers, NEW a \in OverrideAmounts, AdminOverrideWithdrawal(s, a)
       PROVE  TypeOK'
  <2>1. a \in Nat
    BY <1>10, AmountsAssumption DEF AdminOverrideWithdrawal
  <2>2. FeeOf(a) \in Nat
    BY <2>1, FeeType
  <2>. QED BY <1>10, <2>1, <2>2 DEF AdminOverrideWithdrawal, TypeOK
<1>11. ASSUME NEW c \in Contributors, Refund(c) PROVE TypeOK'
  <2>1. balances[c] \in Nat /\ balances[c] <= totalRaised
    BY BalanceWithinRaised DEF TypeOK
  <2>2. RefundPoolNow \in Nat /\ RefundBaseNow \in Nat /\ PayoutOf(c) \in Nat
    BY <1>11, SnapshotType DEF Refund
  <2>. QED BY <1>11, <2>1, <2>2 DEF Refund, RaisedAfterRefund, TypeOK
<1>12. ASSUME MarkCampaignFailed PROVE TypeOK'
  BY <1>12 DEF MarkCampaignFailed, TypeOK
<1>13. ASSUME Tick PROVE TypeOK'
  BY <1>13, BoundsAssumption DEF Tick, TypeOK
<1>14. ASSUME UNCHANGED vars PROVE TypeOK'
  BY <1>14 DEF vars, TypeOK
<1>. QED
  BY <1>1, <1>2, <1>3, <1>4, <1>5, <1>6, <1>7, <1>8, <1>9, <1>10, <1>11, <1>12,
     <1>13, <1>14 DEF Next, Configure, MoveFunds

(* The platform's part of a release is below the cap. *)
LEMMA FeeOfIsCapped ==
  ASSUME TypeOK, NEW a \in Nat
  PROVE  FeeOf(a) \in Nat /\ FeeOf(a) * BPS <= a * MAX_FEE_BPS
<1>1. feeBps \in Nat /\ feeBps <= 1000
  BY DEF TypeOK, MAX_FEE_BPS
<1>2. feeBps * a <= 1000 * a /\ a * feeBps = feeBps * a /\ a * feeBps \in Nat
  BY <1>1, MulMono, MulNat
<1>3. FeeOf(a) \in Nat /\ FeeOf(a) * 10000 <= a * feeBps
  BY <1>2, DivFacts DEF FeeOf, BPS
<1>. QED BY <1>2, <1>3 DEF BPS, MAX_FEE_BPS

(* Releases, whichever entry point makes them, keep all fees together below *)
(* the cap.                                                                 *)
LEMMA FeeStep ==
  ASSUME TypeOK, FeeCapped, [Next]_vars
  PROVE  FeeCapped'
<1> USE DEF deposits, approvals, refunds, settings, outflows
<1>0. /\ withdrawn \in Nat /\ overridden \in Nat /\ drained \in Nat
      /\ feesPaid \in Nat
  BY DEF TypeOK
<1>1. ASSUME UNCHANGED outflows
      PROVE  FeeCapped'
  BY <1>1 DEF FeeCapped
<1>2. ASSUME NEW a \in Nat, feesPaid' = feesPaid + FeeOf(a),
             \/ withdrawn' = withdrawn + a /\ UNCHANGED <<overridden, drained>>
             \/ overridden' = overridden + a /\ UNCHANGED <<withdrawn, drained>>
             \/ drained' = drained + a /\ UNCHANGED <<withdrawn, overridden>>
      PROVE  FeeCapped'
  BY <1>0, <1>2, FeeOfIsCapped DEF FeeCapped, BPS, MAX_FEE_BPS
<1>3. ASSUME NEW to \in Payees, NEW a \in ReleaseAmounts, ExecuteWithdrawal(to, a)
      PROVE  FeeCapped'
  <2>1. a \in Nat
    BY <1>3, AmountsAssumption DEF ExecuteWithdrawal
  <2>. QED BY <1>2, <1>3, <2>1 DEF ExecuteWithdrawal
<1>4. ASSUME NEW s \in Signers, NEW a \in OverrideAmounts,
             AdminOverrideWithdrawal(s, a)
      PROVE  FeeCapped'
  <2>1. a \in Nat
    BY <1>4, AmountsAssumption DEF AdminOverrideWithdrawal
  <2>. QED BY <1>2, <1>4, <2>1 DEF AdminOverrideWithdrawal
<1>5. ASSUME \/ UNCHANGED vars \/ Configure \/ MarkCampaignFailed \/ Tick
             \/ \E c \in Contributors, a \in DepositAmounts : Deposit(c, a)
             \/ \E a \in DirectAmounts : TransferDirectly(a)
             \/ \E to \in Payees, a \in ReleaseAmounts :
                  ApproveWithdrawal(to, a) \/ ApproveMilestoneWithdrawal(to, a)
             \/ \E c \in Contributors : Refund(c)
      PROVE  UNCHANGED outflows
  BY <1>5 DEF Configure, SetMilestonesContract, SetSecondSigner, ProposeFeeChange,
              ConfirmFeeChange, CancelFeeChange, ApproveWithdrawal, Deposit,
              ApproveMilestoneWithdrawal, MarkCampaignFailed, Tick,
              TransferDirectly, Refund, vars
<1>. QED BY <1>1, <1>3, <1>4, <1>5 DEF Next, MoveFunds

(* The two counters stay equal to the sums they stand for. *)
LEMMA SumsStep ==
  ASSUME TypeOK, RaisedIsSum, ApprovedIsSum, [Next]_vars
  PROVE  RaisedIsSum' /\ ApprovedIsSum'
<1> USE DEF deposits, approvals, refunds, settings, outflows
<1>1. ASSUME UNCHANGED <<deposits, approvals>>
      PROVE  RaisedIsSum' /\ ApprovedIsSum'
  BY <1>1 DEF RaisedIsSum, ApprovedIsSum
<1>2. ASSUME NEW c \in Contributors, NEW a \in DepositAmounts, Deposit(c, a)
      PROVE  RaisedIsSum' /\ ApprovedIsSum'
  <2>1. balances[c] \in Nat /\ balances[c] + a \in Nat /\ a \in Int
    BY <1>2, AmountsAssumption DEF Deposit, TypeOK
  <2>2. Total(balances') = Total(balances) - balances[c] + (balances[c] + a)
    BY <1>2, <2>1, PartiesFinite, TotalUpdate DEF Deposit, TypeOK
  <2>3. RaisedIsSum'
    BY <1>2, <2>1, <2>2 DEF Deposit, RaisedIsSum, TypeOK
  <2>4. ApprovedIsSum'
    BY <1>2 DEF Deposit, ApprovedIsSum
  <2>. QED BY <2>3, <2>4
<1>3. ASSUME NEW to \in Payees, NEW a \in ReleaseAmounts,
             ApproveWithdrawal(to, a) \/ ApproveMilestoneWithdrawal(to, a)
      PROVE  RaisedIsSum' /\ ApprovedIsSum'
  <2>1. approvedFor[to] \in Nat /\ approvedFor[to] + a \in Nat /\ a \in Int
    BY <1>3, AmountsAssumption
       DEF ApproveWithdrawal, ApproveMilestoneWithdrawal, TypeOK
  <2>2. /\ approvedFor' = [approvedFor EXCEPT ![to] = approvedFor[to] + a]
        /\ approved' = approved + a
        /\ UNCHANGED deposits
    BY <1>3 DEF ApproveWithdrawal, ApproveMilestoneWithdrawal, Grant
  <2>3. Total(approvedFor') = Total(approvedFor) - approvedFor[to] + (approvedFor[to] + a)
    BY <2>1, <2>2, PartiesFinite, TotalUpdate DEF TypeOK
  <2>4. ApprovedIsSum'
    BY <2>1, <2>2, <2>3 DEF ApprovedIsSum, TypeOK
  <2>5. RaisedIsSum'
    BY <2>2 DEF RaisedIsSum
  <2>. QED BY <2>4, <2>5
<1>4. ASSUME NEW to \in Payees, NEW a \in ReleaseAmounts, ExecuteWithdrawal(to, a)
      PROVE  RaisedIsSum' /\ ApprovedIsSum'
  <2>1. approvedFor[to] \in Nat /\ approvedFor[to] - a \in Nat /\ a \in Int
    BY <1>4, AmountsAssumption DEF ExecuteWithdrawal, TypeOK
  <2>2. Total(approvedFor') = Total(approvedFor) - approvedFor[to] + (approvedFor[to] - a)
    BY <1>4, <2>1, PartiesFinite, TotalUpdate DEF ExecuteWithdrawal, TypeOK
  <2>3. ApprovedIsSum'
    BY <1>4, <2>1, <2>2 DEF ExecuteWithdrawal, ApprovedIsSum, TypeOK
  <2>4. RaisedIsSum'
    BY <1>4 DEF ExecuteWithdrawal, RaisedIsSum
  <2>. QED BY <2>3, <2>4
<1>5. ASSUME NEW c \in Contributors, Refund(c)
      PROVE  RaisedIsSum' /\ ApprovedIsSum'
  <2>1. balances[c] \in Nat
    BY DEF TypeOK
  <2>2. /\ balances' = [balances EXCEPT ![c] = 0]
        /\ balances \in [Contributors -> Nat]
    BY <1>5 DEF Refund, TypeOK
  <2>6. Total([balances EXCEPT ![c] = 0]) = Total(balances) - balances[c] + 0
    <3>1. 0 \in Nat
      OBVIOUS
    <3>. QED BY <2>2, <3>1, PartiesFinite, TotalUpdate, Zenon
  <2>3. RaisedIsSum'
    BY <1>5, <2>1, <2>2, <2>6 DEF Refund, RaisedAfterRefund, RaisedIsSum, TypeOK
  <2>4. ApprovedIsSum'
    BY <1>5 DEF Refund, ApprovedIsSum
  <2>. QED BY <2>3, <2>4
<1>6. ASSUME \/ Configure
             \/ \E a \in DirectAmounts : TransferDirectly(a)
             \/ \E s \in Signers, a \in OverrideAmounts : AdminOverrideWithdrawal(s, a)
             \/ MarkCampaignFailed \/ Tick \/ UNCHANGED vars
      PROVE  UNCHANGED <<deposits, approvals>>
  BY <1>6 DEF Configure, SetMilestonesContract, SetSecondSigner, ProposeFeeChange,
              ConfirmFeeChange, CancelFeeChange, TransferDirectly,
              AdminOverrideWithdrawal, MarkCampaignFailed, Tick, vars
<1>. QED
  BY <1>1, <1>2, <1>3, <1>4, <1>5, <1>6 DEF Next, MoveFunds

---------------------------------------------------------------------------
(* The snapshot: taken with the first refund, then left alone. *)

(* Calls that keep the snapshot and the books of the contributors. *)
LEMMA SnapshotStep ==
  ASSUME IInv, [Next]_vars
  PROVE  SnapshotBook'
<1> USE DEF deposits, approvals, refunds, settings, outflows
<1>0. TypeOK /\ RaisedIsSum /\ SnapshotBook
  BY DEF IInv, BooksAgree
<1>1. ASSUME UNCHANGED <<isRefunding, refundPool, refundBase, totalRaised, held,
                         withdrawn, overridden>>
      PROVE  SnapshotBook'
  BY <1>0, <1>1 DEF SnapshotBook
<1>2. ASSUME NEW c \in Contributors, NEW a \in DepositAmounts, Deposit(c, a)
      PROVE  SnapshotBook'
  BY <1>0, <1>2, AmountsAssumption DEF Deposit, SnapshotBook, TypeOK
<1>3. ASSUME NEW a \in DirectAmounts, TransferDirectly(a)
      PROVE  SnapshotBook'
  BY <1>0, <1>3, AmountsAssumption DEF TransferDirectly, SnapshotBook, TypeOK
<1>4. ASSUME NEW to \in Payees, NEW a \in ReleaseAmounts, ExecuteWithdrawal(to, a)
      PROVE  SnapshotBook'
  BY <1>0, <1>4, AmountsAssumption
     DEF ExecuteWithdrawal, Closed, SnapshotBook, TypeOK
<1>5. ASSUME NEW s \in Signers, NEW a \in OverrideAmounts, AdminOverrideWithdrawal(s, a)
      PROVE  SnapshotBook'
  BY <1>0, <1>5, AmountsAssumption DEF AdminOverrideWithdrawal, SnapshotBook, TypeOK
<1>6. ASSUME NEW c \in Contributors, Refund(c)
      PROVE  SnapshotBook'
  <2>1. balances[c] > 0
    BY <1>6 DEF Refund
  <2>2. /\ RefundPoolNow \in Nat /\ RefundBaseNow \in Nat
        /\ RefundBaseNow > 0 /\ RefundPoolNow <= RefundBaseNow
    BY <1>0, <2>1, SnapshotType
  <2>3. RefundBaseNow <= RefundPoolNow + withdrawn + overridden
    BY <1>0 DEF SnapshotBook, TypeOK, RefundPoolNow, RefundBaseNow, LesserOf
  <2>4. /\ isRefunding' = TRUE
        /\ refundPool' = RefundPoolNow /\ refundBase' = RefundBaseNow
        /\ withdrawn' = withdrawn /\ overridden' = overridden
    BY <1>6 DEF Refund
  <2>. QED BY <2>2, <2>3, <2>4 DEF SnapshotBook, NotSet
<1>7. ASSUME \/ Configure
             \/ \E to \in Payees, a \in ReleaseAmounts :
                  ApproveWithdrawal(to, a) \/ ApproveMilestoneWithdrawal(to, a)
             \/ MarkCampaignFailed \/ Tick \/ UNCHANGED vars
      PROVE  UNCHANGED <<isRefunding, refundPool, refundBase, totalRaised, held,
                         withdrawn, overridden>>
  BY <1>7 DEF Configure, SetMilestonesContract, SetSecondSigner, ProposeFeeChange,
              ConfirmFeeChange, CancelFeeChange, ApproveWithdrawal,
              ApproveMilestoneWithdrawal, MarkCampaignFailed, Tick, vars
<1>. QED
  BY <1>1, <1>2, <1>3, <1>4, <1>5, <1>6, <1>7 DEF Next, MoveFunds

(* A contributor is untouched, or has been paid the share of the snapshot. *)
LEMMA ShareStep ==
  ASSUME IInv, [Next]_vars
  PROVE  ShareBook'
<1> USE DEF deposits, approvals, refunds, settings, outflows
<1>0. TypeOK /\ RaisedIsSum /\ SnapshotBook /\ ShareBook
  BY DEF IInv, BooksAgree
<1>1. ASSUME UNCHANGED <<balances, contributed, refundPaid, isRefunding,
                         refundPool, refundBase>>
      PROVE  ShareBook'
  BY <1>0, <1>1 DEF ShareBook
<1>2. ASSUME NEW c \in Contributors, NEW a \in DepositAmounts, Deposit(c, a)
      PROVE  ShareBook'
  <2>1. ~isRefunding
    BY <1>2 DEF Deposit, Closed
  <2>2. \A d \in Contributors : balances[d] = contributed[d] /\ refundPaid[d] = 0
    BY <1>0, <2>1 DEF ShareBook
  <2>3. ASSUME NEW d \in Contributors
        PROVE  balances'[d] = contributed'[d] /\ refundPaid'[d] = 0
    BY <1>0, <1>2, <2>2 DEF Deposit, TypeOK
  <2>. QED BY <2>3 DEF ShareBook
<1>3. ASSUME NEW c \in Contributors, Refund(c)
      PROVE  ShareBook'
  <2>1. /\ balances[c] > 0 /\ balances[c] \in Nat
        /\ balances' = [balances EXCEPT ![c] = 0]
        /\ refundPaid' = [refundPaid EXCEPT ![c] = refundPaid[c] + PayoutOf(c)]
        /\ isRefunding' = TRUE /\ contributed' = contributed
        /\ refundPool' = RefundPoolNow /\ refundBase' = RefundBaseNow
    BY <1>0, <1>3 DEF Refund, TypeOK
  <2>2. balances[c] = contributed[c] /\ refundPaid[c] = 0
    BY <1>0, <2>1 DEF ShareBook
  <2>3. PayoutOf(c) = (contributed[c] * refundPool') \div refundBase'
    BY <2>1, <2>2 DEF PayoutOf
  <2>4. PayoutOf(c) \in Nat
    BY <1>0, <2>1, SnapshotType
  <2>5. isRefunding => refundPool' = refundPool /\ refundBase' = refundBase
    BY <1>0, <2>1 DEF SnapshotBook, RefundPoolNow, RefundBaseNow
  <2>6. ASSUME NEW d \in Contributors, d # c
        PROVE  \/ balances'[d] = contributed'[d] /\ refundPaid'[d] = 0
               \/ /\ isRefunding' /\ balances'[d] = 0
                  /\ refundPaid'[d] = (contributed'[d] * refundPool') \div refundBase'
    <3>1. balances'[d] = balances[d] /\ refundPaid'[d] = refundPaid[d]
      BY <1>0, <2>1, <2>6 DEF TypeOK
    <3>. QED BY <1>0, <2>1, <2>5, <3>1 DEF ShareBook
  <2>7. balances'[c] = 0 /\ refundPaid'[c] = (contributed'[c] * refundPool') \div refundBase'
    BY <1>0, <2>1, <2>2, <2>3, <2>4 DEF TypeOK
  <2>. QED BY <2>1, <2>6, <2>7 DEF ShareBook
<1>4. ASSUME \/ Configure
             \/ \E a \in DirectAmounts : TransferDirectly(a)
             \/ \E to \in Payees, a \in ReleaseAmounts :
                  \/ ApproveWithdrawal(to, a) \/ ApproveMilestoneWithdrawal(to, a)
                  \/ ExecuteWithdrawal(to, a)
             \/ \E s \in Signers, a \in OverrideAmounts : AdminOverrideWithdrawal(s, a)
             \/ MarkCampaignFailed \/ Tick \/ UNCHANGED vars
      PROVE  UNCHANGED <<balances, contributed, refundPaid, isRefunding,
                         refundPool, refundBase>>
  BY <1>4 DEF Configure, SetMilestonesContract, SetSecondSigner, ProposeFeeChange,
              ConfirmFeeChange, CancelFeeChange, TransferDirectly, ApproveWithdrawal,
              ApproveMilestoneWithdrawal, ExecuteWithdrawal,
              AdminOverrideWithdrawal, MarkCampaignFailed, Tick, vars
<1>. QED
  BY <1>1, <1>2, <1>3, <1>4 DEF Next, MoveFunds

---------------------------------------------------------------------------
(* Paying a rounded-down share p of b keeps what is left, over the base,    *)
(* above what is still owed.                                                *)
LEMMA PayingAShare ==
  ASSUME NEW h \in Nat, NEW d \in Nat, NEW t \in Nat, NEW b \in Nat,
         NEW p \in Nat, NEW pool \in Nat, NEW base \in Nat,
         p <= h, b <= t,
         (h + d) * base >= t * pool,
         p * base <= b * pool
  PROVE  ((h - p) + d) * base >= (t - b) * pool
<1>1. ((h - p) + d) * base = (h + d) * base - p * base
  BY SMT
<1>2. (t - b) * pool = t * pool - b * pool
  BY SMT
<1>3. /\ (h + d) * base \in Nat /\ p * base \in Nat
      /\ t * pool \in Nat /\ b * pool \in Nat
  BY MulNat
<1>. QED BY <1>1, <1>2, <1>3

(* Refunds stay payable, whatever calls come between them. *)
LEMMA SolventStep ==
  ASSUME IInv, [Next]_vars
  PROVE  RefundsSolvent'
<1> USE DEF deposits, approvals, refunds, settings, outflows
<1>0. TypeOK /\ RaisedIsSum /\ SnapshotBook /\ RefundsSolvent
  BY DEF IInv, BooksAgree
<1>1. ASSUME UNCHANGED <<isRefunding, refundPool, refundBase, totalRaised, held,
                         drained>>
      PROVE  RefundsSolvent'
  BY <1>0, <1>1 DEF RefundsSolvent
<1>2. ASSUME NEW c \in Contributors, NEW a \in DepositAmounts, Deposit(c, a)
      PROVE  RefundsSolvent'
  BY <1>2 DEF Deposit, Closed, RefundsSolvent
<1>3. ASSUME NEW a \in DirectAmounts, TransferDirectly(a), isRefunding
      PROVE  RefundsSolvent'
  <2>1. /\ held' = held + a /\ a \in Nat
        /\ UNCHANGED <<isRefunding, refundPool, refundBase, totalRaised, drained>>
    BY <1>3, AmountsAssumption DEF TransferDirectly
  <2>2. /\ held \in Nat /\ drained \in Nat /\ refundBase \in Nat
        /\ refundPool \in Nat /\ totalRaised \in Nat
    BY <1>0, <1>3 DEF SnapshotBook, TypeOK
  <2>3. (held + drained) * refundBase <= (held + a + drained) * refundBase
    BY <2>1, <2>2, MulMono
  <2>4. /\ (held + drained) * refundBase \in Nat
        /\ (held + a + drained) * refundBase \in Nat
        /\ totalRaised * refundPool \in Nat
    BY <2>1, <2>2, MulNat
  <2>. QED BY <1>0, <1>3, <2>1, <2>3, <2>4 DEF RefundsSolvent
<1>4. ASSUME NEW to \in Payees, NEW a \in ReleaseAmounts, ExecuteWithdrawal(to, a)
      PROVE  RefundsSolvent'
  BY <1>4 DEF ExecuteWithdrawal, Closed, RefundsSolvent
<1>5. ASSUME NEW s \in Signers, NEW a \in OverrideAmounts,
             AdminOverrideWithdrawal(s, a), isRefunding
      PROVE  RefundsSolvent'
  <2>1. /\ held' = held - a /\ drained' = drained + a /\ a \in Int
        /\ UNCHANGED <<isRefunding, refundPool, refundBase, totalRaised>>
    BY <1>5, AmountsAssumption DEF AdminOverrideWithdrawal
  <2>2. held' + drained' = held + drained
    BY <1>0, <2>1 DEF TypeOK
  <2>. QED BY <1>0, <2>1, <2>2 DEF RefundsSolvent
<1>6. ASSUME NEW c \in Contributors, Refund(c)
      PROVE  RefundsSolvent'
  <2> DEFINE p == PayoutOf(c)
             pool == RefundPoolNow
             base == RefundBaseNow
             b == balances[c]
  <2>1. /\ balances[c] > 0 /\ p <= held
        /\ refundPool' = pool /\ refundBase' = base
        /\ totalRaised' = totalRaised - b
        /\ held' = held - p /\ drained' = drained
    BY <1>6 DEF Refund, RaisedAfterRefund
  <2>2. /\ pool \in Nat /\ base \in Nat /\ p \in Nat /\ pool <= base
        /\ p * base <= b * pool
    BY <1>0, <2>1, SnapshotType
  <2>3. b \in Nat /\ b <= totalRaised
    BY <1>0, BalanceWithinRaised DEF TypeOK
  <2>4. held \in Nat /\ drained \in Nat /\ totalRaised \in Nat
    BY <1>0 DEF TypeOK
  <2>5. (held + drained) * base >= totalRaised * pool
    <3>1. CASE isRefunding
      BY <1>0, <3>1 DEF RefundsSolvent, SnapshotBook, RefundPoolNow, RefundBaseNow
    <3>2. CASE ~isRefunding
      <4>1. base = totalRaised /\ pool <= held
        BY <1>0, <3>2, <2>4 DEF SnapshotBook, RefundPoolNow, RefundBaseNow, LesserOf
      <4>2. pool * totalRaised <= (held + drained) * totalRaised
        <5>1. pool <= held + drained
          BY <2>2, <2>4, <4>1
        <5> HIDE DEF pool
        <5>. QED BY <2>2, <2>4, <5>1, MulMono
      <4>3. pool * totalRaised = totalRaised * pool
        <5> HIDE DEF pool
        <5>. QED BY <2>2, <2>4, SMT
      <4>4. (held + drained) * totalRaised \in Nat /\ totalRaised * pool \in Nat
        <5> HIDE DEF pool
        <5>. QED BY <2>2, <2>4, MulNat
      <4> HIDE DEF pool, base
      <4>. QED BY <4>1, <4>2, <4>3, <4>4
    <3>. QED BY <3>1, <3>2
  <2>6. ((held - p) + drained) * base >= (totalRaised - b) * pool
    <3> HIDE DEF p, pool, base, b
    <3>. QED BY <2>1, <2>2, <2>3, <2>4, <2>5, PayingAShare
  <2> HIDE DEF p, pool, base, b
  <2>. QED BY <2>1, <2>6 DEF RefundsSolvent
<1>7. ASSUME \/ Configure
             \/ \E to \in Payees, a \in ReleaseAmounts :
                  ApproveWithdrawal(to, a) \/ ApproveMilestoneWithdrawal(to, a)
             \/ MarkCampaignFailed \/ Tick \/ UNCHANGED vars
      PROVE  UNCHANGED <<isRefunding, refundPool, refundBase, totalRaised, held,
                         drained>>
  BY <1>7 DEF Configure, SetMilestonesContract, SetSecondSigner, ProposeFeeChange,
              ConfirmFeeChange, CancelFeeChange, ApproveWithdrawal,
              ApproveMilestoneWithdrawal, MarkCampaignFailed, Tick, vars
<1>8. ASSUME ~isRefunding,
             \/ \E a \in DirectAmounts : TransferDirectly(a)
             \/ \E s \in Signers, a \in OverrideAmounts : AdminOverrideWithdrawal(s, a)
      PROVE  RefundsSolvent'
  BY <1>8 DEF TransferDirectly, AdminOverrideWithdrawal, RefundsSolvent
<1>. QED
  BY <1>1, <1>2, <1>3, <1>4, <1>5, <1>6, <1>7, <1>8 DEF Next, MoveFunds

---------------------------------------------------------------------------
(* The invariant holds when the contract has just been initialized. *)
LEMMA InitIInv == Init => IInv
<1> SUFFICES ASSUME Init PROVE IInv
  OBVIOUS
<1>1. TypeOK
  <2>1. feeBps \in 0 .. MAX_FEE_BPS
    BY AmountsAssumption DEF Init, MAX_FEE_BPS
  <2>2. /\ balances \in [Contributors -> Nat] /\ approvedFor \in [Payees -> Nat]
        /\ contributed \in [Contributors -> Nat] /\ refundPaid \in [Contributors -> Nat]
    BY DEF Init
  <2>. QED BY <2>1, <2>2 DEF Init, TypeOK
<1>2. BooksAgree
  <2>1. RaisedIsSum /\ ApprovedIsSum
    BY TotalZero DEF Init, RaisedIsSum, ApprovedIsSum
  <2>2. FeeCapped
    BY DEF Init, FeeCapped, BPS, MAX_FEE_BPS
  <2>. QED BY <2>1, <2>2 DEF BooksAgree
<1>3. SnapshotBook /\ ShareBook /\ RefundsSolvent
  BY DEF Init, SnapshotBook, ShareBook, RefundsSolvent
<1>. QED BY <1>1, <1>2, <1>3 DEF IInv

(* Every step keeps the invariant. *)
LEMMA NextIInv == IInv /\ [Next]_vars => IInv'
<1> SUFFICES ASSUME IInv, [Next]_vars PROVE IInv'
  OBVIOUS
<1>1. TypeOK /\ RaisedIsSum /\ ApprovedIsSum /\ FeeCapped /\ SnapshotBook
  BY DEF IInv, BooksAgree
<1>2. BooksAgree'
  BY <1>1, SumsStep, FeeStep DEF BooksAgree
<1>. QED
  BY <1>1, <1>2, TypeStep, SnapshotStep, ShareStep, SolventStep DEF IInv

(* The strengthened invariant, from which the theorems below follow. *)
THEOREM Invariance == Spec => []IInv
BY InitIInv, NextIInv, PTL DEF Spec

(* The variables of the escrow keep their types: no counter of i128 that    *)
(* the contract subtracts from ever goes below zero.                        *)
THEOREM TypeCorrect == Spec => []TypeOK
<1>1. IInv => TypeOK
  BY DEF IInv
<1>. QED BY <1>1, Invariance, PTL

(* The counters of raised and of approved tokens are the sums they stand    *)
(* for, for any number of contributors and payees, and the fees of any      *)
(* number of releases stay below the cap.                                   *)
THEOREM CountersAgree == Spec => []BooksAgree
<1>1. IInv => BooksAgree
  BY DEF IInv
<1>. QED BY <1>1, Invariance, PTL

(* What is held, with what overrides took after the first refund, always    *)
(* covers the shares not refunded yet.                                      *)
THEOREM Solvency == Spec => []RefundsSolvent
<1>1. IInv => RefundsSolvent
  BY DEF IInv
<1>. QED BY <1>1, Invariance, PTL

(* Refund order does not matter. *)
LEMMA OrderDoesNotMatter == Spec => []EqualTreatment
<1>1. ASSUME IInv PROVE EqualTreatment
  <2> SUFFICES ASSUME NEW c \in Refunded, NEW d \in Refunded,
                      contributed[c] <= contributed[d]
               PROVE  refundPaid[c] <= refundPaid[d]
    BY DEF EqualTreatment
  <2>1. TypeOK /\ SnapshotBook /\ ShareBook
    BY <1>1 DEF IInv, BooksAgree
  <2>2. /\ c \in Contributors /\ d \in Contributors
        /\ contributed[c] > 0 /\ balances[c] = 0
        /\ contributed[d] > 0 /\ balances[d] = 0
    BY DEF Refunded
  <2>3. /\ isRefunding
        /\ refundPaid[c] = (contributed[c] * refundPool) \div refundBase
        /\ refundPaid[d] = (contributed[d] * refundPool) \div refundBase
    BY <2>1, <2>2 DEF ShareBook
  <2>4. /\ contributed[c] \in Nat /\ contributed[d] \in Nat
        /\ refundPool \in Nat /\ refundBase \in Nat /\ refundBase > 0
    BY <2>1, <2>2, <2>3 DEF TypeOK, SnapshotBook
  <2>5. contributed[c] * refundPool <= contributed[d] * refundPool
    BY <2>4, MulMono
  <2>6. contributed[c] * refundPool \in Nat /\ contributed[d] * refundPool \in Nat
    BY <2>4, MulNat
  <2>. QED BY <2>3, <2>4, <2>5, <2>6, DivMono
<1>. QED BY <1>1, Invariance, PTL

(* A closed campaign that released nothing gives back everything. *)
LEMMA FullRefunds == Spec => []FullRefundUnlessWithdrawn
<1>1. ASSUME IInv PROVE FullRefundUnlessWithdrawn
  <2> SUFFICES ASSUME withdrawn = 0, overridden = 0, NEW c \in Refunded
               PROVE  refundPaid[c] = contributed[c]
    BY DEF FullRefundUnlessWithdrawn
  <2>1. TypeOK /\ SnapshotBook /\ ShareBook
    BY <1>1 DEF IInv, BooksAgree
  <2>2. c \in Contributors /\ contributed[c] > 0 /\ balances[c] = 0
    BY DEF Refunded
  <2>3. isRefunding /\ refundPaid[c] = (contributed[c] * refundPool) \div refundBase
    BY <2>1, <2>2 DEF ShareBook
  <2>4. contributed[c] \in Nat /\ refundBase \in Nat /\ refundBase > 0 /\ refundPool = refundBase
    BY <2>1, <2>2, <2>3 DEF TypeOK, SnapshotBook
  <2>. QED BY <2>3, <2>4, DivExact
<1>. QED BY <1>1, Invariance, PTL

(* Both together: a refund depends on the contribution and on nothing that  *)
(* happened to the others.                                                  *)
THEOREM RefundsFair == Spec => []RefundsAreFair
BY OrderDoesNotMatter, FullRefunds, PTL DEF RefundsAreFair

---------------------------------------------------------------------------
(* A closed campaign stays closed: nothing reopens it, and no deposit,      *)
(* approval or approved withdrawal goes through any more.                   *)
LEMMA ClosedStep ==
  ASSUME IInv, Closed, [Next]_vars
  PROVE  /\ Closed'
         /\ contributed' = contributed
         /\ approved' = approved
         /\ withdrawn' = withdrawn
<1> USE DEF deposits, approvals, refunds, settings, outflows
<1>0. TypeOK /\ RaisedIsSum
  BY DEF IInv, BooksAgree
<1>1. ASSUME NEW c \in Contributors, Refund(c)
      PROVE  Closed' /\ contributed' = contributed /\ approved' = approved
             /\ withdrawn' = withdrawn
  BY <1>1 DEF Refund, Closed
<1>2. ASSUME Tick
      PROVE  Closed' /\ contributed' = contributed /\ approved' = approved
             /\ withdrawn' = withdrawn
  BY <1>0, <1>2, InitializeAssumption DEF Tick, Closed, IsCampaignFailed, TypeOK
<1>3. ASSUME \/ Configure
             \/ \E a \in DirectAmounts : TransferDirectly(a)
             \/ \E s \in Signers, a \in OverrideAmounts : AdminOverrideWithdrawal(s, a)
             \/ MarkCampaignFailed \/ UNCHANGED vars
      PROVE  Closed' /\ contributed' = contributed /\ approved' = approved
             /\ withdrawn' = withdrawn
  BY <1>3 DEF Configure, SetMilestonesContract, SetSecondSigner, ProposeFeeChange,
              ConfirmFeeChange, CancelFeeChange, TransferDirectly,
              AdminOverrideWithdrawal, MarkCampaignFailed, vars, Closed,
              IsCampaignFailed
<1>4. ASSUME \/ \E c \in Contributors, a \in DepositAmounts : Deposit(c, a)
             \/ \E to \in Payees, a \in ReleaseAmounts :
                  \/ ApproveWithdrawal(to, a)
                  \/ ApproveMilestoneWithdrawal(to, a)
                  \/ ExecuteWithdrawal(to, a)
      PROVE  FALSE
  BY <1>4 DEF Deposit, ApproveWithdrawal, ApproveMilestoneWithdrawal,
              ExecuteWithdrawal
<1>. QED
  BY <1>1, <1>2, <1>3, <1>4 DEF Next, MoveFunds

(* Failure is final, as an action property of every behaviour. *)
THEOREM FailureIsFinal == Spec => ClosedIsFinal
<1>1. IInv /\ [Next]_vars =>
        [Closed => /\ Closed'
                   /\ contributed' = contributed
                   /\ approved' = approved
                   /\ withdrawn' = withdrawn]_vars
  BY ClosedStep
<1>. QED BY <1>1, Invariance, PTL DEF Spec, ClosedIsFinal

(***************************************************************************)
(* The campaign: escrow, milestones contracts and migration                *)
(* (CampaignContracts), for any milestones and any split of the money.     *)
(***************************************************************************)

(* The backend never marks a campaign failed in the contract, overrides a  *)
(* withdrawal or names a milestones contract.                               *)
EscrowLeftAlone ==
  ~campaignFailed /\ overridden = 0 /\ milestonesContract = None

(* All that left the escrow for the creator was released by approvals, and *)
(* only an approval by the first contract releases anything.                *)
ReleasesRecorded ==
  /\ withdrawn = Total(released)
  /\ \A m \in Milestones : status[Admin][m] # "Approved" => released[m] = 0

(* Releasing and refunding exclude each other by what was contributed. *)
OneOutcome ==
  /\ withdrawn > 0 => Total(contributed) >= Target
  /\ isRefunding => Total(contributed) < Target

CampaignInv ==
  /\ IInv /\ CampaignTypeOK
  /\ EscrowLeftAlone /\ ReleasesRecorded /\ OneOutcome /\ ReleasedWithinShare

---------------------------------------------------------------------------
(* A share is a natural number, and over its basis points it is below what  *)
(* was raised.                                                              *)
LEMMA ShareFacts ==
  ASSUME totalRaised \in Nat, NEW m \in Milestones
  PROVE  /\ ShareOf(m) \in Nat
         /\ ShareOf(m) * BPS <= totalRaised * ReleaseBps[m]
<1>1. ReleaseBps[m] \in Nat
  BY MilestonesAssumption
<1>2. totalRaised * ReleaseBps[m] \in Nat
  BY <1>1, MulNat
<1>. QED BY <1>2, DivFacts DEF ShareOf, BPS

(* Amounts that each stay within their milestone's share of t are together  *)
(* at most t, for the shares make up the whole.                             *)
LEMMA SharesWithinWhole ==
  ASSUME NEW t \in Nat, NEW f \in [Milestones -> Nat],
         \A m \in Milestones : f[m] * BPS <= t * ReleaseBps[m]
  PROVE  Total(f) <= t
<1> DEFINE g == [m \in Milestones |-> f[m] * BPS]
           h == [m \in Milestones |-> ReleaseBps[m] * t]
<1>1. /\ IsFiniteSet(Milestones) /\ ReleaseBps \in [Milestones -> Nat]
      /\ Total(ReleaseBps) = BPS /\ BPS \in Nat
  BY MilestonesAssumption DEF BPS
<1>2. \A m \in Milestones : g[m] \in Nat /\ h[m] \in Nat /\ g[m] <= h[m]
  <2> SUFFICES ASSUME NEW m \in Milestones
               PROVE  g[m] \in Nat /\ h[m] \in Nat /\ g[m] <= h[m]
    OBVIOUS
  <2>1. f[m] \in Nat /\ ReleaseBps[m] \in Nat
    BY <1>1
  <2>2. f[m] * BPS \in Nat /\ ReleaseBps[m] * t \in Nat
    BY <1>1, <2>1, MulNat
  <2>3. t * ReleaseBps[m] = ReleaseBps[m] * t
    BY <2>1, SMT
  <2>. QED BY <2>2, <2>3
<1>3. g \in [Milestones -> Nat] /\ h \in [Milestones -> Nat]
  BY <1>2
<1>4. Total(g) = Total(f) * BPS
  BY <1>1, TotalScale
<1>5. Total(h) = Total(ReleaseBps) * t
  BY <1>1, TotalScale
<1>6. Total(g) <= Total(h)
  <2> HIDE DEF g, h
  <2>. QED BY <1>1, <1>2, <1>3, TotalMono
<1>7. Total(f) \in Nat
  BY <1>1, TotalType
<1>. QED
  <2> HIDE DEF g, h
  <2>. QED BY <1>1, <1>4, <1>5, <1>6, <1>7 DEF BPS

(* What is still on the escrow's books was contributed, and before the      *)
(* first refund all that was contributed is.                                *)
LEMMA RaisedWithinContributed ==
  ASSUME IInv
  PROVE  /\ totalRaised \in Nat /\ Total(contributed) \in Nat
         /\ totalRaised <= Total(contributed)
         /\ ~isRefunding => totalRaised = Total(contributed)
<1>1. TypeOK /\ RaisedIsSum /\ ShareBook /\ IsFiniteSet(Contributors)
  BY PartiesFinite DEF IInv, BooksAgree
<1>2. /\ balances \in [Contributors -> Nat] /\ contributed \in [Contributors -> Nat]
      /\ totalRaised \in Nat
  BY <1>1 DEF TypeOK
<1>3. \A c \in Contributors : balances[c] <= contributed[c]
  BY <1>1, <1>2 DEF ShareBook
<1>4. Total(balances) <= Total(contributed) /\ Total(contributed) \in Nat
  BY <1>1, <1>2, <1>3, TotalMono, TotalType
<1>5. ASSUME ~isRefunding PROVE balances = contributed
  <2>1. \A c \in Contributors : balances[c] = contributed[c]
    BY <1>1, <1>5 DEF ShareBook
  <2>. QED BY <1>2, <2>1
<1>. QED BY <1>1, <1>2, <1>4, <1>5 DEF RaisedIsSum

(* A tighter bound on what is released: at any time, the shares still to    *)
(* be released and the releases made are together within what was raised.   *)
LEMMA OpenSharesCovered ==
  ASSUME CampaignInv, ~isRefunding
  PROVE  Total(OpenShares) + withdrawn <= totalRaised
<1> DEFINE f == [m \in Milestones |-> OpenShares[m] + released[m]]
<1>1. /\ totalRaised \in Nat /\ totalRaised = Total(contributed)
      /\ released \in [Milestones -> Nat] /\ IsFiniteSet(Milestones)
      /\ withdrawn = Total(released)
  BY RaisedWithinContributed, MilestonesAssumption
     DEF CampaignInv, CampaignTypeOK, ReleasesRecorded
<1>2. \A m \in Milestones :
        /\ OpenShares[m] \in Nat
        /\ f[m] * BPS <= totalRaised * ReleaseBps[m]
  <2> SUFFICES ASSUME NEW m \in Milestones
               PROVE  /\ OpenShares[m] \in Nat
                      /\ f[m] * BPS <= totalRaised * ReleaseBps[m]
    OBVIOUS
  <2>1. ShareOf(m) \in Nat /\ ShareOf(m) * BPS <= totalRaised * ReleaseBps[m]
    BY <1>1, ShareFacts
  <2>2. released[m] \in Nat /\ released[m] * BPS <= totalRaised * ReleaseBps[m]
    BY <1>1 DEF CampaignInv, ReleasedWithinShare
  <2>3. CASE status[Admin][m] = "Approved"
    BY <2>2, <2>3 DEF OpenShares
  <2>4. CASE status[Admin][m] # "Approved"
    <3>1. released[m] = 0
      BY <2>4 DEF CampaignInv, ReleasesRecorded
    <3>. QED BY <2>1, <2>4, <3>1 DEF OpenShares
  <2>. QED BY <2>3, <2>4
<1>3. OpenShares \in [Milestones -> Nat]
  BY <1>2 DEF OpenShares
<1>4. f \in [Milestones -> Nat]
  BY <1>1, <1>3
<1>5. Total(f) <= totalRaised
  <2> HIDE DEF f
  <2>. QED BY <1>1, <1>2, <1>4, SharesWithinWhole
<1>6. Total(f) = Total(OpenShares) + Total(released)
  BY <1>1, <1>3, TotalPlus
<1>. QED BY <1>1, <1>5, <1>6

(* So the escrow holds every share that is still open. *)
LEMMA NeverRunsDry ==
  ASSUME CampaignInv
  PROVE  ReleasesNeverRunDry
<1> SUFFICES ASSUME ~isRefunding PROVE Total(OpenShares) <= held
  BY DEF ReleasesNeverRunDry
<1>1. Total(OpenShares) + withdrawn <= totalRaised
  BY OpenSharesCovered
<1>2. totalRaised <= held + withdrawn + overridden /\ overridden = 0
  BY DEF CampaignInv, IInv, SnapshotBook, EscrowLeftAlone
<1>3. held \in Nat /\ withdrawn \in Nat /\ totalRaised \in Nat
  BY DEF CampaignInv, IInv, TypeOK
<1>4. Total(OpenShares) \in Nat
  <2>1. OpenShares \in [Milestones -> Nat]
    BY <1>3, ShareFacts DEF OpenShares
  <2>. QED BY <2>1, MilestonesAssumption, TotalType
<1>. QED BY <1>1, <1>2, <1>3, <1>4

---------------------------------------------------------------------------
(* The escrow's own invariant survives the two calls inside                 *)
(* approve_milestone, which together are no step of the escrow: they happen *)
(* while the campaign is open and the target is met.                        *)
LEMMA ReleaseFacts ==
  ASSUME CampaignInv, NEW v \in Contracts, NEW a \in Nat, a > 0,
         ApproveAndExecute(v, a)
  PROVE  /\ IInv'
         /\ v = Admin /\ ~isRefunding /\ isRefunding' = isRefunding
         /\ contributed' = contributed /\ Total(contributed) >= Target
         /\ withdrawn' = withdrawn + a
         /\ UNCHANGED <<campaignFailed, overridden, milestonesContract, refundPaid>>
<1> USE DEF deposits, approvals, refunds, settings
<1>1. /\ TypeOK /\ RaisedIsSum /\ ApprovedIsSum /\ FeeCapped /\ SnapshotBook
      /\ ShareBook /\ IInv
  BY DEF CampaignInv, IInv, BooksAgree
<1>2. /\ UNCHANGED <<now, balances, totalRaised, contributed, approvedFor, approved,
                     campaignFailed, isRefunding, refundPool, refundBase, refundPaid,
                     feeBps, pendingFee, milestonesContract, secondSigner, direct,
                     overridden, drained>>
      /\ held >= a /\ held' = held - a
      /\ withdrawn' = withdrawn + a /\ feesPaid' = feesPaid + FeeOf(a)
      /\ v = Admin /\ ~Closed
  BY DEF ApproveAndExecute
<1>3. FeeOf(a) \in Nat /\ FeeOf(a) * BPS <= a * MAX_FEE_BPS
  BY <1>1, FeeOfIsCapped
<1>4. TypeOK'
  BY <1>1, <1>2, <1>3 DEF TypeOK
<1>5. BooksAgree'
  <2>1. RaisedIsSum' /\ ApprovedIsSum'
    BY <1>1, <1>2 DEF RaisedIsSum, ApprovedIsSum
  <2>2. FeeCapped'
    BY <1>1, <1>2, <1>3 DEF FeeCapped, TypeOK, BPS, MAX_FEE_BPS
  <2>. QED BY <2>1, <2>2 DEF BooksAgree
<1>6. ~isRefunding
  BY <1>2 DEF Closed
<1>7. SnapshotBook'
  BY <1>1, <1>2, <1>6 DEF SnapshotBook, TypeOK
<1>8. ShareBook' /\ RefundsSolvent'
  BY <1>1, <1>2, <1>6 DEF ShareBook, RefundsSolvent
<1>9. totalRaised >= Target
  BY ContractsAssumption DEF ApproveAndExecute, CampaignInv, EscrowLeftAlone, Contracts
<1>10. Total(contributed) >= Target
  BY <1>1, <1>9, RaisedWithinContributed, InitializeAssumption
<1>. QED BY <1>2, <1>4, <1>5, <1>6, <1>7, <1>8, <1>10 DEF IInv

(* Steps that neither call the escrow nor take an approval back.            *)
LEMMA QuietStep ==
  ASSUME CampaignInv, UNCHANGED <<escrowVars, released>>, CampaignTypeOK',
         \A m \in Milestones :
           status[Admin][m] = "Approved" => status'[Admin][m] = "Approved"
  PROVE  CampaignInv'
<1>1. IInv'
  BY NextIInv DEF CampaignInv, escrowVars
<1>2. UNCHANGED <<campaignFailed, overridden, milestonesContract, withdrawn,
                  contributed, isRefunding, released>>
  BY DEF escrowVars, vars, deposits, refunds, settings, outflows
<1>3. EscrowLeftAlone' /\ OneOutcome' /\ ReleasedWithinShare'
  BY <1>2 DEF CampaignInv, EscrowLeftAlone, OneOutcome, ReleasedWithinShare
<1>4. ReleasesRecorded'
  BY <1>2 DEF CampaignInv, ReleasesRecorded
<1>. QED BY <1>1, <1>3, <1>4 DEF CampaignInv

(* The types of the milestones contracts.                                   *)
LEMMA MilestoneTypes ==
  ASSUME CampaignInv, TypeOK', CampaignNext
  PROVE  CampaignTypeOK'
<1>0. CampaignTypeOK /\ Admin \in Contracts /\ Successor \in Contracts
  BY DEF CampaignInv, Contracts
<1>1. CASE EscrowStep
  BY <1>0, <1>1 DEF EscrowStep, CampaignTypeOK, milestoneVars
<1>2. ASSUME NEW v \in Contracts, NEW m \in Milestones, SubmitMilestone(v, m)
      PROVE  CampaignTypeOK'
  BY <1>0, <1>2 DEF SubmitMilestone, SetStatus, CampaignTypeOK, Statuses
<1>3. ASSUME NEW v \in Contracts, NEW m \in Milestones, ApproveMilestone(v, m)
      PROVE  CampaignTypeOK'
  <2>1. ShareOf(m) \in Nat /\ released[m] + ShareOf(m) \in Nat
    <3>1. ShareOf(m) \in Nat
      BY <1>0, ShareFacts DEF CampaignTypeOK, TypeOK
    <3>. QED BY <1>0, <3>1 DEF CampaignTypeOK
  <2>. QED BY <1>0, <1>3, <2>1 DEF ApproveMilestone, SetStatus, CampaignTypeOK, Statuses
<1>4. ASSUME NEW v \in Contracts, NEW m \in Milestones, RejectMilestone(v, m)
      PROVE  CampaignTypeOK'
  BY <1>0, <1>4 DEF RejectMilestone, SetStatus, CampaignTypeOK, Statuses
<1>5. CASE UpgradeStep
  BY <1>0, <1>5 DEF UpgradeStep, SetPaused, DeploySuccessor, MigrateFromV1, Migrate,
                    CopyMilestones, CampaignTypeOK
<1>. QED
  BY <1>1, <1>2, <1>3, <1>4, <1>5 DEF CampaignNext, MilestoneStep

(* A milestone the first contract approved stays approved there.            *)
LEMMA ApprovalsLast ==
  ASSUME CampaignTypeOK, CampaignNext
  PROVE  \A m \in Milestones :
           status[Admin][m] = "Approved" => status'[Admin][m] = "Approved"
<1> USE DEF CampaignTypeOK, Contracts
<1>1. CASE EscrowStep
  BY <1>1 DEF EscrowStep, milestoneVars
<1>2. ASSUME NEW v \in Contracts, NEW m \in Milestones,
             \/ SubmitMilestone(v, m) \/ ApproveMilestone(v, m)
             \/ RejectMilestone(v, m)
      PROVE  \A n \in Milestones :
               status[Admin][n] = "Approved" => status'[Admin][n] = "Approved"
  BY <1>2 DEF SubmitMilestone, ApproveMilestone, RejectMilestone, SetStatus
<1>3. CASE UpgradeStep
  BY <1>3, ContractsAssumption
     DEF UpgradeStep, SetPaused, DeploySuccessor, MigrateFromV1, Migrate, CopyMilestones
<1>. QED BY <1>1, <1>2, <1>3 DEF CampaignNext, MilestoneStep

(* Contributions only grow.                                                 *)
LEMMA ContributedGrows ==
  ASSUME IInv, IInv', EscrowStep
  PROVE  Total(contributed) <= Total(contributed)'
<1> USE DEF deposits
<1>1. contributed \in [Contributors -> Nat] /\ contributed' \in [Contributors -> Nat]
  BY DEF IInv, TypeOK
<1>2. ASSUME NEW c \in Contributors, NEW a \in DepositAmounts, Deposit(c, a)
      PROVE  \A d \in Contributors : contributed[d] <= contributed'[d]
  <2>1. a \in Nat /\ contributed' = [contributed EXCEPT ![c] = contributed[c] + a]
    BY <1>2, AmountsAssumption DEF Deposit
  <2>. QED BY <1>1, <2>1
<1>3. ASSUME \/ \E c \in Contributors : Refund(c)
             \/ \E a \in DirectAmounts : TransferDirectly(a)
             \/ Tick
      PROVE  \A d \in Contributors : contributed[d] <= contributed'[d]
  <2>1. contributed' = contributed
    BY <1>3 DEF Refund, TransferDirectly, Tick
  <2>. QED BY <1>1, <2>1
<1>4. \A d \in Contributors : contributed[d] <= contributed'[d]
  BY <1>2, <1>3 DEF EscrowStep
<1>. QED BY <1>1, <1>4, PartiesFinite, TotalMono

(* Deposits, refunds, strangers' transfers and time.                        *)
LEMMA EscrowStepKeeps ==
  ASSUME CampaignInv, EscrowStep
  PROVE  CampaignInv'
<1> USE DEF deposits, refunds, settings, outflows
<1>1. IInv'
  <2>1. Next
    BY DEF EscrowStep, Next, MoveFunds
  <2>. QED BY <2>1, NextIInv DEF CampaignInv
<1>2. /\ UNCHANGED <<withdrawn, overridden, campaignFailed, milestonesContract>>
      /\ UNCHANGED <<status, released>>
  BY DEF EscrowStep, Refund, Deposit, TransferDirectly, Tick, milestoneVars
<1>3. Total(contributed) <= Total(contributed)'
  BY <1>1, ContributedGrows DEF CampaignInv
<1>4. Total(contributed) \in Nat /\ Total(contributed)' \in Nat
  BY <1>1, PartiesFinite, TotalType DEF CampaignInv, IInv, TypeOK
<1>5. CampaignTypeOK'
  <2>1. CampaignNext /\ TypeOK'
    BY <1>1 DEF CampaignNext, IInv
  <2>. QED BY <2>1, MilestoneTypes
<1>6. EscrowLeftAlone' /\ ReleasesRecorded'
  BY <1>2 DEF CampaignInv, EscrowLeftAlone, ReleasesRecorded
<1>7. ReleasedWithinShare'
  <2> SUFFICES ASSUME NEW m \in Milestones
               PROVE  released'[m] * BPS <= Total(contributed)' * ReleaseBps[m]
    BY DEF ReleasedWithinShare
  <2>1. /\ released[m] \in Nat /\ ReleaseBps[m] \in Nat /\ BPS \in Nat
        /\ released[m] * BPS <= Total(contributed) * ReleaseBps[m]
    BY MilestonesAssumption DEF CampaignInv, CampaignTypeOK, ReleasedWithinShare, BPS
  <2>2. Total(contributed) * ReleaseBps[m] <= Total(contributed)' * ReleaseBps[m]
    BY <1>3, <1>4, <2>1, MulMono
  <2>3. /\ released[m] * BPS \in Nat /\ Total(contributed) * ReleaseBps[m] \in Nat
        /\ Total(contributed)' * ReleaseBps[m] \in Nat
    BY <1>4, <2>1, MulNat
  <2>. QED BY <1>2, <2>1, <2>2, <2>3
<1>8. OneOutcome'
  <2>1. withdrawn' > 0 => Total(contributed)' >= Target
    BY <1>2, <1>3, <1>4, InitializeAssumption DEF CampaignInv, OneOutcome
  <2>2. ASSUME NEW c \in Contributors, NEW a \in DepositAmounts, Deposit(c, a)
        PROVE  ~isRefunding'
    BY <2>2 DEF Deposit, Closed
  <2>3. ASSUME NEW c \in Contributors, Refund(c)
        PROVE  Total(contributed)' < Target
    <3>1. contributed' = contributed /\ totalRaised < Target
      BY <2>3 DEF Refund, Refundable, CampaignInv, EscrowLeftAlone
    <3>2. Total(contributed) < Target
      BY <3>1, RaisedWithinContributed DEF CampaignInv, OneOutcome
    <3>. QED BY <3>1, <3>2
  <2>4. ASSUME (\E a \in DirectAmounts : TransferDirectly(a)) \/ Tick
        PROVE  isRefunding' = isRefunding /\ contributed' = contributed
    BY <2>4 DEF TransferDirectly, Tick
  <2>5. isRefunding' => Total(contributed)' < Target
    BY <2>2, <2>3, <2>4 DEF EscrowStep, CampaignInv, OneOutcome
  <2>. QED BY <2>1, <2>5 DEF OneOutcome
<1>. QED BY <1>1, <1>5, <1>6, <1>7, <1>8 DEF CampaignInv

(* approve_milestone releases a share once, out of what was contributed.    *)
LEMMA ApprovalKeeps ==
  ASSUME CampaignInv, NEW v \in Contracts, NEW m \in Milestones, ApproveMilestone(v, m)
  PROVE  CampaignInv'
<1>0. /\ TypeOK /\ CampaignTypeOK /\ IInv /\ ReleasesRecorded /\ ReleasedWithinShare
      /\ released \in [Milestones -> Nat] /\ IsFiniteSet(Milestones)
      /\ totalRaised \in Nat
  BY MilestonesAssumption DEF CampaignInv, CampaignTypeOK, TypeOK
<1>1. ShareOf(m) \in Nat /\ ShareOf(m) * BPS <= totalRaised * ReleaseBps[m]
  BY <1>0, ShareFacts
<1>2. CampaignNext
  BY DEF CampaignNext, MilestoneStep
<1>3. released' = [released EXCEPT ![m] = released[m] + ShareOf(m)]
  BY DEF ApproveMilestone
<1>4. \A n \in Milestones :
        status[Admin][n] = "Approved" => status'[Admin][n] = "Approved"
  BY <1>0, <1>2, ApprovalsLast
<1>5. CASE ShareOf(m) = 0
  <2>1. UNCHANGED escrowVars
    BY <1>5 DEF ApproveMilestone
  <2>2. released' = released
    BY <1>0, <1>3, <1>5
  <2>3. TypeOK'
    BY <1>0, <2>1, NextIInv DEF IInv, escrowVars
  <2>4. CampaignTypeOK'
    BY <1>2, <2>3, MilestoneTypes
  <2>. QED BY <1>4, <2>1, <2>2, <2>4, QuietStep
<1>6. CASE ShareOf(m) > 0
  <2>1. ApproveAndExecute(v, ShareOf(m))
    BY <1>6 DEF ApproveMilestone
  <2>2. /\ IInv'
        /\ v = Admin /\ ~isRefunding /\ isRefunding' = isRefunding
        /\ contributed' = contributed /\ Total(contributed) >= Target
        /\ withdrawn' = withdrawn + ShareOf(m)
        /\ UNCHANGED <<campaignFailed, overridden, milestonesContract>>
    BY <1>1, <1>6, <2>1, ReleaseFacts
  <2>3. CampaignTypeOK'
    BY <1>2, <2>2, MilestoneTypes DEF IInv
  <2>4. EscrowLeftAlone' /\ OneOutcome'
    BY <2>2 DEF CampaignInv, EscrowLeftAlone, OneOutcome
  <2>5. released[m] = 0 /\ status' = [status EXCEPT ![Admin][m] = "Approved"]
    BY <1>0, <2>2 DEF ApproveMilestone, SetStatus, ReleasesRecorded
  <2>6. released'[m] = ShareOf(m) /\ \A n \in Milestones \ {m} : released'[n] = released[n]
    BY <1>0, <1>1, <1>3, <2>5
  <2>7. ReleasesRecorded'
    <3>1. Total(released') = Total(released) - released[m] + ShareOf(m)
      <4>1. released' = [released EXCEPT ![m] = ShareOf(m)]
        <5>1. released[m] + ShareOf(m) = ShareOf(m)
          BY <1>1, <2>5
        <5>. QED BY <1>3, <5>1
      <4>. QED BY <1>0, <1>1, <4>1, TotalUpdate
    <3>2. withdrawn' = Total(released')
      <4>1. withdrawn = Total(released) /\ withdrawn \in Nat
        BY <1>0 DEF ReleasesRecorded, TypeOK
      <4>. QED BY <1>1, <2>2, <2>5, <3>1, <4>1
    <3>3. ASSUME NEW n \in Milestones, status'[Admin][n] # "Approved"
          PROVE  released'[n] = 0
      <4>1. n # m
        BY <1>0, <2>5, <3>3 DEF CampaignTypeOK, Contracts
      <4>2. status[Admin][n] # "Approved"
        BY <1>4, <3>3
      <4>. QED BY <1>0, <2>6, <4>1, <4>2 DEF ReleasesRecorded
    <3>. QED BY <3>2, <3>3 DEF ReleasesRecorded
  <2>8. ReleasedWithinShare'
    <3>1. totalRaised = Total(contributed)
      BY <1>0, <2>2, RaisedWithinContributed
    <3>. QED BY <1>0, <1>1, <2>2, <2>6, <3>1 DEF ReleasedWithinShare
  <2>. QED BY <2>2, <2>3, <2>4, <2>7, <2>8 DEF CampaignInv
<1>. QED BY <1>1, <1>5, <1>6

---------------------------------------------------------------------------
LEMMA InitCampaignInv == CampaignInit => CampaignInv
<1> SUFFICES ASSUME CampaignInit PROVE CampaignInv
  OBVIOUS
<1>1. Init /\ IInv /\ TypeOK
  BY InitIInv DEF CampaignInit, IInv
<1>2. CampaignTypeOK
  BY <1>1 DEF CampaignInit, CampaignTypeOK, Contracts, Statuses
<1>3. EscrowLeftAlone /\ OneOutcome
  BY <1>1 DEF Init, EscrowLeftAlone, OneOutcome
<1>4. ReleasesRecorded
  <2>1. released = [m \in Milestones |-> 0] /\ withdrawn = 0
    BY <1>1 DEF CampaignInit, Init
  <2>. QED BY <2>1, TotalZero DEF ReleasesRecorded
<1>5. ReleasedWithinShare
  <2>1. \A m \in Milestones : released[m] = 0 /\ ReleaseBps[m] \in Nat
    BY MilestonesAssumption DEF CampaignInit
  <2>2. Total(contributed) \in Nat
    BY <1>1, PartiesFinite, TotalType DEF TypeOK
  <2>. QED BY <2>1, <2>2, MulNat DEF ReleasedWithinShare, BPS
<1>. QED BY <1>1, <1>2, <1>3, <1>4, <1>5 DEF CampaignInv

LEMMA NextCampaignInv == CampaignInv /\ [CampaignNext]_allVars => CampaignInv'
<1> SUFFICES ASSUME CampaignInv, [CampaignNext]_allVars PROVE CampaignInv'
  OBVIOUS
<1>1. CASE UNCHANGED allVars
  <2>1. UNCHANGED <<escrowVars, released>> /\ status' = status
    BY <1>1 DEF allVars, milestoneVars
  <2>2. TypeOK'
    BY <2>1, NextIInv DEF CampaignInv, IInv, escrowVars
  <2>3. CampaignTypeOK'
    BY <1>1, <2>2 DEF allVars, milestoneVars, CampaignInv, CampaignTypeOK
  <2>. QED BY <2>1, <2>3, QuietStep
<1>2. CASE EscrowStep
  BY <1>2, EscrowStepKeeps
<1>3. ASSUME NEW v \in Contracts, NEW m \in Milestones, ApproveMilestone(v, m)
      PROVE  CampaignInv'
  BY <1>3, ApprovalKeeps
<1>4. ASSUME \/ \E v \in Contracts, m \in Milestones :
                  SubmitMilestone(v, m) \/ RejectMilestone(v, m)
             \/ UpgradeStep
      PROVE  CampaignInv'
  <2>1. UNCHANGED <<escrowVars, released>>
    BY <1>4 DEF SubmitMilestone, RejectMilestone, UpgradeStep, SetPaused,
                DeploySuccessor, MigrateFromV1, Migrate
  <2>2. CampaignNext
    BY <1>4 DEF CampaignNext, MilestoneStep
  <2>3. TypeOK'
    BY <2>1, NextIInv DEF CampaignInv, IInv, escrowVars
  <2>. QED BY <2>1, <2>2, <2>3, MilestoneTypes, ApprovalsLast, QuietStep DEF CampaignInv
<1>. QED BY <1>1, <1>2, <1>3, <1>4 DEF CampaignNext, MilestoneStep

THEOREM CampaignInvariance == CampaignSpec => []CampaignInv
BY InitCampaignInv, NextCampaignInv, PTL DEF CampaignSpec

(* The escrow and both milestones contracts keep their types, with the      *)
(* approvals and migrations of any number of milestones.                    *)
THEOREM CampaignTypeCorrect == CampaignSpec => []CampaignTypeOK
<1>1. CampaignInv => CampaignTypeOK
  BY DEF CampaignInv
<1>. QED BY <1>1, CampaignInvariance, PTL

(* For any number of milestones and any split of the money among them, no   *)
(* milestone releases more than its share, and approving never finds the    *)
(* escrow short of one.                                                     *)
THEOREM ReleasesSound == CampaignSpec => []ReleasesAreSound
<1>1. CampaignInv => ReleasesAreSound
  BY NeverRunsDry DEF CampaignInv, ReleasesAreSound
<1>. QED BY <1>1, CampaignInvariance, PTL

---------------------------------------------------------------------------
(* The contracts implement the abstract custody, step by step: a deposit is *)
(* a contribution, an approval with a share a release, a refund a return in *)
(* full, and everything else stutters.                                      *)

LEMMA SameTotal == Custody!Total(contributed) = Total(contributed)
BY Zenon DEF Custody!Total, Custody!Tokens, Custody!TokensOf, Total, Tokens, TokensOf,
   Custody!Cardinality, Cardinality, Custody!IsFiniteSet, IsFiniteSet

LEMMA DepositContributes ==
  ASSUME CampaignInv, NEW c \in Contributors, NEW a \in DepositAmounts, Deposit(c, a)
  PROVE  Custody!Contribute(c)
<1> USE DEF refunds, outflows
<1>1. TypeOK /\ ShareBook
  BY DEF CampaignInv, IInv
<1>2. a \in Nat /\ a > 0 /\ ~isRefunding
  BY AmountsAssumption DEF Deposit, Closed
<1>3. Custody!NothingReturned
  BY <1>1, <1>2 DEF ShareBook, Custody!NothingReturned
<1>4. /\ contributed' = [contributed EXCEPT ![c] = contributed[c] + a]
      /\ UNCHANGED <<withdrawn, refundPaid>>
  BY DEF Deposit
<1>5. contributed[c] \in Nat /\ contributed'[c] = contributed[c] + a
  BY <1>1, <1>2, <1>4 DEF TypeOK
<1>6. contributed' = [contributed EXCEPT ![c] = contributed'[c]]
  BY <1>4, <1>5
<1>. QED BY <1>2, <1>3, <1>4, <1>5, <1>6 DEF Custody!Contribute

(* Once a refund has been paid nothing was or will be released, so that the *)
(* snapshot is the whole of what was contributed.                           *)
LEMMA RefundReturns ==
  ASSUME CampaignInv, NEW c \in Contributors, Refund(c)
  PROVE  Custody!GiveBack(c)
<1> USE DEF outflows
<1>1. TypeOK /\ ShareBook /\ SnapshotBook /\ RaisedIsSum
  BY DEF CampaignInv, IInv, BooksAgree
<1>2. totalRaised < Target /\ balances[c] > 0
  BY DEF Refund, Refundable, CampaignInv, EscrowLeftAlone
<1>3. Total(contributed) < Target
  BY <1>2, RaisedWithinContributed DEF CampaignInv, OneOutcome
<1>4. Total(contributed) \in Nat /\ withdrawn \in Nat /\ Target \in Nat
  BY <1>1, RaisedWithinContributed, InitializeAssumption DEF CampaignInv, TypeOK
<1>5. withdrawn = 0 /\ overridden = 0
  BY <1>3, <1>4 DEF CampaignInv, OneOutcome, EscrowLeftAlone
<1>6. balances[c] = contributed[c] /\ refundPaid[c] = 0 /\ contributed[c] \in Nat
  BY <1>1, <1>2 DEF ShareBook, TypeOK
<1>7. RefundPoolNow = RefundBaseNow /\ RefundBaseNow \in Nat /\ RefundBaseNow > 0
  <2>1. /\ RefundBaseNow \in Nat /\ RefundBaseNow > 0 /\ RefundPoolNow \in Nat
        /\ RefundPoolNow <= RefundBaseNow
    BY <1>1, <1>2, SnapshotType
  <2>2. RefundBaseNow <= RefundPoolNow
    BY <1>1, <1>5 DEF SnapshotBook, RefundPoolNow, RefundBaseNow, LesserOf, TypeOK
  <2>. QED BY <2>1, <2>2
<1>8. PayoutOf(c) = contributed[c]
  BY <1>6, <1>7, DivExact DEF PayoutOf
<1>9. /\ refundPaid' = [refundPaid EXCEPT ![c] = contributed[c]]
      /\ UNCHANGED <<contributed, withdrawn>>
  <2>1. refundPaid[c] + PayoutOf(c) = contributed[c]
    BY <1>6, <1>8
  <2>. QED BY <2>1 DEF Refund
<1>. QED BY <1>3, <1>5, <1>6, <1>9, SameTotal DEF Custody!GiveBack

LEMMA ApprovalReleases ==
  ASSUME CampaignInv, NEW v \in Contracts, NEW m \in Milestones, ApproveMilestone(v, m)
  PROVE  Custody!Release \/ UNCHANGED Custody!custodyVars
<1>1. ShareOf(m) \in Nat
  BY ShareFacts DEF CampaignInv, IInv, TypeOK
<1>2. CASE ShareOf(m) = 0
  <2>1. UNCHANGED escrowVars
    BY <1>2 DEF ApproveMilestone
  <2>. QED
    BY <2>1 DEF escrowVars, vars, deposits, refunds, outflows, Custody!custodyVars
<1>3. CASE ShareOf(m) > 0
  <2>1. ApproveAndExecute(v, ShareOf(m))
    BY <1>3 DEF ApproveMilestone
  <2>2. /\ ~isRefunding /\ isRefunding' = isRefunding
        /\ contributed' = contributed /\ refundPaid' = refundPaid
        /\ Total(contributed) >= Target /\ withdrawn' = withdrawn + ShareOf(m)
    BY <1>1, <1>3, <2>1, ReleaseFacts
  <2>3. Custody!NothingReturned
    BY <2>2 DEF CampaignInv, IInv, ShareBook, Custody!NothingReturned
  <2>4. withdrawn' <= Total(contributed) /\ withdrawn' \in Nat /\ withdrawn \in Nat
    <3>1. CampaignInv'
      BY ApprovalKeeps
    <3>2. /\ released' \in [Milestones -> Nat] /\ ReleasedWithinShare'
          /\ withdrawn' = Total(released') /\ withdrawn' \in Nat
      BY <3>1 DEF CampaignInv, CampaignTypeOK, ReleasesRecorded, TypeOK
    <3>3. \A n \in Milestones : released'[n] * BPS <= Total(contributed) * ReleaseBps[n]
      BY <2>2, <3>2 DEF ReleasedWithinShare
    <3>4. Total(released') <= Total(contributed)
      BY <3>2, <3>3, SharesWithinWhole, RaisedWithinContributed DEF CampaignInv
    <3>. QED BY <3>2, <3>4 DEF CampaignInv, IInv, TypeOK
  <2>5. withdrawn' \in withdrawn + 1 .. Total(contributed)
    BY <1>1, <1>3, <2>2, <2>4, RaisedWithinContributed DEF CampaignInv
  <2>. QED BY <2>2, <2>3, <2>5, SameTotal DEF Custody!Release
<1>. QED BY <1>1, <1>2, <1>3

LEMMA CustodyStep ==
  CampaignInv /\ [CampaignNext]_allVars => [Custody!CustodyNext]_(Custody!custodyVars)
<1> SUFFICES ASSUME CampaignInv, [CampaignNext]_allVars
             PROVE  [Custody!CustodyNext]_(Custody!custodyVars)
  OBVIOUS
<1>1. ASSUME NEW c \in Contributors, NEW a \in DepositAmounts, Deposit(c, a)
      PROVE  Custody!CustodyNext
  BY <1>1, DepositContributes DEF Custody!CustodyNext
<1>2. ASSUME NEW c \in Contributors, Refund(c)
      PROVE  Custody!CustodyNext
  BY <1>2, RefundReturns DEF Custody!CustodyNext
<1>3. ASSUME NEW v \in Contracts, NEW m \in Milestones, ApproveMilestone(v, m)
      PROVE  [Custody!CustodyNext]_(Custody!custodyVars)
  BY <1>3, ApprovalReleases DEF Custody!CustodyNext
<1>4. ASSUME \/ UNCHANGED allVars
             \/ (\E a \in DirectAmounts : TransferDirectly(a)) \/ Tick
             \/ \E v \in Contracts, m \in Milestones :
                  SubmitMilestone(v, m) \/ RejectMilestone(v, m)
             \/ UpgradeStep
      PROVE  UNCHANGED Custody!custodyVars
  BY <1>4 DEF TransferDirectly, Tick, SubmitMilestone, RejectMilestone, UpgradeStep,
              SetPaused, DeploySuccessor, MigrateFromV1, Migrate, allVars, escrowVars,
              vars, deposits, refunds, outflows, Custody!custodyVars
<1>. QED
  BY <1>1, <1>2, <1>3, <1>4 DEF CampaignNext, EscrowStep, MilestoneStep

(* Whatever the order of deposits, approvals, migrations, refunds and time, *)
(* a campaign either pays its creator or gives everyone everything back.    *)
THEOREM CustodyImplemented == CampaignSpec => ImplementsCustody
<1>1. CampaignInit => Custody!CustodyInit
  BY DEF CampaignInit, Init, Custody!CustodyInit
<1>. QED
  BY <1>1, CustodyStep, CampaignInvariance, PTL
     DEF CampaignSpec, ImplementsCustody, Custody!CustodySpec

(***************************************************************************)
(* The refunds of a failed campaign (FailedCampaignRefunds), for any rows, *)
(* senders and number of passes.                                           *)
(***************************************************************************)

(* Contributors the escrow has paid; no later call changes that. *)
Settled(c) == isRefunding /\ contributed[c] > 0 /\ balances[c] = 0

AtMark == {p \in Passes : At(p, "mark")}
SenderAtMark(p) == SenderOf[passes[p].on]

(* A row that is marked, or about to be, has a sender the escrow paid. *)
MarksAreEarned ==
  /\ \A k \in Rows : rows[k] = "refunded" => Settled(SenderOf[k])
  /\ \A p \in AtMark : Settled(SenderAtMark(p))

(* The rows marked and the passes about to mark one are for different       *)
(* senders: the escrow pays a contributor once, so one answer is his.       *)
OneMarkEach ==
  /\ \A k, l \in Rows :
       rows[k] = "refunded" /\ rows[l] = "refunded" /\ SenderOf[k] = SenderOf[l]
         => k = l
  /\ \A p \in AtMark, k \in Rows :
       rows[k] = "refunded" => SenderOf[k] # SenderAtMark(p)
  /\ \A p, q \in AtMark : SenderAtMark(p) = SenderAtMark(q) => p = q

(* Unless two passes listed rows together, one pass at a time holds a list, *)
(* of rows without a request.                                               *)
ListedOnce ==
  ~overlapped =>
    /\ \A k \in Rows : requests[k] <= 1
    /\ \A p, q \in Passes : At(p, "queue") /\ At(q, "queue") => p = q
    /\ \A p \in Passes :
         At(p, "queue") => \A k \in passes[p].todo : requests[k] = 0

RefundsInv ==
  IInv /\ RefundsTypeOK /\ MarksAreEarned /\ OneMarkEach /\ ListedOnce

PassRecord == [step : Steps, todo : SUBSET Rows, on : Rows \cup {None}]

---------------------------------------------------------------------------
(* Seen from the escrow, every step of the desk is a refund or nothing.     *)
LEMMA DeskMovesEscrow ==
  ASSUME [RefundsNext]_refundsVars
  PROVE  [Next]_vars
<1>1. ASSUME NEW p \in Passes, NEW k \in Rows, ContractPays(p, k) \/ AnswerLost(p, k)
      PROVE  Next
  BY <1>1, RowsAssumption DEF ContractPays, AnswerLost, Next, MoveFunds
<1>2. ASSUME ContractStep \/ UNCHANGED refundsVars
      PROVE  [Next]_vars
  BY <1>2 DEF ContractStep, refundsVars
<1>3. ASSUME \/ \E k \in Rows : Pay(k) \/ Record(k)
             \/ FailCampaign \/ Notify \/ NotifyFails \/ Crash
             \/ \E a \in Admins : TriggerRefunds(a)
             \/ \E p \in Passes :
                  \/ ReadCampaign(p) \/ SelectUnrefunded(p) \/ MarkRefunded(p)
                  \/ AllTried(p) \/ SelectLeft(p) \/ QueueRequests(p)
                  \/ SelectFails(p) \/ MarkFails(p) \/ QueryFails(p)
                  \/ \E k \in Rows : ContractRefuses(p, k) \/ ContractUnreachable(p, k)
      PROVE  UNCHANGED vars
  BY <1>3 DEF Pay, Record, FailCampaign, Notify, NotifyFails, Crash, TriggerRefunds,
              ReadCampaign, SelectUnrefunded, MarkRefunded, AllTried, SelectLeft,
              QueueRequests, SelectFails, MarkFails, QueryFails, ContractRefuses,
              ContractUnreachable
<1>. QED BY <1>1, <1>2, <1>3 DEF RefundsNext, DeskNext, PassStep, PassFails

(* Who was paid by the escrow stays so: his balance is gone, and no deposit *)
(* is taken any more.                                                       *)
LEMMA SettledLasts ==
  ASSUME IInv, [Next]_vars, NEW c \in Contributors, Settled(c)
  PROVE  Settled(c)'
<1> USE DEF deposits, approvals, refunds, settings, outflows
<1>0. TypeOK
  BY DEF IInv
<1>1. ASSUME NEW d \in Contributors, NEW a \in DepositAmounts, Deposit(d, a)
      PROVE  Settled(c)'
  BY <1>1 DEF Deposit, Closed, Settled
<1>2. ASSUME NEW d \in Contributors, Refund(d)
      PROVE  Settled(c)'
  BY <1>0, <1>2 DEF Refund, Settled, TypeOK
<1>3. ASSUME \/ Configure
             \/ \E a \in DirectAmounts : TransferDirectly(a)
             \/ \E to \in Payees, a \in ReleaseAmounts :
                  \/ ApproveWithdrawal(to, a) \/ ApproveMilestoneWithdrawal(to, a)
                  \/ ExecuteWithdrawal(to, a)
             \/ \E s \in Signers, a \in OverrideAmounts : AdminOverrideWithdrawal(s, a)
             \/ MarkCampaignFailed \/ Tick \/ UNCHANGED vars
      PROVE  Settled(c)'
  <2>1. UNCHANGED <<isRefunding, contributed, balances>>
    BY <1>3 DEF Configure, SetMilestonesContract, SetSecondSigner, ProposeFeeChange,
                ConfirmFeeChange, CancelFeeChange, TransferDirectly, ApproveWithdrawal,
                ApproveMilestoneWithdrawal, ExecuteWithdrawal,
                AdminOverrideWithdrawal, MarkCampaignFailed, Tick, vars
  <2>. QED BY <2>1 DEF Settled
<1>. QED BY <1>1, <1>2, <1>3 DEF Next, MoveFunds

(* A refund pays somebody who was not paid before.                          *)
LEMMA RefundSettles ==
  ASSUME IInv, NEW c \in Contributors, Refund(c)
  PROVE  ~Settled(c) /\ Settled(c)'
<1>1. balances[c] > 0 /\ contributed[c] = balances[c] /\ balances[c] \in Nat
  BY DEF IInv, TypeOK, ShareBook, Refund
<1>. QED BY <1>1 DEF Refund, Settled, IInv, TypeOK

---------------------------------------------------------------------------
(* One pass moves: where it goes, and that the others stay.                 *)
LEMMA PassMoves ==
  ASSUME RefundsTypeOK, NEW p \in Passes, NEW r \in PassRecord,
         passes' = [passes EXCEPT ![p] = r]
  PROVE  /\ passes' \in [Passes -> PassRecord]
         /\ passes'[p] = r
         /\ \A q \in Passes \ {p} : passes'[q] = passes[q]
BY DEF RefundsTypeOK, PassRecord

LEMMA Going ==
  ASSUME RefundsTypeOK, NEW p \in Passes, NEW s \in Steps, Goto(p, s)
  PROVE  /\ [passes[p] EXCEPT !.step = s] \in PassRecord
         /\ passes' = [passes EXCEPT ![p] = [passes[p] EXCEPT !.step = s]]
BY DEF RefundsTypeOK, PassRecord, Goto

LEMMA GoingWith ==
  ASSUME RefundsTypeOK, NEW p \in Passes, NEW s \in Steps, NEW t \in SUBSET Rows,
         GotoWith(p, s, t)
  PROVE  /\ [step |-> s, todo |-> t, on |-> None] \in PassRecord
         /\ passes' = [passes EXCEPT ![p] = [step |-> s, todo |-> t, on |-> None]]
BY DEF PassRecord, GotoWith

(* Steps after which nobody is newly paid, listed or marked.                *)
Quiet ==
  /\ RefundsTypeOK'
  /\ \A k \in Rows : rows'[k] = "refunded" => rows[k] = "refunded"
  /\ UNCHANGED <<requests, overlapped>>
  /\ \A p \in Passes : passes'[p].step \in {"mark", "queue"} => passes'[p] = passes[p]

LEMMA PaymentsAreQuiet ==
  ASSUME RefundsTypeOK, NEW k \in Rows, Pay(k) \/ Record(k)
  PROVE  Quiet
<1>1. RefundsTypeOK'
  BY DEF Pay, Record, RefundsTypeOK, At, history
<1>2. \A l \in Rows : rows'[l] = "refunded" => rows[l] = "refunded"
  BY DEF Pay, Record, RefundsTypeOK
<1>3. UNCHANGED <<requests, overlapped, passes>>
  BY DEF Pay, Record, history
<1>. QED BY <1>1, <1>2, <1>3 DEF Quiet

LEMMA OthersAreQuiet ==
  ASSUME RefundsTypeOK, ContractStep \/ UNCHANGED refundsVars
  PROVE  Quiet
<1>1. UNCHANGED desk
  BY DEF ContractStep, refundsVars
<1>. QED BY <1>1 DEF desk, history, Quiet, RefundsTypeOK, At

(* A pass that goes elsewhere than to marking or queueing, by a step that   *)
(* leaves the tables alone.                                                 *)
LEMMA MovesAreQuiet ==
  ASSUME RefundsTypeOK, NEW p \in Passes, NEW r \in PassRecord,
         r.step \notin {"mark", "queue"}, passes' = [passes EXCEPT ![p] = r],
         UNCHANGED <<rows, requests, overlapped>>, contested' \in SUBSET Rows,
         campaignStatus' \in {"active", "funded", "failed"}, faults' \in 0 .. MaxFaults
  PROVE  Quiet
<1>1. /\ passes' \in [Passes -> PassRecord]
      /\ passes'[p] = r
      /\ \A q \in Passes \ {p} : passes'[q] = passes[q]
  BY PassMoves
<1>2. \A q \in Passes : passes'[q].step \in {"mark", "queue"} => passes'[q] = passes[q]
  BY <1>1
<1>3. \A q \in Passes : passes'[q].step = "mark" => passes'[q].on \in Rows
  BY <1>1 DEF RefundsTypeOK, At
<1>4. RefundsTypeOK'
  BY <1>1, <1>3 DEF RefundsTypeOK, PassRecord, At
<1>. QED BY <1>2, <1>4 DEF Quiet

LEMMA FaultType ==
  ASSUME RefundsTypeOK, Fault
  PROVE  faults' \in 0 .. MaxFaults
BY FaultsAssumption DEF RefundsTypeOK, Fault

LEMMA NamedStepsAreQuiet ==
  ASSUME RefundsTypeOK,
         \/ FailCampaign \/ Notify \/ NotifyFails
         \/ \E a \in Admins : TriggerRefunds(a)
         \/ \E p \in Passes :
              \/ ReadCampaign(p) \/ SelectUnrefunded(p) \/ SelectFails(p) \/ MarkFails(p)
              \/ AllTried(p) \/ QueryFails(p)
              \/ \E k \in Rows : \/ ContractRefuses(p, k) \/ ContractUnreachable(p, k)
                                 \/ AnswerLost(p, k)
  PROVE  Quiet
<1> USE DEF Steps
<1>0. /\ Hook \in Passes /\ \A a \in Admins : a \in Passes
      /\ campaignStatus \in {"active", "funded", "failed"} /\ faults \in 0 .. MaxFaults
      /\ \A p \in Passes : passes[p].todo \in SUBSET Rows
      /\ contested \in SUBSET Rows
  BY DEF Passes, RefundsTypeOK
<1>1. ASSUME NEW p \in Passes, NEW s \in Steps \ {"mark", "queue"}, Goto(p, s),
             UNCHANGED <<rows, requests, overlapped>>, contested' \in SUBSET Rows,
             campaignStatus' \in {"active", "funded", "failed"},
             faults' \in 0 .. MaxFaults
      PROVE  Quiet
  <2> DEFINE r == [passes[p] EXCEPT !.step = s]
  <2>1. r \in PassRecord /\ passes' = [passes EXCEPT ![p] = r]
    BY <1>1, Going
  <2>2. r.step = s
    BY DEF RefundsTypeOK
  <2> HIDE DEF r
  <2>. QED BY <1>1, <2>1, <2>2, MovesAreQuiet
<1>2. ASSUME NEW p \in Passes, NEW s \in Steps \ {"mark", "queue"},
             NEW t \in SUBSET Rows, GotoWith(p, s, t),
             UNCHANGED <<rows, requests, overlapped>>, contested' \in SUBSET Rows,
             campaignStatus' \in {"active", "funded", "failed"},
             faults' \in 0 .. MaxFaults
      PROVE  Quiet
  <2> DEFINE r == [step |-> s, todo |-> t, on |-> None]
  <2>1. r \in PassRecord /\ passes' = [passes EXCEPT ![p] = r]
    BY <1>2, GoingWith
  <2>2. r.step = s
    OBVIOUS
  <2> HIDE DEF r
  <2>. QED BY <1>2, <2>1, <2>2, MovesAreQuiet
<1>3. CASE FailCampaign
  BY <1>0, <1>1, <1>3 DEF FailCampaign, history
<1>4. CASE Notify
  BY <1>0, <1>1, <1>4 DEF Notify, history
<1>5. CASE NotifyFails
  BY <1>0, <1>1, <1>5, FaultType DEF NotifyFails, history
<1>6. ASSUME NEW a \in Admins, TriggerRefunds(a) PROVE Quiet
  BY <1>0, <1>1, <1>6 DEF TriggerRefunds, history
<1>7. ASSUME NEW p \in Passes,
             ReadCampaign(p) \/ SelectFails(p) \/ AllTried(p)
      PROVE  Quiet
  BY <1>0, <1>1, <1>7, FaultType DEF ReadCampaign, SelectFails, AllTried, history
<1>8. ASSUME NEW p \in Passes, SelectUnrefunded(p) \/ MarkFails(p) \/ QueryFails(p)
      PROVE  Quiet
  BY <1>0, <1>2, <1>8, FaultType DEF SelectUnrefunded, MarkFails, QueryFails, Unrefunded, history
<1>9. ASSUME NEW p \in Passes, NEW k \in Rows,
             ContractRefuses(p, k) \/ ContractUnreachable(p, k) \/ AnswerLost(p, k)
      PROVE  Quiet
  <2>1. Untried(p, k) \in PassRecord /\ Untried(p, k).step = "refund"
    BY <1>0 DEF Untried, PassRecord
  <2>2. passes' = [passes EXCEPT ![p] = Untried(p, k)]
    BY <1>9 DEF ContractRefuses, ContractUnreachable, AnswerLost
  <2>3. faults' \in 0 .. MaxFaults /\ UNCHANGED <<rows, requests, history, campaignStatus>>
    BY <1>0, <1>9, FaultType DEF ContractRefuses, ContractUnreachable, AnswerLost
  <2>. QED BY <1>0, <2>1, <2>2, <2>3, MovesAreQuiet DEF history
<1>. QED BY <1>3, <1>4, <1>5, <1>6, <1>7, <1>8, <1>9

LEMMA CrashIsQuiet ==
  ASSUME RefundsTypeOK, Crash
  PROVE  Quiet
<1> DEFINE stop == [Idle EXCEPT !.step = "stopped"]
<1>1. stop \in PassRecord /\ stop.step = "stopped"
  BY DEF Idle, PassRecord, Steps
<1>2. /\ passes' = [p \in Passes |-> IF p \in Running THEN stop ELSE passes[p]]
      /\ UNCHANGED <<rows, campaignStatus, requests, overlapped, contested>>
  BY DEF Crash, history
<1> HIDE DEF stop
<1>3. \A p \in Passes :
        /\ passes'[p] \in PassRecord
        /\ passes'[p].step \in {"mark", "queue"} => passes'[p] = passes[p]
  BY <1>1, <1>2 DEF RefundsTypeOK, PassRecord
<1>4. passes' \in [Passes -> PassRecord]
  BY <1>2, <1>3
<1>5. \A p \in Passes : passes'[p].step = "mark" => passes'[p].on \in Rows
  BY <1>3 DEF RefundsTypeOK, At
<1>6. faults' \in 0 .. MaxFaults
  BY FaultType DEF Crash
<1>7. RefundsTypeOK'
  BY <1>2, <1>4, <1>5, <1>6 DEF RefundsTypeOK, PassRecord, At
<1>. QED BY <1>2, <1>3, <1>7 DEF Quiet

(* Quiet steps keep the invariant.                                          *)
LEMMA QuietKeeps ==
  ASSUME RefundsInv, [Next]_vars, Quiet
  PROVE  MarksAreEarned' /\ OneMarkEach' /\ ListedOnce'
<1>0. /\ IInv /\ MarksAreEarned /\ OneMarkEach /\ ListedOnce /\ RefundsTypeOK
      /\ \A k \in Rows : SenderOf[k] \in Contributors
      /\ \A p \in AtMark : passes[p].on \in Rows
  BY RowsAssumption DEF RefundsInv, RefundsTypeOK, AtMark
<1>1. \A p \in AtMark' : p \in AtMark /\ passes'[p].on = passes[p].on
  BY DEF Quiet, AtMark, At
<1>2. \A p \in Passes : passes'[p].step = "queue" => /\ passes[p].step = "queue"
                                                     /\ passes'[p].todo = passes[p].todo
  BY DEF Quiet
<1>3. \A k \in Rows : rows'[k] = "refunded" => rows[k] = "refunded"
  BY DEF Quiet
<1>4. MarksAreEarned'
  <2>1. ASSUME NEW k \in Rows, rows'[k] = "refunded" PROVE Settled(SenderOf[k])'
    BY <1>0, <1>3, <2>1, SettledLasts DEF MarksAreEarned
  <2>2. ASSUME NEW p \in AtMark' PROVE Settled(SenderAtMark(p))'
    <3>1. p \in AtMark /\ passes'[p].on = passes[p].on /\ passes[p].on \in Rows
      BY <1>0, <1>1
    <3>2. PICK c \in Contributors : c = SenderOf[passes[p].on]
      BY <1>0, <3>1
    <3>3. Settled(c)'
      BY <1>0, <3>1, <3>2, SettledLasts DEF MarksAreEarned, SenderAtMark
    <3>4. c = SenderAtMark(p)'
      BY <3>1, <3>2 DEF SenderAtMark
    <3>. QED BY <3>3, <3>4 DEF Settled
  <2>. QED BY <2>1, <2>2 DEF MarksAreEarned
<1>5. OneMarkEach'
  BY <1>0, <1>1, <1>3 DEF OneMarkEach, SenderAtMark
<1>6. ListedOnce'
  BY <1>0, <1>2 DEF Quiet, ListedOnce, At
<1>. QED BY <1>4, <1>5, <1>6

---------------------------------------------------------------------------
(* The lists are kept when none is added and no request is written.         *)
LEMMA ListsKept ==
  ASSUME ListedOnce, UNCHANGED <<requests, overlapped>>,
         \A p \in Passes : passes'[p].step = "queue" => passes'[p] = passes[p]
  PROVE  ListedOnce'
BY DEF ListedOnce, At

(* The escrow's answer belongs to one pass, and its sender had none before. *)
LEMMA PaymentKeeps ==
  ASSUME RefundsInv, NEW p \in Passes, NEW k \in Rows, ContractPays(p, k)
  PROVE  RefundsTypeOK' /\ MarksAreEarned' /\ OneMarkEach' /\ ListedOnce'
<1> DEFINE r == [Untried(p, k) EXCEPT !.step = "mark", !.on = k]
<1>0. /\ IInv /\ MarksAreEarned /\ OneMarkEach /\ ListedOnce /\ RefundsTypeOK
      /\ \A l \in Rows : SenderOf[l] \in Contributors
      /\ \A q \in AtMark : q \in Passes /\ passes[q].on \in Rows
  BY RowsAssumption DEF RefundsInv, RefundsTypeOK, AtMark
<1>1. PICK c \in Contributors : c = SenderOf[k]
  BY <1>0
<1>2. Refund(c) /\ [Next]_vars
  BY <1>1 DEF ContractPays, Next, MoveFunds
<1>3. ~Settled(c) /\ Settled(c)'
  BY <1>0, <1>2, RefundSettles
<1>4. /\ passes' = [passes EXCEPT ![p] = r]
      /\ UNCHANGED <<rows, campaignStatus, requests, faults, overlapped, contested>>
      /\ passes[p].step = "refund"
  BY DEF ContractPays, At, history
<1>5. r \in PassRecord /\ r.step = "mark" /\ r.on = k
  <2>1. Untried(p, k) \in PassRecord
    BY <1>0 DEF Untried, RefundsTypeOK, PassRecord, Steps
  <2>2. "mark" \in Steps /\ k \in Rows \cup {None}
    BY DEF Steps
  <2>. QED BY <2>1, <2>2 DEF PassRecord
<1>6. /\ passes' \in [Passes -> PassRecord]
      /\ passes'[p] = r
      /\ \A q \in Passes \ {p} : passes'[q] = passes[q]
  <2> HIDE DEF r
  <2>. QED BY <1>0, <1>4, <1>5, PassMoves
<1> HIDE DEF r
<1>7. RefundsTypeOK'
  BY <1>0, <1>4, <1>5, <1>6 DEF RefundsTypeOK, PassRecord, At
<1>8. \A q \in AtMark' : \/ q = p /\ passes'[q].on = k
                         \/ /\ q # p /\ q \in AtMark
                            /\ passes'[q].on = passes[q].on /\ passes[q].on \in Rows
  BY <1>0, <1>5, <1>6 DEF AtMark, At
<1>9. /\ \A l \in Rows : rows[l] = "refunded" => SenderOf[l] # c
      /\ \A q \in AtMark : SenderOf[passes[q].on] # c
  BY <1>0, <1>3 DEF MarksAreEarned, SenderAtMark
<1>10. MarksAreEarned'
  <2>1. ASSUME NEW l \in Rows, rows'[l] = "refunded" PROVE Settled(SenderOf[l])'
    BY <1>0, <1>2, <1>4, <2>1, SettledLasts DEF MarksAreEarned
  <2>2. ASSUME NEW q \in AtMark' PROVE Settled(SenderAtMark(q))'
    <3>1. CASE q = p /\ passes'[q].on = k
      <4>1. c = SenderAtMark(q)'
        BY <1>1, <3>1 DEF SenderAtMark
      <4>. QED BY <1>3, <4>1 DEF Settled
    <3>2. CASE q \in AtMark /\ passes'[q].on = passes[q].on /\ passes[q].on \in Rows
      <4>1. PICK d \in Contributors : d = SenderOf[passes[q].on]
        BY <1>0, <3>2
      <4>2. Settled(d)'
        BY <1>0, <1>2, <3>2, <4>1, SettledLasts DEF MarksAreEarned, SenderAtMark
      <4>3. d = SenderAtMark(q)'
        BY <3>2, <4>1 DEF SenderAtMark
      <4>. QED BY <4>2, <4>3 DEF Settled
    <3>. QED BY <1>8, <3>1, <3>2
  <2>. QED BY <2>1, <2>2 DEF MarksAreEarned
<1>11. OneMarkEach'
  BY <1>0, <1>1, <1>4, <1>8, <1>9 DEF OneMarkEach, SenderAtMark
<1>12. ListedOnce'
  BY <1>0, <1>4, <1>5, <1>6, ListsKept
<1>. QED BY <1>7, <1>10, <1>11, <1>12

(* The answer becomes the mark of its row.                                  *)
LEMMA MarkKeeps ==
  ASSUME RefundsInv, NEW p \in Passes, MarkRefunded(p)
  PROVE  RefundsTypeOK' /\ MarksAreEarned' /\ OneMarkEach' /\ ListedOnce'
<1> DEFINE r == [step |-> "refund", todo |-> passes[p].todo, on |-> None]
<1>0. /\ IInv /\ MarksAreEarned /\ OneMarkEach /\ ListedOnce /\ RefundsTypeOK
      /\ \A l \in Rows : SenderOf[l] \in Contributors
      /\ \A q \in AtMark : q \in Passes /\ passes[q].on \in Rows
  BY RowsAssumption DEF RefundsInv, RefundsTypeOK, AtMark
<1>1. PICK k \in Rows : k = passes[p].on
  BY <1>0 DEF MarkRefunded, AtMark
<1>2. /\ p \in AtMark
      /\ rows' = [rows EXCEPT ![k] = "refunded"]
      /\ UNCHANGED <<vars, campaignStatus, requests, faults, overlapped, contested>>
  BY <1>1 DEF MarkRefunded, AtMark, history
<1>3. r \in PassRecord /\ passes' = [passes EXCEPT ![p] = r]
  <2>1. passes[p].todo \in SUBSET Rows /\ "refund" \in Steps
    BY <1>0 DEF RefundsTypeOK, Steps
  <2>. QED BY <1>0, <2>1, GoingWith DEF MarkRefunded
<1>4. r.step = "refund"
  OBVIOUS
<1> HIDE DEF r
<1>5. /\ passes' \in [Passes -> PassRecord]
      /\ passes'[p] = r
      /\ \A q \in Passes \ {p} : passes'[q] = passes[q]
  BY <1>0, <1>3, PassMoves
<1>6. RefundsTypeOK'
  BY <1>0, <1>2, <1>4, <1>5 DEF RefundsTypeOK, PassRecord, At
<1>7. \A q \in AtMark' : /\ q # p /\ q \in AtMark
                         /\ passes'[q].on = passes[q].on
  BY <1>4, <1>5 DEF AtMark, At
<1>8. \A l \in Rows : rows'[l] = "refunded" => l = k \/ rows[l] = "refunded"
  BY <1>0, <1>2 DEF RefundsTypeOK
<1>9. \A c \in Contributors : Settled(c) => Settled(c)'
  <2>1. [Next]_vars
    BY <1>2
  <2>. QED BY <1>0, <2>1, SettledLasts
<1>10. MarksAreEarned'
  <2>1. ASSUME NEW l \in Rows, rows'[l] = "refunded" PROVE Settled(SenderOf[l])'
    BY <1>0, <1>1, <1>2, <1>8, <1>9, <2>1 DEF MarksAreEarned, SenderAtMark
  <2>2. ASSUME NEW q \in AtMark' PROVE Settled(SenderAtMark(q))'
    <3>1. PICK d \in Contributors : d = SenderOf[passes[q].on]
      BY <1>0, <1>7
    <3>2. Settled(d)'
      BY <1>0, <1>7, <1>9, <3>1 DEF MarksAreEarned, SenderAtMark
    <3>3. d = SenderAtMark(q)'
      BY <1>7, <3>1 DEF SenderAtMark
    <3>. QED BY <3>2, <3>3 DEF Settled
  <2>. QED BY <2>1, <2>2 DEF MarksAreEarned
<1>11. OneMarkEach'
  BY <1>0, <1>1, <1>2, <1>7, <1>8 DEF OneMarkEach, SenderAtMark
<1>12. ListedOnce'
  BY <1>0, <1>2, <1>4, <1>5, ListsKept
<1>. QED BY <1>6, <1>10, <1>11, <1>12

(* Steps that leave the escrow, the rows and every pass at its mark alone.  *)
LEMMA MarksKept ==
  ASSUME RefundsInv, UNCHANGED <<vars, rows>>,
         \A p \in Passes : passes'[p].step = "mark" => passes'[p] = passes[p]
  PROVE  MarksAreEarned' /\ OneMarkEach'
<1>1. UNCHANGED <<isRefunding, contributed, balances>>
  BY DEF vars, refunds, deposits
<1>2. \A p \in AtMark' : p \in AtMark /\ passes'[p].on = passes[p].on
  BY DEF AtMark, At
<1>3. MarksAreEarned'
  BY <1>1, <1>2 DEF RefundsInv, MarksAreEarned, SenderAtMark, Settled
<1>4. OneMarkEach'
  BY <1>2 DEF RefundsInv, OneMarkEach, SenderAtMark
<1>. QED BY <1>3, <1>4

(* A pass lists the rows left.  A second list makes the two overlap.        *)
LEMMA ListKeeps ==
  ASSUME RefundsInv, NEW p \in Passes, SelectLeft(p)
  PROVE  RefundsTypeOK' /\ MarksAreEarned' /\ OneMarkEach' /\ ListedOnce'
<1> DEFINE s == IF Left = {} THEN "done" ELSE "queue"
           r == [step |-> s, todo |-> Left, on |-> None]
<1>0. RefundsTypeOK /\ ListedOnce
  BY DEF RefundsInv
<1>1. Left \in SUBSET Rows /\ \A k \in Left : requests[k] = 0
  BY DEF Left, Unrefunded
<1>2. r \in PassRecord /\ passes' = [passes EXCEPT ![p] = r]
  <2>1. s \in Steps
    BY DEF Steps
  <2>. QED BY <1>0, <1>1, <2>1, GoingWith DEF SelectLeft
<1>3. r.step \in {"done", "queue"} /\ r.todo = Left
  OBVIOUS
<1> HIDE DEF s, r
<1>4. /\ passes' \in [Passes -> PassRecord]
      /\ passes'[p] = r
      /\ \A q \in Passes \ {p} : passes'[q] = passes[q]
  BY <1>0, <1>2, PassMoves
<1>5. /\ UNCHANGED <<vars, rows, campaignStatus, requests, faults>>
      /\ overlapped' = (overlapped \/ \E q \in Passes \ {p} : At(q, "queue"))
      /\ contested' \in SUBSET Rows
  BY <1>0 DEF SelectLeft, WithEscrow, RefundsTypeOK
<1>6. RefundsTypeOK'
  BY <1>0, <1>3, <1>4, <1>5 DEF RefundsTypeOK, PassRecord, At
<1>7. MarksAreEarned' /\ OneMarkEach'
  BY <1>3, <1>4, <1>5, MarksKept
<1>8. ListedOnce'
  <2> SUFFICES ASSUME ~overlapped'
               PROVE  /\ \A k \in Rows : requests'[k] <= 1
                      /\ \A q, t \in Passes :
                           passes'[q].step = "queue" /\ passes'[t].step = "queue" => q = t
                      /\ \A q \in Passes :
                           passes'[q].step = "queue" =>
                             \A k \in passes'[q].todo : requests'[k] = 0
    BY DEF ListedOnce, At
  <2>1. ~overlapped /\ \A q \in Passes \ {p} : passes'[q].step # "queue"
    BY <1>4, <1>5 DEF At
  <2>2. \A k \in Rows : requests'[k] <= 1
    BY <1>0, <1>5, <2>1 DEF ListedOnce
  <2>3. \A q \in Passes :
          passes'[q].step = "queue" => \A k \in passes'[q].todo : requests'[k] = 0
    BY <1>1, <1>3, <1>4, <1>5, <2>1
  <2>. QED BY <2>1, <2>2, <2>3
<1>. QED BY <1>6, <1>7, <1>8

(* A pass queues the rows it listed.                                        *)
LEMMA QueueKeeps ==
  ASSUME RefundsInv, NEW p \in Passes, QueueRequests(p)
  PROVE  RefundsTypeOK' /\ MarksAreEarned' /\ OneMarkEach' /\ ListedOnce'
<1> DEFINE r == [step |-> "done", todo |-> {}, on |-> None]
<1>0. /\ RefundsTypeOK /\ ListedOnce /\ passes[p].step = "queue"
      /\ requests \in [Rows -> Nat]
  BY DEF RefundsInv, QueueRequests, At, RefundsTypeOK
<1>1. r \in PassRecord /\ passes' = [passes EXCEPT ![p] = r]
  <2>1. "done" \in Steps /\ {} \in SUBSET Rows
    BY DEF Steps
  <2>. QED BY <1>0, <2>1, GoingWith DEF QueueRequests
<1>2. r.step = "done"
  OBVIOUS
<1> HIDE DEF r
<1>3. /\ passes' \in [Passes -> PassRecord]
      /\ passes'[p] = r
      /\ \A q \in Passes \ {p} : passes'[q] = passes[q]
  BY <1>0, <1>1, PassMoves
<1>4. /\ UNCHANGED <<vars, rows, campaignStatus, faults, overlapped, contested>>
      /\ requests' = [k \in Rows |-> IF k \in passes[p].todo THEN requests[k] + 1
                                                             ELSE requests[k]]
  BY DEF QueueRequests, history
<1>5. requests' \in [Rows -> Nat]
  BY <1>0, <1>4
<1>6. RefundsTypeOK'
  BY <1>0, <1>2, <1>3, <1>4, <1>5 DEF RefundsTypeOK, PassRecord, At
<1>7. MarksAreEarned' /\ OneMarkEach'
  BY <1>2, <1>3, <1>4, MarksKept
<1>8. ListedOnce'
  <2> SUFFICES ASSUME ~overlapped
               PROVE  /\ \A k \in Rows : requests'[k] <= 1
                      /\ \A q \in Passes : passes'[q].step # "queue"
    BY <1>4 DEF ListedOnce, At
  <2>1. /\ \A k \in Rows : requests[k] <= 1
        /\ \A q \in Passes : passes[q].step = "queue" => q = p
        /\ \A k \in passes[p].todo : requests[k] = 0
    BY <1>0 DEF ListedOnce, At
  <2>2. \A k \in Rows : requests'[k] <= 1
    BY <1>0, <1>4, <2>1
  <2>3. \A q \in Passes : passes'[q].step # "queue"
    BY <1>2, <1>3, <2>1
  <2>. QED BY <2>2, <2>3
<1>. QED BY <1>6, <1>7, <1>8

---------------------------------------------------------------------------
LEMMA InitRefundsInv == RefundsInit => RefundsInv
<1> SUFFICES ASSUME RefundsInit PROVE RefundsInv
  OBVIOUS
<1>1. IInv /\ DeskInit
  BY InitIInv DEF RefundsInit
<1>2. /\ passes = [p \in Passes |-> Idle] /\ rows = [k \in Rows |-> "none"]
      /\ requests = [k \in Rows |-> 0]
  BY <1>1 DEF DeskInit
<1>3. Idle \in PassRecord /\ Idle.step = "idle"
  BY DEF Idle, PassRecord, Steps
<1>4. RefundsTypeOK
  <2>1. passes \in [Passes -> PassRecord] /\ \A p \in Passes : passes[p].step = "idle"
    BY <1>2, <1>3
  <2>2. rows \in [Rows -> {"none"}] /\ requests \in [Rows -> Nat]
    BY <1>2
  <2>3. /\ campaignStatus = "active" /\ faults = 0 /\ overlapped \in BOOLEAN
        /\ contested \in SUBSET Rows
    BY <1>1, Zenon DEF DeskInit
  <2>4. faults \in 0 .. MaxFaults
    BY <2>3, FaultsAssumption
  <2>. QED BY <2>1, <2>2, <2>3, <2>4 DEF RefundsTypeOK, PassRecord, At
<1>5. AtMark = {} /\ \A p \in Passes : ~At(p, "queue")
  BY <1>2, <1>3 DEF AtMark, At
<1>6. MarksAreEarned /\ OneMarkEach
  BY <1>2, <1>5 DEF MarksAreEarned, OneMarkEach
<1>7. ListedOnce
  BY <1>2, <1>5 DEF ListedOnce
<1>. QED BY <1>1, <1>4, <1>6, <1>7 DEF RefundsInv

LEMMA NextRefundsInv == RefundsInv /\ [RefundsNext]_refundsVars => RefundsInv'
<1> SUFFICES ASSUME RefundsInv, [RefundsNext]_refundsVars PROVE RefundsInv'
  OBVIOUS
<1>1. [Next]_vars /\ RefundsTypeOK
  BY DeskMovesEscrow DEF RefundsInv
<1>2. IInv'
  BY <1>1, NextIInv DEF RefundsInv
<1>3. ASSUME Quiet PROVE RefundsInv'
  BY <1>1, <1>2, <1>3, QuietKeeps DEF RefundsInv, Quiet
<1>4. ASSUME NEW p \in Passes, NEW k \in Rows, ContractPays(p, k)
      PROVE  RefundsInv'
  BY <1>2, <1>4, PaymentKeeps DEF RefundsInv
<1>5. ASSUME NEW p \in Passes, MarkRefunded(p) \/ SelectLeft(p) \/ QueueRequests(p)
      PROVE  RefundsInv'
  BY <1>2, <1>5, MarkKeeps, ListKeeps, QueueKeeps DEF RefundsInv
<1>6. ASSUME \/ ContractStep \/ UNCHANGED refundsVars \/ Crash
             \/ \E k \in Rows : Pay(k) \/ Record(k)
      PROVE  RefundsInv'
  BY <1>1, <1>3, <1>6, OthersAreQuiet, PaymentsAreQuiet, CrashIsQuiet
<1>7. ASSUME \/ FailCampaign \/ Notify \/ NotifyFails
             \/ \E a \in Admins : TriggerRefunds(a)
             \/ \E p \in Passes :
                  \/ ReadCampaign(p) \/ SelectUnrefunded(p) \/ SelectFails(p)
                  \/ MarkFails(p) \/ AllTried(p) \/ QueryFails(p)
                  \/ \E k \in Rows : \/ ContractRefuses(p, k)
                                     \/ ContractUnreachable(p, k)
                                     \/ AnswerLost(p, k)
      PROVE  RefundsInv'
  BY <1>1, <1>3, <1>7, NamedStepsAreQuiet
<1>. QED BY <1>4, <1>5, <1>6, <1>7 DEF RefundsNext, DeskNext, PassStep, PassFails

THEOREM RefundsInvariance == RefundsSpec => []RefundsInv
BY InitRefundsInv, NextRefundsInv, PTL DEF RefundsSpec

(* The tables and the passes keep their types. *)
THEOREM RefundsTypeCorrect == RefundsSpec => []RefundsTypeOK
<1>1. RefundsInv => RefundsTypeOK
  BY DEF RefundsInv
<1>. QED BY <1>1, RefundsInvariance, PTL

(***************************************************************************)
(* Escrow and queue.  A row gets to the escrow or to the queue only when a  *)
(* pass selects it; every other step leaves it where it is or takes it      *)
(* away.  The rows selected for the one while with the other are contested. *)
(***************************************************************************)
OneWayBook == WithEscrow \cap WithQueue \subseteq contested

LEMMA OneWayKept ==
  ASSUME OneWayBook, contested' = contested,
         WithEscrow' \subseteq WithEscrow, WithQueue' \subseteq WithQueue
  PROVE  OneWayBook'
BY DEF OneWayBook

(* A row that no pass adds to what it tries or lists does not come in.      *)
LEMMA EscrowNarrows ==
  ASSUME \A k \in Rows : rows'[k] = "refunded" => k \in WithEscrow,
         \A p \in Passes : Trying(passes'[p]) \subseteq WithEscrow
  PROVE  WithEscrow' \subseteq WithEscrow
<1>1. ASSUME NEW k \in WithEscrow' PROVE k \in WithEscrow
  <2>1. k \in Rows /\ (rows'[k] = "refunded" \/ \E p \in Passes : k \in Trying(passes'[p]))
    BY <1>1 DEF WithEscrow, Trying
  <2>. QED BY <2>1
<1>. QED BY <1>1

LEMMA QueueNarrows ==
  ASSUME \A k \in Rows : requests'[k] > 0 => k \in WithQueue,
         \A p \in Passes : Listed(passes'[p]) \subseteq WithQueue
  PROVE  WithQueue' \subseteq WithQueue
<1>1. ASSUME NEW k \in WithQueue' PROVE k \in WithQueue
  <2>1. k \in Rows /\ (requests'[k] > 0 \/ \E p \in Passes : k \in Listed(passes'[p]))
    BY <1>1 DEF WithQueue, Listed
  <2>. QED BY <2>1
<1>. QED BY <1>1

LEMMA InEscrow ==
  ASSUME NEW p \in Passes
  PROVE  Trying(passes[p]) \subseteq WithEscrow
BY DEF WithEscrow, Trying

LEMMA InQueue ==
  ASSUME NEW p \in Passes
  PROVE  Listed(passes[p]) \subseteq WithQueue
BY DEF WithQueue, Listed

(* One pass moves on with rows it had, and writes none to the tables.       *)
LEMMA PassNarrows ==
  ASSUME RefundsTypeOK, OneWayBook, NEW p \in Passes, NEW r \in PassRecord,
         passes' = [passes EXCEPT ![p] = r], UNCHANGED <<rows, requests, contested>>,
         Trying(r) \subseteq Trying(passes[p]), Listed(r) \subseteq Listed(passes[p])
  PROVE  OneWayBook'
<1>1. /\ passes'[p] = r
      /\ \A q \in Passes \ {p} : passes'[q] = passes[q]
  BY PassMoves
<1>2. \A q \in Passes : Trying(passes'[q]) \subseteq WithEscrow
  BY <1>1, InEscrow
<1>3. \A q \in Passes : Listed(passes'[q]) \subseteq WithQueue
  BY <1>1, InQueue
<1>4. WithEscrow' \subseteq WithEscrow
  <2>1. \A k \in Rows : rows'[k] = "refunded" => k \in WithEscrow
    BY DEF WithEscrow
  <2>. QED BY <1>2, <2>1, EscrowNarrows
<1>5. WithQueue' \subseteq WithQueue
  <2>1. \A k \in Rows : requests'[k] > 0 => k \in WithQueue
    BY DEF WithQueue
  <2>. QED BY <1>3, <2>1, QueueNarrows
<1>. QED BY <1>4, <1>5, OneWayKept

(* Where a pass holds rows neither for the escrow nor for the queue.        *)
LEMMA HoldsNone ==
  ASSUME NEW r, r.step \notin {"refund", "mark", "queue"}
  PROVE  Trying(r) = {} /\ Listed(r) = {}
BY DEF Trying, Listed

LEMMA PaymentsOneWay ==
  ASSUME RefundsTypeOK, OneWayBook,
         \/ ContractStep \/ UNCHANGED refundsVars
         \/ \E k \in Rows : Pay(k) \/ Record(k)
  PROVE  OneWayBook'
<1>1. UNCHANGED <<requests, passes, contested>>
  BY DEF ContractStep, refundsVars, desk, Pay, Record, history
<1>2. \A k \in Rows : rows'[k] = "refunded" => rows[k] = "refunded"
  BY DEF ContractStep, refundsVars, desk, Pay, Record, RefundsTypeOK
<1>3. WithEscrow' \subseteq WithEscrow
  <2>1. \A k \in Rows : rows'[k] = "refunded" => k \in WithEscrow
    BY <1>2 DEF WithEscrow
  <2>2. \A p \in Passes : Trying(passes'[p]) \subseteq WithEscrow
    BY <1>1, InEscrow
  <2>. QED BY <2>1, <2>2, EscrowNarrows
<1>4. WithQueue' \subseteq WithQueue
  BY <1>1 DEF WithQueue, Listed
<1>. QED BY <1>1, <1>3, <1>4, OneWayKept

(* Every pass stops with nothing in hand.                                   *)
LEMMA CrashOneWay ==
  ASSUME OneWayBook, Crash
  PROVE  OneWayBook'
<1>1. /\ \A p \in Passes : \/ passes'[p].step = "stopped"
                           \/ passes'[p] = passes[p]
      /\ UNCHANGED <<rows, requests, contested>>
  BY DEF Crash, history, Idle
<1>2. \A p \in Passes : /\ Trying(passes'[p]) \subseteq WithEscrow
                        /\ Listed(passes'[p]) \subseteq WithQueue
  <2>1. ASSUME NEW p \in Passes, passes'[p].step = "stopped"
        PROVE  Trying(passes'[p]) = {} /\ Listed(passes'[p]) = {}
    BY <2>1 DEF Trying, Listed
  <2>. QED BY <1>1, <2>1, InEscrow, InQueue
<1>3. WithEscrow' \subseteq WithEscrow
  <2>1. \A k \in Rows : rows'[k] = "refunded" => k \in WithEscrow
    BY <1>1 DEF WithEscrow
  <2>. QED BY <1>2, <2>1, EscrowNarrows
<1>4. WithQueue' \subseteq WithQueue
  <2>1. \A k \in Rows : requests'[k] > 0 => k \in WithQueue
    BY <1>1 DEF WithQueue
  <2>. QED BY <1>2, <2>1, QueueNarrows
<1>. QED BY <1>1, <1>3, <1>4, OneWayKept

(* A pass goes from step to step with what it holds.                        *)
LEMMA GoingOneWay ==
  ASSUME RefundsTypeOK, OneWayBook, NEW p \in Passes, NEW s \in Steps,
         s \notin {"refund", "mark", "queue"}, Goto(p, s),
         UNCHANGED <<rows, requests, contested>>
  PROVE  OneWayBook'
<1> DEFINE r == [passes[p] EXCEPT !.step = s]
<1>1. r \in PassRecord /\ passes' = [passes EXCEPT ![p] = r]
  BY Going
<1>2. r.step = s
  BY DEF RefundsTypeOK
<1> HIDE DEF r
<1>3. Trying(r) = {} /\ Listed(r) = {}
  BY <1>2, HoldsNone
<1>. QED BY <1>1, <1>3, PassNarrows

LEMMA GoingWithOneWay ==
  ASSUME RefundsTypeOK, OneWayBook, NEW p \in Passes, NEW s \in Steps,
         NEW t \in SUBSET Rows, s \notin {"refund", "mark", "queue"},
         GotoWith(p, s, t), UNCHANGED <<rows, requests, contested>>
  PROVE  OneWayBook'
<1> DEFINE r == [step |-> s, todo |-> t, on |-> None]
<1>1. r \in PassRecord /\ passes' = [passes EXCEPT ![p] = r]
  BY GoingWith
<1>2. r.step = s
  OBVIOUS
<1> HIDE DEF r
<1>3. Trying(r) = {} /\ Listed(r) = {}
  BY <1>2, HoldsNone
<1>. QED BY <1>1, <1>3, PassNarrows

(* Steps of a pass that select nothing and write no request.                *)
LEMMA StepsOneWay ==
  ASSUME RefundsTypeOK, OneWayBook,
         \/ FailCampaign \/ Notify \/ NotifyFails
         \/ \E a \in Admins : TriggerRefunds(a)
         \/ \E p \in Passes :
              ReadCampaign(p) \/ SelectFails(p) \/ AllTried(p) \/ QueryFails(p)
  PROVE  OneWayBook'
<1> USE DEF Steps, history
<1>1. CASE FailCampaign
  BY <1>1, GoingOneWay DEF FailCampaign, Passes
<1>2. CASE Notify
  BY <1>2, GoingOneWay DEF Notify, Passes
<1>3. CASE NotifyFails
  BY <1>3, GoingOneWay DEF NotifyFails, Passes
<1>4. ASSUME NEW a \in Admins, TriggerRefunds(a) PROVE OneWayBook'
  BY <1>4, GoingOneWay DEF TriggerRefunds, Passes
<1>5. ASSUME NEW p \in Passes, ReadCampaign(p) \/ SelectFails(p) \/ AllTried(p)
      PROVE  OneWayBook'
  BY <1>5, GoingOneWay DEF ReadCampaign, SelectFails, AllTried
<1>6. ASSUME NEW p \in Passes, QueryFails(p) PROVE OneWayBook'
  BY <1>6, GoingWithOneWay DEF QueryFails
<1>. QED BY <1>1, <1>2, <1>3, <1>4, <1>5, <1>6

(* The escrow's answer, or its loss: the row stays tried or is dropped.     *)
LEMMA AnswersOneWay ==
  ASSUME RefundsTypeOK, OneWayBook, NEW p \in Passes, NEW k \in Rows,
         \/ ContractPays(p, k) \/ AnswerLost(p, k)
         \/ ContractRefuses(p, k) \/ ContractUnreachable(p, k)
  PROVE  OneWayBook'
<1> DEFINE r == IF ContractPays(p, k)
                THEN [Untried(p, k) EXCEPT !.step = "mark", !.on = k]
                ELSE Untried(p, k)
<1>1. passes[p].step = "refund" /\ k \in passes[p].todo /\ passes[p].todo \in SUBSET Rows
  BY DEF ContractPays, AnswerLost, ContractRefuses, ContractUnreachable, At, RefundsTypeOK
<1>2. /\ passes' = [passes EXCEPT ![p] = r]
      /\ UNCHANGED <<rows, requests, contested>>
  BY DEF ContractPays, AnswerLost, ContractRefuses, ContractUnreachable, history
<1>3. /\ r \in PassRecord /\ r.step \in {"refund", "mark"}
      /\ r.todo = passes[p].todo \ {k} /\ (r.step = "mark" => r.on = k)
  BY <1>1 DEF Untried, PassRecord, Steps
<1> HIDE DEF r
<1>4. Trying(r) \subseteq Trying(passes[p]) /\ Listed(r) = {}
  BY <1>1, <1>3 DEF Trying, Listed
<1>. QED BY <1>2, <1>3, <1>4, PassNarrows

(* A mark, written or not, ends what the pass had with the row.             *)
LEMMA MarkOneWay ==
  ASSUME RefundsTypeOK, OneWayBook, NEW p \in Passes, MarkRefunded(p) \/ MarkFails(p)
  PROVE  OneWayBook'
<1> DEFINE r == [step |-> "refund", todo |-> passes[p].todo, on |-> None]
<1>1. /\ passes[p].step = "mark" /\ passes[p].on \in Rows /\ passes[p].todo \in SUBSET Rows
      /\ rows \in [Rows -> {"none", "paid", "recorded", "refunded"}]
  BY DEF MarkRefunded, MarkFails, At, RefundsTypeOK
<1>2. r \in PassRecord /\ passes' = [passes EXCEPT ![p] = r]
  <2>1. "refund" \in Steps
    BY DEF Steps
  <2>. QED BY <1>1, <2>1, GoingWith DEF MarkRefunded, MarkFails
<1>3. r.step = "refund" /\ r.todo = passes[p].todo
  OBVIOUS
<1> HIDE DEF r
<1>4. UNCHANGED <<requests, contested>>
  BY DEF MarkRefunded, MarkFails, history
<1>5. \A k \in Rows : rows'[k] = "refunded" => rows[k] = "refunded" \/ k = passes[p].on
  BY <1>1 DEF MarkRefunded, MarkFails
<1>6. /\ passes'[p] = r
      /\ \A q \in Passes \ {p} : passes'[q] = passes[q]
  BY <1>2, PassMoves
<1>7. Trying(r) \subseteq Trying(passes[p]) /\ Listed(r) = {}
  BY <1>1, <1>3 DEF Trying, Listed
<1>8. WithEscrow' \subseteq WithEscrow
  <2>1. \A k \in Rows : rows'[k] = "refunded" => k \in WithEscrow
    <3>1. passes[p].on \in Trying(passes[p])
      BY <1>1 DEF Trying
    <3>. QED BY <1>5, <3>1, InEscrow DEF WithEscrow
  <2>2. \A q \in Passes : Trying(passes'[q]) \subseteq WithEscrow
    BY <1>6, <1>7, InEscrow
  <2>. QED BY <2>1, <2>2, EscrowNarrows
<1>9. WithQueue' \subseteq WithQueue
  <2>1. \A k \in Rows : requests'[k] > 0 => k \in WithQueue
    BY <1>4 DEF WithQueue
  <2>2. \A q \in Passes : Listed(passes'[q]) \subseteq WithQueue
    BY <1>6, <1>7, InQueue
  <2>. QED BY <2>1, <2>2, QueueNarrows
<1>. QED BY <1>4, <1>8, <1>9, OneWayKept

(* The requests written are for the rows listed.                            *)
LEMMA QueueOneWay ==
  ASSUME RefundsTypeOK, OneWayBook, NEW p \in Passes, QueueRequests(p)
  PROVE  OneWayBook'
<1> DEFINE r == [step |-> "done", todo |-> {}, on |-> None]
<1>1. /\ passes[p].step = "queue"
      /\ UNCHANGED <<rows, contested>>
      /\ requests' = [k \in Rows |-> IF k \in passes[p].todo THEN requests[k] + 1
                                                             ELSE requests[k]]
  BY DEF QueueRequests, At, history
<1>2. r \in PassRecord /\ passes' = [passes EXCEPT ![p] = r]
  <2>1. "done" \in Steps /\ {} \in SUBSET Rows
    BY DEF Steps
  <2>. QED BY <2>1, GoingWith DEF QueueRequests
<1>3. r.step = "done"
  OBVIOUS
<1> HIDE DEF r
<1>4. /\ passes'[p] = r
      /\ \A q \in Passes \ {p} : passes'[q] = passes[q]
  BY <1>2, PassMoves
<1>5. Trying(r) = {} /\ Listed(r) = {}
  BY <1>3, HoldsNone
<1>6. WithEscrow' \subseteq WithEscrow
  <2>1. \A k \in Rows : rows'[k] = "refunded" => k \in WithEscrow
    BY <1>1 DEF WithEscrow
  <2>2. \A q \in Passes : Trying(passes'[q]) \subseteq WithEscrow
    BY <1>4, <1>5, InEscrow
  <2>. QED BY <2>1, <2>2, EscrowNarrows
<1>7. WithQueue' \subseteq WithQueue
  <2>1. ASSUME NEW k \in Rows, requests'[k] > 0 PROVE k \in WithQueue
    <3>1. CASE k \in passes[p].todo
      <4>1. k \in Listed(passes[p])
        BY <1>1, <3>1 DEF Listed
      <4>. QED BY <4>1, InQueue
    <3>2. CASE k \notin passes[p].todo
      BY <1>1, <2>1, <3>2 DEF WithQueue
    <3>. QED BY <3>1, <3>2
  <2>2. \A q \in Passes : Listed(passes'[q]) \subseteq WithQueue
    BY <1>4, <1>5, InQueue
  <2>. QED BY <2>1, <2>2, QueueNarrows
<1>. QED BY <1>1, <1>6, <1>7, OneWayKept

(* A pass selects rows for the escrow; those with the queue are contested.  *)
LEMMA UnrefundedOneWay ==
  ASSUME RefundsTypeOK, OneWayBook, NEW p \in Passes, SelectUnrefunded(p)
  PROVE  OneWayBook'
<1> DEFINE r == [step |-> "refund", todo |-> Unrefunded, on |-> None]
<1>1. /\ UNCHANGED <<rows, requests>>
      /\ contested' = contested \cup (Unrefunded \cap WithQueue)
  BY DEF SelectUnrefunded
<1>2. r \in PassRecord /\ passes' = [passes EXCEPT ![p] = r]
  <2>1. "refund" \in Steps /\ Unrefunded \in SUBSET Rows
    BY DEF Steps, Unrefunded
  <2>. QED BY <2>1, GoingWith DEF SelectUnrefunded
<1>3. Trying(r) \subseteq Unrefunded /\ Listed(r) = {}
  BY DEF Trying, Listed
<1> HIDE DEF r
<1>4. /\ passes'[p] = r
      /\ \A q \in Passes \ {p} : passes'[q] = passes[q]
  BY <1>2, PassMoves
<1>5. WithQueue' \subseteq WithQueue
  <2>1. \A k \in Rows : requests'[k] > 0 => k \in WithQueue
    BY <1>1 DEF WithQueue
  <2>2. \A q \in Passes : Listed(passes'[q]) \subseteq WithQueue
    BY <1>3, <1>4, InQueue
  <2>. QED BY <2>1, <2>2, QueueNarrows
<1>6. ASSUME NEW k \in WithEscrow' PROVE k \in WithEscrow \/ k \in Unrefunded
  <2>1. k \in Rows /\ (rows'[k] = "refunded" \/ \E q \in Passes : k \in Trying(passes'[q]))
    BY <1>6 DEF WithEscrow, Trying
  <2>2. CASE rows'[k] = "refunded"
    BY <1>1, <2>1, <2>2 DEF WithEscrow
  <2>3. ASSUME NEW q \in Passes, k \in Trying(passes'[q])
        PROVE  k \in WithEscrow \/ k \in Unrefunded
    <3>1. CASE q = p
      BY <1>3, <1>4, <2>3, <3>1
    <3>2. CASE q # p
      BY <1>4, <2>3, <3>2, InEscrow
    <3>. QED BY <3>1, <3>2
  <2>. QED BY <2>1, <2>2, <2>3
<1>. QED BY <1>1, <1>5, <1>6 DEF OneWayBook

(* A pass lists rows for the queue; those with the escrow are contested.    *)
LEMMA LeftOneWay ==
  ASSUME RefundsTypeOK, OneWayBook, NEW p \in Passes, SelectLeft(p)
  PROVE  OneWayBook'
<1> DEFINE s == IF Left = {} THEN "done" ELSE "queue"
           r == [step |-> s, todo |-> Left, on |-> None]
<1>1. /\ UNCHANGED <<rows, requests>>
      /\ contested' = contested \cup (Left \cap WithEscrow)
  BY DEF SelectLeft
<1>2. r \in PassRecord /\ passes' = [passes EXCEPT ![p] = r]
  <2>1. s \in Steps /\ Left \in SUBSET Rows
    BY DEF Steps, Left, Unrefunded
  <2>. QED BY <2>1, GoingWith DEF SelectLeft
<1>3. Trying(r) = {} /\ Listed(r) \subseteq Left
  BY DEF Trying, Listed
<1> HIDE DEF s, r
<1>4. /\ passes'[p] = r
      /\ \A q \in Passes \ {p} : passes'[q] = passes[q]
  BY <1>2, PassMoves
<1>5. WithEscrow' \subseteq WithEscrow
  <2>1. \A k \in Rows : rows'[k] = "refunded" => k \in WithEscrow
    BY <1>1 DEF WithEscrow
  <2>2. \A q \in Passes : Trying(passes'[q]) \subseteq WithEscrow
    BY <1>3, <1>4, InEscrow
  <2>. QED BY <2>1, <2>2, EscrowNarrows
<1>6. ASSUME NEW k \in WithQueue' PROVE k \in WithQueue \/ k \in Left
  <2>1. k \in Rows /\ (requests'[k] > 0 \/ \E q \in Passes : k \in Listed(passes'[q]))
    BY <1>6 DEF WithQueue, Listed
  <2>2. CASE requests'[k] > 0
    BY <1>1, <2>1, <2>2 DEF WithQueue
  <2>3. ASSUME NEW q \in Passes, k \in Listed(passes'[q])
        PROVE  k \in WithQueue \/ k \in Left
    <3>1. CASE q = p
      BY <1>3, <1>4, <2>3, <3>1
    <3>2. CASE q # p
      BY <1>4, <2>3, <3>2, InQueue
    <3>. QED BY <3>1, <3>2
  <2>. QED BY <2>1, <2>2, <2>3
<1>. QED BY <1>1, <1>5, <1>6 DEF OneWayBook

LEMMA NextOneWay == RefundsTypeOK /\ OneWayBook /\ [RefundsNext]_refundsVars => OneWayBook'
<1> SUFFICES ASSUME RefundsTypeOK, OneWayBook, [RefundsNext]_refundsVars
             PROVE  OneWayBook'
  OBVIOUS
<1>1. ASSUME NEW p \in Passes,
             \/ SelectUnrefunded(p) \/ SelectLeft(p) \/ QueueRequests(p)
             \/ MarkRefunded(p) \/ MarkFails(p)
      PROVE  OneWayBook'
  BY <1>1, UnrefundedOneWay, LeftOneWay, QueueOneWay, MarkOneWay
<1>2. ASSUME NEW p \in Passes, NEW k \in Rows,
             \/ ContractPays(p, k) \/ AnswerLost(p, k)
             \/ ContractRefuses(p, k) \/ ContractUnreachable(p, k)
      PROVE  OneWayBook'
  BY <1>2, AnswersOneWay
<1>3. ASSUME \/ FailCampaign \/ Notify \/ NotifyFails
             \/ \E a \in Admins : TriggerRefunds(a)
             \/ \E p \in Passes :
                  ReadCampaign(p) \/ SelectFails(p) \/ AllTried(p) \/ QueryFails(p)
      PROVE  OneWayBook'
  BY <1>3, StepsOneWay
<1>4. ASSUME \/ ContractStep \/ UNCHANGED refundsVars \/ Crash
             \/ \E k \in Rows : Pay(k) \/ Record(k)
      PROVE  OneWayBook'
  BY <1>4, PaymentsOneWay, CrashOneWay
<1>. QED BY <1>1, <1>2, <1>3, <1>4 DEF RefundsNext, DeskNext, PassStep, PassFails

LEMMA OneWayHolds == RefundsSpec => []OneWayBook
<1>1. RefundsInit => OneWayBook
  <2> SUFFICES ASSUME RefundsInit PROVE WithEscrow = {}
    BY DEF OneWayBook
  <2>1. /\ \A k \in Rows : rows[k] = "none"
        /\ \A p \in Passes : passes[p] = Idle
    BY DEF RefundsInit, DeskInit
  <2>. QED BY <2>1 DEF WithEscrow, Trying, Idle
<1>2. RefundsInv => RefundsTypeOK
  BY DEF RefundsInv
<1>. QED BY <1>1, <1>2, NextOneWay, RefundsInvariance, PTL DEF RefundsSpec

(* With any number of rows, contributors and passes: no row has two         *)
(* requests unless two passes listed it together, no contributor has two    *)
(* rows marked, or one that the escrow did not pay, and no row that is not  *)
(* contested is both marked and queued.                                     *)
THEOREM RowsAnsweredOnce == RefundsSpec => []AnsweredOnce
<1>1. ASSUME RefundsInv, OneWayBook PROVE AnsweredOnce
  <2>1. QueuedOnce
    BY <1>1 DEF RefundsInv, ListedOnce, QueuedOnce
  <2>2. ASSUME NEW c \in Contributors
        PROVE  /\ Cardinality(MarkedOf(c)) <= 1
               /\ MarkedOf(c) # {} => contributed[c] > 0 /\ balances[c] = 0
    <3>1. \A k, l \in MarkedOf(c) : k = l
      BY <1>1 DEF RefundsInv, OneMarkEach, MarkedOf
    <3>2. CASE MarkedOf(c) = {}
      BY <3>2, FS_EmptySet
    <3>3. CASE MarkedOf(c) # {}
      <4>1. PICK k \in MarkedOf(c) : MarkedOf(c) = {k}
        BY <3>1, <3>3
      <4>2. Cardinality(MarkedOf(c)) = 1
        BY <4>1, FS_Singleton
      <4>3. contributed[c] > 0 /\ balances[c] = 0
        BY <1>1 DEF RefundsInv, MarksAreEarned, Settled, MarkedOf
      <4>. QED BY <4>2, <4>3
    <3>. QED BY <3>2, <3>3
  <2>3. OneRemedy
    BY <1>1 DEF OneWayBook, WithEscrow, WithQueue, OneRemedy
  <2>. QED BY <2>1, <2>2, <2>3 DEF AnsweredOnce, MarkedOnce
<1>. QED BY <1>1, RefundsInvariance, OneWayHolds, PTL
=============================================================================
