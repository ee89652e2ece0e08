------------------------------ MODULE Escrow ------------------------------
(***************************************************************************)
(* The escrow contract that holds one campaign's contributions             *)
(* (contracts/soroban/contracts/escrow/src/lib.rs).                        *)
(*                                                                         *)
(* A contract call is one atomic step: it either runs to its end or        *)
(* panics, and a panic rolls back everything the call did.  An early       *)
(* `panic!` is therefore a guard.  The contract's clock is the ledger      *)
(* timestamp.  Its tokens are in the asset's own contract, of which only   *)
(* `held`, the balance of the escrow, matters here; a transfer panics when *)
(* the balance does not cover it.                                          *)
(***************************************************************************)
EXTENDS TokenSums

CONSTANTS
  Contributors,         \* the addresses that deposit
  Payees,               \* the destinations of withdrawals
  Admin,                \* the address passed to initialize as admin
  Signers,              \* who may sign an override or be configured for it
  MilestonesContracts,  \* the addresses set_milestones_contract may receive
  None,                 \* an address that is not configured
  Target, Deadline,     \* the arguments of initialize
  FeeInputs,            \* the fees, in basis points, a caller may ask for
  DepositAmounts, ReleaseAmounts, OverrideAmounts, DirectAmounts,
  TokenSupply,          \* bound: the tokens that can ever reach the escrow
  MaxApproved,          \* bound: the sum of outstanding approvals
  MaxTime               \* bound: the last ledger timestamp considered

MAX_FEE_BPS == 1000
BPS == 10000
NotSet == -1            \* a storage key that is absent

ASSUME PartiesAssumption ==
  IsFiniteSet(Contributors) /\ IsFiniteSet(Payees)
ASSUME InitializeAssumption ==
  Target \in Nat \ {0} /\ Deadline \in Nat
ASSUME AmountsAssumption ==
  /\ DepositAmounts \subseteq Int /\ ReleaseAmounts \subseteq Int
  /\ OverrideAmounts \subseteq Int /\ DirectAmounts \subseteq Nat
  /\ FeeInputs \subseteq Nat
ASSUME BoundsAssumption ==
  TokenSupply \in Nat /\ MaxApproved \in Nat /\ MaxTime \in Nat

VARIABLES
  now,                  \* env.ledger().timestamp()
  balances,             \* DataKey::Balances
  totalRaised,          \* DataKey::TotalRaised
  approvedFor,          \* DataKey::ApprovedWithdrawalFor
  approved,             \* DataKey::ApprovedWithdrawal
  campaignFailed,       \* DataKey::CampaignFailed
  isRefunding,          \* DataKey::IsRefunding
  refundPool,           \* DataKey::RefundPool
  refundBase,           \* DataKey::RefundBase
  feeBps,               \* DataKey::PlatformFeeBps
  pendingFee,           \* DataKey::PendingFeeBps
  milestonesContract,   \* DataKey::MilestonesContract
  secondSigner,         \* DataKey::SecondSigner
  held                  \* the escrow's balance in the asset contract

(* What happened so far; no operation reads these. *)
VARIABLES
  contributed,          \* what each contributor deposited in all
  direct,               \* what reached the escrow outside deposit
  refundPaid,           \* what each contributor was refunded
  withdrawn,            \* what execute_withdrawal released, fees included
  overridden,           \* what overrides took before the first refund
  drained,              \* what overrides took after the first refund
  feesPaid              \* what the platform received of both

settings == <<feeBps, pendingFee, milestonesContract, secondSigner>>
approvals == <<approvedFor, approved>>
refunds == <<isRefunding, refundPool, refundBase, refundPaid>>
outflows == <<withdrawn, overridden, drained, feesPaid>>
deposits == <<balances, totalRaised, contributed>>
vars == <<now, deposits, approvals, campaignFailed, refunds, settings,
          held, direct, outflows>>

---------------------------------------------------------------------------
IsCampaignFailed ==
  campaignFailed \/ (now > Deadline /\ totalRaised < Target)

Closed == IsCampaignFailed \/ isRefunding

(* The platform's part of a release; integer division rounds it down. *)
FeeOf(amount) == (amount * feeBps) \div BPS

LesserOf(a, b) == IF a < b THEN a ELSE b

---------------------------------------------------------------------------
(* initialize: the deadline is taken as it is, even when it has passed. *)
Init ==
  /\ now \in 0 .. MaxTime
  /\ feeBps \in {fee \in FeeInputs : fee <= MAX_FEE_BPS}
  /\ balances = [c \in Contributors |-> 0]
  /\ totalRaised = 0
  /\ approvedFor = [p \in Payees |-> 0]
  /\ approved = 0
  /\ campaignFailed = FALSE
  /\ isRefunding = FALSE /\ refundPool = NotSet /\ refundBase = NotSet
  /\ pendingFee = NotSet
  /\ milestonesContract = None /\ secondSigner = None
  /\ held = 0
  /\ contributed = [c \in Contributors |-> 0]
  /\ refundPaid = [c \in Contributors |-> 0]
  /\ direct = 0 /\ withdrawn = 0 /\ overridden = 0 /\ drained = 0
  /\ feesPaid = 0

SetMilestonesContract(m) ==
  /\ milestonesContract' = m
  /\ UNCHANGED <<now, deposits, approvals, campaignFailed, refunds, feeBps,
                 pendingFee, secondSigner, held, direct, outflows>>

SetSecondSigner(s) ==
  /\ s # Admin
  /\ secondSigner' = s
  /\ UNCHANGED <<now, deposits, approvals, campaignFailed, refunds, feeBps,
                 pendingFee, milestonesContract, held, direct, outflows>>

MarkCampaignFailed ==
  /\ campaignFailed' = TRUE
  /\ UNCHANGED <<now, deposits, approvals, refunds, settings, held, direct,
                 outflows>>

(* Slip: the amount is not checked. *)
DepositAnyAmount(c, amount) ==
  /\ ~Closed
  /\ now <= Deadline
  /\ Total(contributed) + direct + amount <= TokenSupply
  /\ balances' = [balances EXCEPT ![c] = balances[c] + amount]
  /\ totalRaised' = totalRaised + amount
  /\ held' = held + amount
  /\ contributed' = [contributed EXCEPT ![c] = contributed[c] + amount]
  /\ UNCHANGED <<now, approvals, campaignFailed, refunds, settings, direct,
                 outflows>>

Deposit(c, amount) ==
  /\ amount > 0
  /\ ~Closed
  /\ now <= Deadline
  /\ Total(contributed) + direct + amount <= TokenSupply
  /\ balances' = [balances EXCEPT ![c] = balances[c] + amount]
  /\ totalRaised' = totalRaised + amount
  /\ held' = held + amount
  /\ contributed' = [contributed EXCEPT ![c] = contributed[c] + amount]
  /\ UNCHANGED <<now, approvals, campaignFailed, refunds, settings, direct,
                 outflows>>

(* Anyone may transfer tokens to the escrow's address without calling it. *)
TransferDirectly(amount) ==
  /\ Total(contributed) + direct + amount <= TokenSupply
  /\ direct' = direct + amount
  /\ held' = held + amount
  /\ UNCHANGED <<now, deposits, approvals, campaignFailed, refunds, settings,
                 outflows>>

---------------------------------------------------------------------------
(* Slip: the sum of approvals is forgotten. *)
GrantDestinationOnly(to, amount) ==
  /\ approvedFor' = [approvedFor EXCEPT ![to] = approvedFor[to] + amount]
  /\ approved' = approved

(* Both approve functions add to the destination's approval and the sum. *)
Grant(to, amount) ==
  /\ approvedFor' = [approvedFor EXCEPT ![to] = approvedFor[to] + amount]
  /\ approved' = approved + amount

ApproveWithdrawal(to, amount) ==
  /\ ~Closed
  /\ totalRaised >= Target \/ milestonesContract = Admin
  /\ amount > 0
  /\ approved + amount <= MaxApproved
  /\ Grant(to, amount)
  /\ UNCHANGED <<now, deposits, campaignFailed, refunds, settings, held,
                 direct, outflows>>

ApproveMilestoneWithdrawal(to, amount) ==
  /\ milestonesContract # None
  /\ ~Closed
  /\ amount > 0
  /\ approved + amount <= MaxApproved
  /\ Grant(to, amount)
  /\ UNCHANGED <<now, deposits, campaignFailed, refunds, settings, held,
                 direct, outflows>>

(* Slip: a closed campaign still pays what it approved. *)
ExecuteWithoutClosedCheck(to, amount) ==
  /\ amount > 0
  /\ approvedFor[to] >= amount /\ approved >= amount
  /\ held >= amount
  /\ held' = held - amount
  /\ approvedFor' = [approvedFor EXCEPT ![to] = approvedFor[to] - amount]
  /\ approved' = approved - amount
  /\ withdrawn' = withdrawn + amount
  /\ feesPaid' = feesPaid + FeeOf(amount)
  /\ UNCHANGED <<now, deposits, campaignFailed, refunds, settings, direct,
                 overridden, drained>>

(* The payee receives the net amount and the platform its fee: two          *)
(* transfers that together need the whole amount.                           *)
ExecuteWithdrawal(to, amount) ==
  /\ ~Closed
  /\ amount > 0
  /\ approvedFor[to] >= amount
  /\ approved >= amount
  /\ held >= amount
  /\ held' = held - amount
  /\ approvedFor' = [approvedFor EXCEPT ![to] = approvedFor[to] - amount]
  /\ approved' = approved - amount
  /\ withdrawn' = withdrawn + amount
  /\ feesPaid' = feesPaid + FeeOf(amount)
  /\ UNCHANGED <<now, deposits, campaignFailed, refunds, settings, direct,
                 overridden, drained>>

(* admin_override_withdrawal looks neither at the approvals nor at Closed. *)
AdminOverrideWithdrawal(signer, amount) ==
  /\ signer # Admin
  /\ secondSigner # None => signer = secondSigner
  /\ amount > 0
  /\ held >= amount
  /\ held' = held - amount
  /\ IF isRefunding THEN drained' = drained + amount /\ UNCHANGED overridden
                    ELSE overridden' = overridden + amount /\ UNCHANGED drained
  /\ feesPaid' = feesPaid + FeeOf(amount)
  /\ UNCHANGED <<now, deposits, approvals, campaignFailed, refunds, settings,
                 direct, withdrawn>>

---------------------------------------------------------------------------
(* Slip: the cap is not checked. *)
ProposeAnyFee(fee) ==
  /\ pendingFee' = fee
  /\ UNCHANGED <<now, deposits, approvals, campaignFailed, refunds, feeBps,
                 milestonesContract, secondSigner, held, direct, outflows>>

ProposeFeeChange(fee) ==
  /\ fee <= MAX_FEE_BPS
  /\ pendingFee' = fee
  /\ UNCHANGED <<now, deposits, approvals, campaignFailed, refunds, feeBps,
                 milestonesContract, secondSigner, held, direct, outflows>>

ConfirmFeeChange ==
  /\ pendingFee # NotSet
  /\ pendingFee <= MAX_FEE_BPS
  /\ feeBps' = pendingFee
  /\ pendingFee' = NotSet
  /\ UNCHANGED <<now, deposits, approvals, campaignFailed, refunds,
                 milestonesContract, secondSigner, held, direct, outflows>>

CancelFeeChange ==
  /\ pendingFee # NotSet
  /\ pendingFee' = NotSet
  /\ UNCHANGED <<now, deposits, approvals, campaignFailed, refunds, feeBps,
                 milestonesContract, secondSigner, held, direct, outflows>>

---------------------------------------------------------------------------
(* The first refund fixes the pool to share and the sum it is shared over. *)
RefundBaseNow == IF refundBase = NotSet THEN totalRaised ELSE refundBase

(* Slip: every refund takes a fresh snapshot of the pool. *)
PoolOfTheMoment == LesserOf(held, totalRaised)
(* Slip: tokens sent by strangers are shared out too. *)
WholeHolding == IF refundBase = NotSet THEN held ELSE refundPool

RefundPoolNow == IF refundBase = NotSet THEN LesserOf(held, totalRaised)
                                        ELSE refundPool

(* Slip: shares are rounded up. *)
PayoutRoundedUp(c) ==
  (balances[c] * RefundPoolNow + RefundBaseNow - 1) \div RefundBaseNow

PayoutOf(c) == (balances[c] * RefundPoolNow) \div RefundBaseNow

(* Slip: a campaign marked failed waits for its deadline. *)
RefundableByTimeOnly == now >= Deadline /\ totalRaised < Target

Refundable == campaignFailed \/ (now >= Deadline /\ totalRaised < Target)

RaisedAfterRefund(amount) == totalRaised - amount

(* refund needs nobody's authorisation: anyone may trigger it for anyone. *)
Refund(c) ==
  /\ Refundable
  /\ balances[c] > 0
  /\ PayoutOf(c) <= held
  /\ refundPool' = RefundPoolNow
  /\ refundBase' = RefundBaseNow
  /\ isRefunding' = TRUE
  /\ balances' = [balances EXCEPT ![c] = 0]
  /\ totalRaised' = RaisedAfterRefund(balances[c])
  /\ held' = held - PayoutOf(c)
  /\ refundPaid' = [refundPaid EXCEPT ![c] = refundPaid[c] + PayoutOf(c)]
  /\ UNCHANGED <<now, approvals, campaignFailed, settings, contributed,
                 direct, outflows>>

Tick ==
  /\ now < MaxTime
  /\ now' = now + 1
  /\ UNCHANGED <<deposits, approvals, campaignFailed, refunds, settings,
                 held, direct, outflows>>

---------------------------------------------------------------------------
Configure ==
  \/ \E m \in MilestonesContracts : SetMilestonesContract(m)
  \/ \E s \in Signers : SetSecondSigner(s)
  \/ \E fee \in FeeInputs : ProposeFeeChange(fee)
  \/ ConfirmFeeChange
  \/ CancelFeeChange

MoveFunds ==
  \/ \E c \in Contributors, a \in DepositAmounts : Deposit(c, a)
  \/ \E a \in DirectAmounts : TransferDirectly(a)
  \/ \E to \in Payees, a \in ReleaseAmounts :
       \/ ApproveWithdrawal(to, a)
       \/ ApproveMilestoneWithdrawal(to, a)
       \/ ExecuteWithdrawal(to, a)
  \/ \E s \in Signers, a \in OverrideAmounts : AdminOverrideWithdrawal(s, a)
  \/ \E c \in Contributors : Refund(c)

Next == Configure \/ MoveFunds \/ MarkCampaignFailed \/ Tick

Spec == Init /\ [][Next]_vars

(* Time passes, and whoever still has a balance keeps asking for it.        *)
FairSpec ==
  /\ Spec
  /\ WF_vars(Tick)
  /\ \A c \in Contributors : WF_vars(Refund(c))

---------------------------------------------------------------------------
TypeOK ==
  /\ now \in 0 .. MaxTime
  /\ balances \in [Contributors -> Nat] /\ totalRaised \in Nat
  /\ approvedFor \in [Payees -> Nat] /\ approved \in Nat
  /\ campaignFailed \in BOOLEAN /\ isRefunding \in BOOLEAN
  /\ refundPool \in Nat \cup {NotSet} /\ refundBase \in Nat \cup {NotSet}
  /\ feeBps \in 0 .. MAX_FEE_BPS
  /\ pendingFee \in 0 .. MAX_FEE_BPS \cup {NotSet}
  /\ milestonesContract \in MilestonesContracts \cup {None}
  /\ secondSigner \in Signers \cup {None}
  /\ held \in Nat
  /\ contributed \in [Contributors -> Nat]
  /\ refundPaid \in [Contributors -> Nat]
  /\ direct \in Nat /\ withdrawn \in Nat /\ overridden \in Nat
  /\ drained \in Nat /\ feesPaid \in Nat

(* total_raised is a counter of its own: deposit adds to it and refund      *)
(* subtracts a balance that other calls wrote.  It always equals the sum of *)
(* the balances, so a refund never drives it below zero.                    *)
RaisedIsSum == totalRaised = Total(balances)

(* The two records of approvals, per destination and in all, agree, so the *)
(* second comparison of execute_withdrawal never refuses what the first    *)
(* one granted.                                                             *)
ApprovedIsSum == approved = Total(approvedFor)

(* The platform never gets more than MAX_FEE_BPS of what was released,      *)
(* through any sequence of fee changes and roundings.                       *)
FeeCapped == feesPaid * BPS <= (withdrawn + overridden + drained) * MAX_FEE_BPS

(* The escrow's books agree with what the calls did, whatever their order:  *)
(* deposits and refunds with total_raised, the approvals in all with those  *)
(* per destination, the fees of execute_withdrawal with the cap.            *)
BooksAgree == RaisedIsSum /\ ApprovedIsSum /\ FeeCapped

(* Refunds stay payable in every order.  Once the pool is fixed, what is    *)
(* held, with what overrides took since, covers the pro-rata share of all   *)
(* the balances not refunded yet.                                           *)
RefundsSolvent ==
  isRefunding => (held + drained) * refundBase >= totalRaised * refundPool

Refunded == {c \in Contributors : contributed[c] > 0 /\ balances[c] = 0}

(* Refund order does not matter: who put in more never gets back less, and  *)
(* equal contributions get equal refunds, however the calls interleave with *)
(* direct transfers, overrides and each other.                              *)
EqualTreatment ==
  \A c, d \in Refunded :
    contributed[c] <= contributed[d] => refundPaid[c] <= refundPaid[d]

(* A failed campaign that released nothing gives everyone exactly what they *)
(* put in, even when strangers sent tokens to the escrow.                   *)
FullRefundUnlessWithdrawn ==
  withdrawn = 0 /\ overridden = 0 =>
    \A c \in Refunded : refundPaid[c] = contributed[c]

(* What a contributor gets back depends on what he put in and on what left  *)
(* the escrow before the first refund, and on nothing else: not on who      *)
(* asked first, nor on tokens that nobody deposited.                        *)
RefundsAreFair == EqualTreatment /\ FullRefundUnlessWithdrawn

(* What makes the above inductive.  The snapshot is taken with the first    *)
(* refund, never promises more than it is shared over, and misses exactly   *)
(* what left the escrow before; every contributor is either untouched or    *)
(* paid the share of the snapshot.                                          *)
SnapshotBook ==
  /\ isRefunding <=> refundBase # NotSet
  /\ isRefunding => /\ refundBase > 0
                    /\ refundPool \in 0 .. refundBase
                    /\ refundBase <= refundPool + withdrawn + overridden
  /\ ~isRefunding => totalRaised <= held + withdrawn + overridden

ShareBook ==
  \A c \in Contributors :
    \/ balances[c] = contributed[c] /\ refundPaid[c] = 0
    \/ /\ isRefunding
       /\ balances[c] = 0
       /\ refundPaid[c] = (contributed[c] * refundPool) \div refundBase

IInv == /\ TypeOK /\ BooksAgree
        /\ SnapshotBook /\ ShareBook /\ RefundsSolvent

(* Failure is final: a campaign that is closed, by the admin, by the clock  *)
(* or by a first refund, never reopens, takes no deposit, grants no         *)
(* approval and pays no approved withdrawal.                                *)
ClosedIsFinal ==
  [][Closed => /\ Closed'
               /\ contributed' = contributed
               /\ approved' = approved
               /\ withdrawn' = withdrawn]_vars

(* Everyone whose money is in a closed campaign eventually gets their share *)
(* paid: no refund call stays blocked by the refunds before it.  Only an    *)
(* override after the first refund can take what is left for others.        *)
EveryContributorRefunded ==
  \A c \in Contributors :
    (Closed /\ balances[c] > 0) ~> (balances[c] = 0 \/ drained > 0)

===========================================================================
