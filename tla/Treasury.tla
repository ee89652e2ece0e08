----------------------------- MODULE Treasury -----------------------------
(***************************************************************************)
(* The treasury contract of one campaign                                   *)
(* (contracts/soroban/contracts/campaign_treasury/src/lib.rs).             *)
(*                                                                         *)
(* As in Escrow, a call is one atomic step and an error or a panic rolls   *)
(* it back, so that every early return is a guard.  The vectors Pending,   *)
(* History and Contributors are keyed by what they are searched by (the    *)
(* id of a withdrawal, the contributor); a zero means that there is no     *)
(* entry, for the amounts are positive.                                    *)
(***************************************************************************)
EXTENDS TokenSums

CONSTANTS
  Contributors,         \* the addresses contributions are booked for
  Policies,             \* the policies initialize may be called with
  Deadline, Goal,       \* the arguments of initialize
  ContributionAmounts, WithdrawalAmounts, TransferAmounts,
  MaxHistory,           \* MAX_HISTORY, 200 in the code
  MaxRequests,          \* bound: the withdrawals ever requested
  MaxBooked,            \* bound: the sum of the booked contributions
  TokenSupply,          \* bound: the tokens that can ever reach the treasury
  MaxTime               \* bound: the last ledger timestamp considered

MAX_PCT == 100
Ids == 1 .. MaxRequests

ASSUME ContributorsAssumption == IsFiniteSet(Contributors)
ASSUME PoliciesAssumption ==
  Policies \subseteq [minHold : Nat, maxPct : Nat, cooldown : Nat,
                      auditorAbove : Int, autoRefund : BOOLEAN]
ASSUME TreasuryAmountsAssumption ==
  /\ ContributionAmounts \subseteq Int /\ WithdrawalAmounts \subseteq Int
  /\ TransferAmounts \subseteq Nat
ASSUME TreasuryBoundsAssumption ==
  /\ Deadline \in Nat /\ Goal \in Int
  /\ MaxHistory \in Nat /\ MaxRequests \in Nat /\ MaxBooked \in Nat
  /\ TokenSupply \in Nat /\ MaxTime \in Nat

VARIABLES
  now,                  \* env.ledger().timestamp()
  policy,               \* DataKey::Policy
  hasAuditor,           \* whether DataKey::Auditor holds an address
  contributions,        \* DataKey::Contributors: what is booked for whom
  totalReceived,        \* DataKey::TotalReceived
  totalWithdrawn,       \* DataKey::TotalWithdrawn
  nextId,               \* DataKey::NextId
  lastWithdrawalAt,     \* DataKey::LastWithdrawalAt
  paused,               \* DataKey::Paused
  refunded,             \* DataKey::Refunded
  parked,               \* DataKey::Pending: the amount of each id
  executed,             \* DataKey::History: the amount of each id
  approvedBy,           \* DataKey::History: the ids an auditor approved
  held                  \* the treasury's balance in the asset contract

(* What happened so far; no operation reads these. *)
VARIABLES
  arrived,              \* the tokens that ever reached the treasury
  requestedAt,          \* when each withdrawal was requested
  executedAt,           \* when each withdrawal was executed
  refundPaid,           \* what each contributor was refunded
  refundPool,           \* what was available when the refund ran
  withdrawnAtRefund     \* what had been withdrawn by then

configuration == <<policy, hasAuditor>>
books == <<contributions, totalReceived>>
withdrawals == <<totalWithdrawn, lastWithdrawalAt, executed, approvedBy,
                 executedAt>>
numbering == <<nextId, requestedAt>>
refundState == <<refunded, refundPaid, refundPool, withdrawnAtRefund>>
treasuryVars == <<now, configuration, books, withdrawals, numbering, paused,
                  refundState, parked, held, arrived>>

---------------------------------------------------------------------------
ValidPolicy(p) ==
  /\ p.maxPct # 0 /\ p.maxPct <= MAX_PCT
  /\ p.auditorAbove >= 0

AvailableBalance == totalReceived - totalWithdrawn

(* The most one withdrawal may take; integer division rounds it down. *)
Ceiling == (AvailableBalance * policy.maxPct) \div 100

HoldUntil == Deadline + policy.minHold

CooledDown == lastWithdrawalAt > 0 => now >= lastWithdrawalAt + policy.cooldown

Recorded == {id \in Ids : executed[id] > 0}

---------------------------------------------------------------------------
(* initialize *)
Init ==
  /\ now \in 1 .. MaxTime
  /\ policy \in {p \in Policies : ValidPolicy(p)}
  /\ hasAuditor \in BOOLEAN
  /\ contributions = [c \in Contributors |-> 0]
  /\ totalReceived = 0 /\ totalWithdrawn = 0
  /\ nextId = 1
  /\ lastWithdrawalAt = 0
  /\ paused = FALSE /\ refunded = FALSE
  /\ parked = [id \in Ids |-> 0]
  /\ executed = [id \in Ids |-> 0]
  /\ approvedBy = {}
  /\ held = 0 /\ arrived = 0
  /\ requestedAt = [id \in Ids |-> 0] /\ executedAt = [id \in Ids |-> 0]
  /\ refundPaid = [c \in Contributors |-> 0]
  /\ refundPool = 0 /\ withdrawnAtRefund = 0

(* A repeat contributor accumulates into the existing row. *)
Book(c, amount) ==
  /\ totalReceived' = totalReceived + amount
  /\ contributions' = [contributions EXCEPT ![c] = contributions[c] + amount]

(* Slip: the amount is not checked. *)
ReceiveAnyAmount(c, amount) ==
  /\ ~paused
  /\ totalReceived + amount <= MaxBooked
  /\ Book(c, amount)
  /\ UNCHANGED <<now, configuration, withdrawals, numbering, paused, refundState,
                 parked, held, arrived>>

ReceiveContribution(c, amount) ==
  /\ ~paused
  /\ amount > 0
  /\ totalReceived + amount <= MaxBooked
  /\ Book(c, amount)
  /\ UNCHANGED <<now, configuration, withdrawals, numbering, paused, refundState,
                 parked, held, arrived>>

(* Slip: only a withdrawal at once starts the cooldown. *)
ExecuteUntimed(id, amount, audited) ==
  /\ Cardinality(Recorded) < MaxHistory
  /\ amount <= held
  /\ held' = held - amount
  /\ totalWithdrawn' = totalWithdrawn + amount
  /\ lastWithdrawalAt' = IF audited THEN lastWithdrawalAt ELSE now
  /\ executed' = [executed EXCEPT ![id] = amount]
  /\ executedAt' = [executedAt EXCEPT ![id] = now]
  /\ approvedBy' = IF audited THEN approvedBy \cup {id} ELSE approvedBy

(* execute: a full history is an error, a transfer above the balance a panic *)
Execute(id, amount, audited) ==
  /\ Cardinality(Recorded) < MaxHistory
  /\ amount <= held
  /\ held' = held - amount
  /\ totalWithdrawn' = totalWithdrawn + amount
  /\ lastWithdrawalAt' = now
  /\ executed' = [executed EXCEPT ![id] = amount]
  /\ executedAt' = [executedAt EXCEPT ![id] = now]
  /\ approvedBy' = IF audited THEN approvedBy \cup {id} ELSE approvedBy

NeedsAuditor(amount) == amount > policy.auditorAbove

(* The checks request_withdrawal makes before it moves anything. *)
MayRequest(amount) ==
  /\ ~paused
  /\ amount > 0
  /\ now >= HoldUntil
  /\ CooledDown
  /\ amount <= AvailableBalance
  /\ amount <= Ceiling

(* Slip: the id is not used up. *)
ParkUnderSameId(amount) ==
  /\ MayRequest(amount)
  /\ NeedsAuditor(amount)
  /\ hasAuditor
  /\ nextId \in Ids
  /\ requestedAt' = [requestedAt EXCEPT ![nextId] = now]
  /\ parked' = [parked EXCEPT ![nextId] = amount]
  /\ UNCHANGED <<now, configuration, books, withdrawals, nextId, paused,
                 refundState, held, arrived>>

(* request_withdrawal of an amount above the auditor's threshold *)
ParkWithdrawal(amount) ==
  /\ MayRequest(amount)
  /\ NeedsAuditor(amount)
  /\ hasAuditor
  /\ nextId \in Ids
  /\ nextId' = nextId + 1
  /\ requestedAt' = [requestedAt EXCEPT ![nextId] = now]
  /\ parked' = [parked EXCEPT ![nextId] = amount]
  /\ UNCHANGED <<now, configuration, books, withdrawals, paused, refundState,
                 held, arrived>>

(* request_withdrawal of any other amount *)
WithdrawAtOnce(amount) ==
  /\ MayRequest(amount)
  /\ ~NeedsAuditor(amount)
  /\ nextId \in Ids
  /\ nextId' = nextId + 1
  /\ requestedAt' = [requestedAt EXCEPT ![nextId] = now]
  /\ Execute(nextId, amount, FALSE)
  /\ UNCHANGED <<now, configuration, books, paused, refundState, parked,
                 arrived>>

(* Slip: the balance is not checked again. *)
ApproveWithoutRecheck(id) ==
  /\ ~paused
  /\ hasAuditor
  /\ parked[id] > 0
  /\ parked' = [parked EXCEPT ![id] = 0]
  /\ Execute(id, parked[id], TRUE)
  /\ UNCHANGED <<now, configuration, books, numbering, paused, refundState,
                 arrived>>

(* approve_withdrawal: the balance is checked again, the ceiling and the    *)
(* cooldown are not.                                                        *)
ApproveWithdrawal(id) ==
  /\ ~paused
  /\ hasAuditor
  /\ parked[id] > 0
  /\ parked[id] <= AvailableBalance
  /\ parked' = [parked EXCEPT ![id] = 0]
  /\ Execute(id, parked[id], TRUE)
  /\ UNCHANGED <<now, configuration, books, numbering, paused, refundState,
                 arrived>>

(* Slip: the share of everything the treasury holds, strays included. *)
ShareOfHolding(c) ==
  IF totalReceived > 0 THEN (contributions[c] * held) \div totalReceived ELSE 0

(* The part of what is left that belongs to a contributor. *)
Share(c) ==
  IF totalReceived > 0
  THEN (contributions[c] * AvailableBalance) \div totalReceived
  ELSE 0

Shares == [c \in Contributors |-> Share(c)]

(* trigger_auto_refund: one failing transfer rolls the whole refund back.   *)
(* Neither the pause nor a withdrawal already made stops it, and the totals *)
(* stay as they are: what was refunded still counts as available.           *)
TriggerAutoRefund ==
  /\ policy.autoRefund
  /\ ~refunded
  /\ now >= Deadline /\ totalReceived < Goal
  /\ Total(Shares) <= held
  /\ refunded' = TRUE
  /\ refundPaid' = [c \in Contributors |-> refundPaid[c] + Share(c)]
  /\ refundPool' = AvailableBalance /\ withdrawnAtRefund' = totalWithdrawn
  /\ held' = held - Total(Shares)
  /\ UNCHANGED <<now, configuration, books, withdrawals, numbering, paused,
                 parked, arrived>>

(* pause and unpause *)
SetPaused(flag) ==
  /\ paused' = flag
  /\ UNCHANGED <<now, configuration, books, withdrawals, numbering, refundState,
                 parked, held, arrived>>

(* Tokens reach the treasury by transfers of the asset, which it does not   *)
(* see: contributions are booked by receive_contribution alone.             *)
TransferIn(amount) ==
  /\ arrived + amount <= TokenSupply
  /\ held' = held + amount
  /\ arrived' = arrived + amount
  /\ UNCHANGED <<now, configuration, books, withdrawals, numbering, paused,
                 refundState, parked>>

Tick ==
  /\ now < MaxTime
  /\ now' = now + 1
  /\ UNCHANGED <<configuration, books, withdrawals, numbering, paused,
                 refundState, parked, held, arrived>>

Next ==
  \/ \E c \in Contributors, a \in ContributionAmounts : ReceiveContribution(c, a)
  \/ \E a \in WithdrawalAmounts : ParkWithdrawal(a) \/ WithdrawAtOnce(a)
  \/ \E id \in Ids : ApproveWithdrawal(id)
  \/ TriggerAutoRefund
  \/ \E flag \in BOOLEAN : SetPaused(flag)
  \/ \E a \in TransferAmounts : TransferIn(a)
  \/ Tick

Spec == Init /\ [][Next]_treasuryVars

---------------------------------------------------------------------------
(* Types.  No total and no entry is ever negative, and the policy in force  *)
(* is a valid one.                                                          *)
TreasuryTypeOK ==
  /\ now \in Nat
  /\ policy \in {p \in Policies : ValidPolicy(p)}
  /\ hasAuditor \in BOOLEAN /\ paused \in BOOLEAN /\ refunded \in BOOLEAN
  /\ contributions \in [Contributors -> Nat]
  /\ totalReceived \in Nat /\ totalWithdrawn \in Nat
  /\ nextId \in Nat \ {0} /\ lastWithdrawalAt \in Nat
  /\ parked \in [Ids -> Nat] /\ executed \in [Ids -> Nat]
  /\ approvedBy \subseteq Ids
  /\ held \in Nat /\ arrived \in Nat
  /\ requestedAt \in [Ids -> Nat] /\ executedAt \in [Ids -> Nat]
  /\ refundPaid \in [Contributors -> Nat]
  /\ refundPool \in Nat /\ withdrawnAtRefund \in Nat

(* The ids handed out are below nextId, and a withdrawal is parked or       *)
(* executed but never both.                                                 *)
IdsInOrder ==
  \A id \in Ids :
    /\ parked[id] > 0 \/ executed[id] > 0 => id < nextId
    /\ ~(parked[id] > 0 /\ executed[id] > 0)

(* Several requests may be parked, each below the balance when it was made: *)
(* together they may exceed it, and withdrawals at once may come in         *)
(* between.  Still the withdrawals never exceed what was booked             *)
(* (approve_withdrawal re-checks the balance), nor do the refund and the    *)
(* withdrawals before it together.  What is withdrawn after the refund is   *)
(* the exception, for trigger_auto_refund leaves the totals alone: it can   *)
(* pay out again, from whatever else is held, what the contributors got.    *)
NeverOverdrawn ==
  /\ totalWithdrawn <= totalReceived
  /\ refunded => withdrawnAtRefund + Total(refundPaid) <= totalReceived

(* The on-chain history is the audit trail: the total withdrawn is the sum  *)
(* of the recorded withdrawals, so that none was paid twice or left out.    *)
HistoryIsComplete == totalWithdrawn = Total(executed)

(* The booked total is the sum of the rows refunds are computed from.       *)
ReceivedIsSum == totalReceived = Total(contributions)

(* The treasury's books balance, whichever way withdrawals are requested,   *)
(* parked, approved and mixed with contributions and a refund.              *)
BooksBalance == ReceivedIsSum /\ HistoryIsComplete /\ NeverOverdrawn

(* Whichever path a withdrawal took, it came after the hold period, and     *)
(* above the threshold an auditor approved it.                              *)
HeldAndAudited ==
  \A id \in Recorded :
    /\ executedAt[id] >= HoldUntil
    /\ executed[id] > policy.auditorAbove => id \in approvedBy

(* "Minimum hours between successive withdrawals" (TreasuryPolicy) binds    *)
(* every request: when one is made, whether it is then parked or paid, the  *)
(* cooldown of all that was paid before is over, whichever way it was paid. *)
CooldownBeforeRequest ==
  \A i \in Recorded, j \in Ids :
    executedAt[i] < requestedAt[j] => executedAt[i] + policy.cooldown <= requestedAt[j]

(* So it binds the payments too, one withdrawal at once after another.  A   *)
(* payment that an auditor releases is the exception: approve_withdrawal    *)
(* does not look at the cooldown, so that it may follow any other at once.  *)
CooldownUnlessAudited ==
  \A j \in Recorded \ approvedBy :
    /\ executedAt[j] = requestedAt[j]
    /\ \A i \in Recorded \ approvedBy :
         i < j => executedAt[i] + policy.cooldown <= executedAt[j]

(* Of the policy of initialize, the hold and the auditor's threshold bind   *)
(* every withdrawal ever paid and the cooldown every request, though other  *)
(* withdrawals are paid, parked and approved between the checks and the     *)
(* payment.                                                                 *)
PolicyKept == HeldAndAudited /\ CooldownBeforeRequest /\ CooldownUnlessAudited

(* A refund gives nobody more than was booked for him, and returns all that *)
(* was available but for less than one unit per contributor, whatever       *)
(* strangers transferred in and however much was withdrawn before.          *)
RefundReturnsPool ==
  /\ \A c \in Contributors : refundPaid[c] <= contributions[c]
  /\ Total(refundPaid) <= refundPool
  /\ refundPool <= Total(refundPaid) + Cardinality(Contributors)
============================================================================
