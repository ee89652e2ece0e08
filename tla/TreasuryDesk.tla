--------------------------- MODULE TreasuryDesk ---------------------------
(***************************************************************************)
(* The backend's side of a treasury                                        *)
(* (backend/src/services/contractTreasury.js, behind routes/treasury.js).  *)
(*                                                                         *)
(* Every operation first calls the contract and then, in a second step,    *)
(* writes what happened to the database.  The two steps are not one: other *)
(* requests come in between, and the second one is lost when the process   *)
(* crashes or when the answer of the network never arrives.  A row of      *)
(* withdrawal_requests is identified by the id of the withdrawal it is     *)
(* about; `none' stands for a row that was never inserted.                 *)
(***************************************************************************)
EXTENDS Treasury

CONSTANT CustodialLimit  \* CUSTODIAL_WITHDRAWAL_LIMIT

ASSUME CustodialLimitAssumption == CustodialLimit \in Nat

VARIABLES
  row,                  \* withdrawal_requests.status per withdrawal
  answered,             \* calls the contract answered, not yet written down
  refundEvents          \* the number of rows of refund_events

deskVars == <<row, answered, refundEvents>>
vars == <<treasuryVars, deskVars>>

RowStatus == {"none", "pending_auditor", "completed"}
Call(op, id) == [op |-> op, id |-> id]
Calls == {Call(op, id) : op \in {"requested", "parked", "approved"}, id \in Ids}
           \cup {Call("refunded", 0)}

DeskInit ==
  /\ Init
  /\ row = [id \in Ids |-> "none"]
  /\ answered = {}
  /\ refundEvents = 0

---------------------------------------------------------------------------
(* indexContribution: one call per credited payment; when it fails, the     *)
(* payment is logged and the contract never hears of it.                    *)
IndexContribution(c, amount) ==
  /\ ReceiveContribution(c, amount)
  /\ UNCHANGED deskVars

(* buildWithdrawalRequest, up to the contract's answer: null when the       *)
(* withdrawal was executed, the pending id when the auditor must sign.      *)
RequestWithdrawal(amount) ==
  /\ amount <= CustodialLimit
  /\ \/ WithdrawAtOnce(amount) /\ answered' = answered \cup {Call("requested", nextId)}
     \/ ParkWithdrawal(amount) /\ answered' = answered \cup {Call("parked", nextId)}
  /\ UNCHANGED <<row, refundEvents>>

(* Slip: the status is written without looking at the pending id. *)
InsertRowCompleted(call) ==
  /\ call.op \in {"requested", "parked"}
  /\ row' = [row EXCEPT ![call.id] = "completed"]
  /\ answered' = answered \ {call}
  /\ UNCHANGED <<treasuryVars, refundEvents>>

(* buildWithdrawalRequest: the row of the answer *)
InsertRow(call) ==
  /\ call.op \in {"requested", "parked"}
  /\ row' = [row EXCEPT ![call.id] =
               IF call.op = "requested" THEN "completed" ELSE "pending_auditor"]
  /\ answered' = answered \ {call}
  /\ UNCHANGED <<treasuryVars, refundEvents>>

(* approvePendingWithdrawal, up to the contract's answer; it does not look  *)
(* at the row.                                                              *)
ApprovePendingWithdrawal(id) ==
  /\ ApproveWithdrawal(id)
  /\ answered' = answered \cup {Call("approved", id)}
  /\ UNCHANGED <<row, refundEvents>>

(* approvePendingWithdrawal: a row that is not there is reported as a 404. *)
CompleteRow(call) ==
  /\ call.op = "approved"
  /\ row' = IF row[call.id] = "pending_auditor"
            THEN [row EXCEPT ![call.id] = "completed"] ELSE row
  /\ answered' = answered \ {call}
  /\ UNCHANGED <<treasuryVars, refundEvents>>

(* triggerAutoRefund, up to the contract's answer *)
RequestAutoRefund ==
  /\ TriggerAutoRefund
  /\ answered' = answered \cup {Call("refunded", 0)}
  /\ UNCHANGED <<row, refundEvents>>

(* triggerAutoRefund: the row of refund_events *)
InsertRefundEvent(call) ==
  /\ call.op = "refunded"
  /\ refundEvents' = refundEvents + 1
  /\ answered' = answered \ {call}
  /\ UNCHANGED <<treasuryVars, row>>

(* A crash, or an answer that does not arrive: nothing asks again. *)
LoseAnswer(call) ==
  /\ answered' = answered \ {call}
  /\ UNCHANGED <<treasuryVars, row, refundEvents>>

DeskNext ==
  \/ \E c \in Contributors, a \in ContributionAmounts : IndexContribution(c, a)
  \/ \E a \in WithdrawalAmounts : RequestWithdrawal(a)
  \/ \E id \in Ids : ApprovePendingWithdrawal(id)
  \/ RequestAutoRefund
  \/ \E call \in answered :
       \/ InsertRow(call) \/ CompleteRow(call) \/ InsertRefundEvent(call)
       \/ LoseAnswer(call)
  \/ /\ \/ \E flag \in BOOLEAN : SetPaused(flag)
        \/ \E a \in TransferAmounts : TransferIn(a)
        \/ Tick
     /\ UNCHANGED deskVars

DeskSpec == DeskInit /\ [][DeskNext]_vars

---------------------------------------------------------------------------
(* Types, of the contract and of the desk.  A refund runs once. *)
DeskTypeOK ==
  /\ TreasuryTypeOK
  /\ row \in [Ids -> RowStatus]
  /\ answered \subseteq Calls
  /\ refundEvents \in 0 .. 1

(* The database may know less than the chain, never more: a row says        *)
(* `completed' only of a withdrawal the contract executed, and a refund     *)
(* event only of a refund that ran (reconcileWithdrawals reports the rest). *)
RowsAreReal ==
  /\ \A id \in Ids : row[id] = "completed" => executed[id] > 0
  /\ refundEvents > 0 => refunded

(* What the contract's totals, its history and the desk's rows say of the   *)
(* money agrees, with answers lost or late; what a refund returns is what   *)
(* they say.                                                                *)
AccountsAgree == BooksBalance /\ RowsAreReal /\ RefundReturnsPool

(* Every withdrawal follows the policy, as far as PolicyKept says, and is   *)
(* accounted for, however parked and immediate ones, pauses, refunds and    *)
(* lost answers interleave.                                                 *)
WithdrawalsAreSound == PolicyKept /\ AccountsAgree

(* A withdrawal that is parked stays payable by its id: no answer that was  *)
(* lost, and no row that is missing, makes the contract forget it or hand   *)
(* its id out again.                                                        *)
ParkedUntilPaid ==
  [][\A id \in Ids : parked[id] > 0 =>
       \/ parked'[id] = parked[id]
       \/ parked'[id] = 0 /\ executed'[id] = parked[id] /\ id \in approvedBy']_vars
============================================================================
