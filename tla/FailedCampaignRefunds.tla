----------------------- MODULE FailedCampaignRefunds -----------------------
(***************************************************************************)
(* What the backend does for the contributors of a campaign that failed    *)
(* (backend/src/services/campaignStatusActions.js, called when             *)
(* campaignStatusService.js finds the deadline missed and by the admin's   *)
(* POST /campaigns/:id/trigger-refunds), over the campaign's Escrow.       *)
(*                                                                         *)
(* A contribution reaches the campaign in one of two ways.  A deposit into *)
(* the escrow is in the contract and in no table: nothing calls            *)
(* recordConfirmedContribution for it.  A payment to the campaign's wallet *)
(* gets a row of `contributions', which a job of the ledger monitor writes *)
(* some time after it read the campaign's status.                          *)
(*                                                                         *)
(* A pass over the rows, cut here at its awaits, first asks the escrow to  *)
(* refund the sender of each, and marks the row when the escrow paid; it   *)
(* then queues a withdrawal request for each row that is left.  The hook   *)
(* of the transition runs one pass, each request of an admin another; they *)
(* may overlap.  A crash stops every pass, and nothing resumes one.        *)
(***************************************************************************)
EXTENDS Escrow

CONSTANTS
  Rows,         \* the payments to the campaign's wallet
  SenderOf, AmountOf,
  Hook,         \* the pass run by the transition to `failed'
  Admins,       \* the passes an admin triggers
  MaxFaults     \* bound: calls that fail, answers lost, crashes

Passes == {Hook} \cup Admins

ASSUME RowsAssumption ==
  /\ IsFiniteSet(Rows) /\ None \notin Rows
  /\ SenderOf \in [Rows -> Contributors]
  /\ AmountOf \in [Rows -> Nat \ {0}]
ASSUME FaultsAssumption == MaxFaults \in Nat

VARIABLES
  rows,         \* contributions, and the payments on their way there
  campaignStatus, \* campaigns.status
  requests,     \* the withdrawal_requests there are for each row
  passes,       \* the passes of queueFailedCampaignRefunds
  faults,
  overlapped,   \* two passes listed the rows left before either queued
  contested     \* rows chosen for the escrow and for the queue at once

history == <<overlapped, contested>>
desk == <<rows, campaignStatus, requests, passes, faults, history>>
refundsVars == <<vars, desk>>

Steps == {"idle", "notify", "read", "select", "refund", "mark", "rest",
          "queue", "done", "stopped"}
Idle == [step |-> "idle", todo |-> {}, on |-> None]
Running == {p \in Passes : passes[p].step \notin {"idle", "done", "stopped"}}

At(p, step) == passes[p].step = step
Goto(p, step) == passes' = [passes EXCEPT ![p].step = step]
GotoWith(p, step, todo) ==
  passes' = [passes EXCEPT ![p] = [step |-> step, todo |-> todo, on |-> None]]
Fault == faults < MaxFaults /\ faults' = faults + 1

---------------------------------------------------------------------------
Recorded == {k \in Rows : rows[k] \in {"recorded", "refunded"}}
Unrefunded == {k \in Rows : rows[k] = "recorded"}

(* For the history: the rows marked or still to be tried at the escrow, and *)
(* those queued or listed for it.                                           *)
Trying(r) ==
  {k \in Rows : \/ r.step \in {"refund", "mark"} /\ k \in r.todo
                \/ r.step = "mark" /\ k = r.on}
Listed(r) == {k \in Rows : r.step = "queue" /\ k \in r.todo}
WithEscrow ==
  {k \in Rows : rows[k] = "refunded" \/ \E p \in Passes : k \in Trying(passes[p])}
WithQueue ==
  {k \in Rows : requests[k] > 0 \/ \E p \in Passes : k \in Listed(passes[p])}

(* campaigns.raised_amount; no refund of this module lowers it. *)
AmountRecorded(k) == IF k \in Recorded THEN AmountOf[k] ELSE 0
Raised == Total([k \in Rows |-> AmountRecorded(k)])

DeskInit ==
  /\ rows = [k \in Rows |-> "none"]
  /\ campaignStatus = "active"
  /\ requests = [k \in Rows |-> 0]
  /\ passes = [p \in Passes |-> Idle]
  /\ faults = 0 /\ overlapped = FALSE /\ contested = {}

(* A wallet payment whose job finds the campaign open. *)
Pay(k) ==
  /\ rows[k] = "none"
  /\ campaignStatus \in {"active", "funded"}
  /\ rows' = [rows EXCEPT ![k] = "paid"]
  /\ UNCHANGED <<vars, campaignStatus, requests, passes, faults, history>>

(* The job commits, whatever the status has become meanwhile. *)
Record(k) ==
  /\ rows[k] = "paid"
  /\ rows' = [rows EXCEPT ![k] = "recorded"]
  /\ campaignStatus' = IF Raised + AmountOf[k] >= Target THEN "funded" ELSE campaignStatus
  /\ UNCHANGED <<vars, requests, passes, faults, history>>

(* The refresh fails an active campaign once and starts the hook. *)
FailCampaign ==
  /\ campaignStatus = "active"
  /\ now > Deadline
  /\ Raised < Target
  /\ campaignStatus' = "failed"
  /\ Goto(Hook, "notify")
  /\ UNCHANGED <<vars, rows, requests, faults, history>>

(* The e-mails, webhooks and notifications are awaited together. *)
Notify ==
  /\ At(Hook, "notify")
  /\ Goto(Hook, "read")
  /\ UNCHANGED <<vars, rows, campaignStatus, requests, faults, history>>

(* One that fails ends the hook before it has looked at a row. *)
NotifyFails ==
  /\ At(Hook, "notify")
  /\ Fault
  /\ Goto(Hook, "stopped")
  /\ UNCHANGED <<vars, rows, campaignStatus, requests, history>>

TriggerRefunds(a) ==
  /\ At(a, "idle")
  /\ campaignStatus = "failed"
  /\ Goto(a, "read")
  /\ UNCHANGED <<vars, rows, campaignStatus, requests, faults, history>>

ReadCampaign(p) ==
  /\ At(p, "read")
  /\ Goto(p, IF campaignStatus = "failed" THEN "select" ELSE "done")
  /\ UNCHANGED <<vars, rows, campaignStatus, requests, faults, history>>

---------------------------------------------------------------------------
(* The rows to try at the escrow; requests made before are not looked at. *)
SelectUnrefunded(p) ==
  /\ At(p, "select")
  /\ GotoWith(p, "refund", Unrefunded)
  /\ contested' = contested \cup (Unrefunded \cap WithQueue)
  /\ UNCHANGED <<vars, rows, campaignStatus, requests, faults, overlapped>>

SelectFails(p) ==
  /\ At(p, "select")
  /\ Fault
  /\ Goto(p, "rest")
  /\ UNCHANGED <<vars, rows, campaignStatus, requests, history>>

Untried(p, k) == [step |-> "refund", todo |-> passes[p].todo \ {k}, on |-> None]

(* Slip: the row is forgotten with the answer. *)
ContractPaysSomebody(p, k) ==
  /\ At(p, "refund") /\ k \in passes[p].todo
  /\ Refund(SenderOf[k])
  /\ passes' = [passes EXCEPT ![p] = [Untried(p, k) EXCEPT !.step = "mark"]]
  /\ UNCHANGED <<rows, campaignStatus, requests, faults, history>>

(* The escrow pays the sender his whole balance there.  An attempt that    *)
(* fails is repeated; the last one counts.                                 *)
ContractPays(p, k) ==
  /\ At(p, "refund") /\ k \in passes[p].todo
  /\ Refund(SenderOf[k])
  /\ passes' = [passes EXCEPT ![p] = [Untried(p, k) EXCEPT !.step = "mark",
                                                           !.on = k]]
  /\ UNCHANGED <<rows, campaignStatus, requests, faults, history>>

Payable(c) == Refundable /\ balances[c] > 0 /\ PayoutOf(c) <= held

(* Slip: a refusal is taken for "refunded already". *)
RefusalMeansRefunded(p, k) ==
  /\ At(p, "refund") /\ k \in passes[p].todo
  /\ ~Payable(SenderOf[k])
  /\ passes' = [passes EXCEPT ![p] = [Untried(p, k) EXCEPT !.step = "mark",
                                                           !.on = k]]
  /\ UNCHANGED <<vars, rows, campaignStatus, requests, faults, history>>

ContractRefuses(p, k) ==
  /\ At(p, "refund") /\ k \in passes[p].todo
  /\ ~Payable(SenderOf[k])
  /\ passes' = [passes EXCEPT ![p] = Untried(p, k)]
  /\ UNCHANGED <<vars, rows, campaignStatus, requests, faults, history>>

(* Every attempt fails on its way. *)
ContractUnreachable(p, k) ==
  /\ At(p, "refund") /\ k \in passes[p].todo
  /\ Fault
  /\ passes' = [passes EXCEPT ![p] = Untried(p, k)]
  /\ UNCHANGED <<vars, rows, campaignStatus, requests, history>>

(* The escrow pays, the answer is lost, and the next attempt is refused. *)
AnswerLost(p, k) ==
  /\ At(p, "refund") /\ k \in passes[p].todo
  /\ Fault
  /\ Refund(SenderOf[k])
  /\ passes' = [passes EXCEPT ![p] = Untried(p, k)]
  /\ UNCHANGED <<rows, campaignStatus, requests, history>>

MarkRefunded(p) ==
  /\ At(p, "mark")
  /\ rows' = [rows EXCEPT ![passes[p].on] = "refunded"]
  /\ GotoWith(p, "refund", passes[p].todo)
  /\ UNCHANGED <<vars, campaignStatus, requests, faults, history>>

MarkFails(p) ==
  /\ At(p, "mark")
  /\ Fault
  /\ GotoWith(p, "refund", passes[p].todo)
  /\ UNCHANGED <<vars, rows, campaignStatus, requests, history>>

(* Slip: the pass ends with the rows the escrow was asked about. *)
EndAfterContract(p) ==
  /\ At(p, "refund") /\ passes[p].todo = {}
  /\ Goto(p, "done")
  /\ UNCHANGED <<vars, rows, campaignStatus, requests, faults, history>>

AllTried(p) ==
  /\ At(p, "refund") /\ passes[p].todo = {}
  /\ Goto(p, "rest")
  /\ UNCHANGED <<vars, rows, campaignStatus, requests, faults, history>>

(* Slip: rows that have a request already are listed again. *)
LeftWithRequested == Unrefunded

(* Slip: rows marked refunded are listed too. *)
LeftWithRefunded == {k \in Recorded : requests[k] = 0}

Left == {k \in Unrefunded : requests[k] = 0}

SelectLeft(p) ==
  /\ At(p, "rest")
  /\ GotoWith(p, IF Left = {} THEN "done" ELSE "queue", Left)
  /\ overlapped' = (overlapped \/ \E q \in Passes \ {p} : At(q, "queue"))
  /\ contested' = contested \cup (Left \cap WithEscrow)
  /\ UNCHANGED <<vars, rows, campaignStatus, requests, faults>>

(* One transaction for all; nothing rejects a second request for a row. *)
QueueRequests(p) ==
  /\ At(p, "queue")
  /\ requests' = [k \in Rows |-> IF k \in passes[p].todo THEN requests[k] + 1
                                                         ELSE requests[k]]
  /\ GotoWith(p, "done", {})
  /\ UNCHANGED <<vars, rows, campaignStatus, faults, history>>

QueryFails(p) ==
  /\ passes[p].step \in {"read", "rest", "queue"}
  /\ Fault
  /\ GotoWith(p, "stopped", {})
  /\ UNCHANGED <<vars, rows, campaignStatus, requests, history>>

Crash ==
  /\ Running # {}
  /\ Fault
  /\ passes' = [p \in Passes |-> IF p \in Running
                                 THEN [Idle EXCEPT !.step = "stopped"]
                                 ELSE passes[p]]
  /\ UNCHANGED <<vars, rows, campaignStatus, requests, history>>

---------------------------------------------------------------------------
PassStep(p) ==
  \/ ReadCampaign(p) \/ SelectUnrefunded(p)
  \/ \E k \in Rows : ContractPays(p, k) \/ ContractRefuses(p, k)
  \/ MarkRefunded(p) \/ AllTried(p) \/ SelectLeft(p) \/ QueueRequests(p)

PassFails(p) ==
  \/ SelectFails(p) \/ MarkFails(p) \/ QueryFails(p)
  \/ \E k \in Rows : ContractUnreachable(p, k) \/ AnswerLost(p, k)

DeskNext ==
  \/ \E k \in Rows : Pay(k) \/ Record(k)
  \/ FailCampaign \/ Notify \/ NotifyFails \/ Crash
  \/ \E a \in Admins : TriggerRefunds(a)
  \/ \E p \in Passes : PassStep(p) \/ PassFails(p)

(* Contributors, and anyone for them, call the escrow as they like. *)
ContractStep == Next /\ UNCHANGED desk

RefundsInit == Init /\ DeskInit
RefundsNext == ContractStep \/ DeskNext
RefundsSpec == RefundsInit /\ [][RefundsNext]_refundsVars

(* An await ends: calls and queries are answered or fail. *)
FairRefundsSpec ==
  /\ RefundsSpec
  /\ WF_refundsVars(Notify)
  /\ \A p \in Passes : WF_refundsVars(PassStep(p))

---------------------------------------------------------------------------
RefundsTypeOK ==
  /\ rows \in [Rows -> {"none", "paid", "recorded", "refunded"}]
  /\ campaignStatus \in {"active", "funded", "failed"}
  /\ requests \in [Rows -> Nat]
  /\ passes \in [Passes -> [step : Steps, todo : SUBSET Rows,
                            on : Rows \cup {None}]]
  /\ \A p \in Passes : At(p, "mark") => passes[p].on \in Rows
  /\ faults \in 0 .. MaxFaults /\ overlapped \in BOOLEAN
  /\ contested \in SUBSET Rows

(* A row gets one withdrawal request, however many passes, refusals and     *)
(* crashes there are, unless two passes listed what was left before either  *)
(* queued it (no index makes contribution_id unique).                       *)
QueuedOnce == ~overlapped => \A k \in Rows : requests[k] <= 1

MarkedOf(c) == {k \in Rows : SenderOf[k] = c /\ rows[k] = "refunded"}

(* A row is marked refunded only for a payment of the escrow to its sender: *)
(* one row for the one payment he can get, with several passes, lost        *)
(* answers and his own calls to the contract.                               *)
MarkedOnce ==
  \A c \in Contributors :
    /\ Cardinality(MarkedOf(c)) <= 1
    /\ MarkedOf(c) # {} => contributed[c] > 0 /\ balances[c] = 0

(* No row is both marked and queued, however the passes, the answers and    *)
(* the crashes fall, unless it was chosen for the escrow while it was       *)
(* queued or listed, or listed while another pass had it at the escrow: no  *)
(* pass looks at requests before it asks the escrow, and none locks a row.  *)
(* A payment whose answer or mark is lost is no mark; its row is queued.    *)
OneRemedy ==
  \A k \in Rows \ contested : ~(rows[k] = "refunded" /\ requests[k] > 0)

(* A row is answered once: queued once, or marked for a payment of its own. *)
AnsweredOnce == QueuedOnce /\ MarkedOnce /\ OneRemedy

(* Every row that is there when the hook starts is marked or queued in the  *)
(* end, though the escrow refuses or is out of reach, unless the hook       *)
(* itself is stopped or a late payment has completed the campaign.          *)
EveryRowIsAnswered ==
  \A k \in Rows :
    At(Hook, "notify") /\ rows[k] = "recorded"
      ~> \/ rows[k] = "refunded" \/ requests[k] > 0
         \/ At(Hook, "stopped") \/ campaignStatus = "funded"
===========================================================================
