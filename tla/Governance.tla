----------------------------- MODULE Governance -----------------------------
(***************************************************************************)
(* The backend beside the fee registry contract                            *)
(* (backend/src/services/governance.js): one database row per proposal,    *)
(* written after the chain has answered, brought up to date by an execute  *)
(* request or by a synchronization run.  Anybody may also call the         *)
(* contract directly, so every step of FeeRegistry may come in between.    *)
(*                                                                         *)
(* A request and a run end well within one unit of time, which here is of  *)
(* the order of the voting period: time does not pass while one is open.   *)
(***************************************************************************)
EXTENDS FeeRegistry

VARIABLES
  rows,                 \* governance_proposals_meta, by stellar_proposal_id
  creating,             \* proposals on the chain whose row is to be inserted
  finishing,            \* execute requests: "none", "answered" or the status read back
  syncing               \* the copy a synchronization run has read; id 0: none

deskVars == <<rows, creating, finishing, syncing>>
governanceVars == <<registryVars, deskVars>>

NoRow == [status |-> "none", for |-> 0, against |-> 0]
NoSync == [id |-> 0, proposal |-> NoProposal]

(* mapProposalStatus *)
ApiStatus(status) ==
  CASE status = "Active"   -> "active"
    [] status = "Failed"   -> "failed"
    [] status = "Executed" -> "executed"

RowStatuses == {"active", "failed", "executed"}

DeskInit ==
  /\ Init
  /\ rows = [id \in Ids |-> NoRow]
  /\ creating = {}
  /\ finishing = [id \in Ids |-> "none"]
  /\ syncing = NoSync

---------------------------------------------------------------------------
(* createProposal: the contract call, answered with the new id *)
CreateProposal(h, f) ==
  /\ ProposeChange(h, f)
  /\ creating' = creating \cup {counter + 1}
  /\ UNCHANGED <<rows, finishing, syncing>>

(* recordProposalCreated *)
RecordProposalCreated(id) ==
  /\ id \in creating
  /\ creating' = creating \ {id}
  /\ rows' = [rows EXCEPT ![id] = [NoRow EXCEPT !.status = "active"]]
  /\ UNCHANGED <<registryVars, finishing, syncing>>

(* Slip: the contract is not asked how the proposal ended. *)
ExecuteOptimistically(id) ==
  /\ rows[id].status = "active"
  /\ finishing[id] = "none"
  /\ ExecuteProposal(id)
  /\ finishing' = [finishing EXCEPT ![id] = "executed"]
  /\ UNCHANGED <<rows, creating, syncing>>

(* executeProposal: the checks on the row and the call.  A call the         *)
(* contract refuses changes nothing.                                        *)
ExecuteRequest(id) ==
  /\ rows[id].status = "active"
  /\ finishing[id] = "none"
  /\ ExecuteProposal(id)
  /\ finishing' = [finishing EXCEPT ![id] = "answered"]
  /\ UNCHANGED <<rows, creating, syncing>>

(* executeProposal reads the pending proposal back, which by now may be the *)
(* next one; getPendingProposal turns an error into null, recorded as       *)
(* failed.                                                                  *)
ReadBack(id) ==
  /\ finishing[id] = "answered"
  /\ \E status \in {ApiStatus(PendingCopy.status), "failed"} :
       finishing' = [finishing EXCEPT ![id] = status]
  /\ UNCHANGED <<registryVars, rows, creating, syncing>>

(* executeProposal: UPDATE governance_proposals_meta *)
RecordOutcome(id) ==
  /\ finishing[id] \in RowStatuses
  /\ rows' = [rows EXCEPT ![id].status = finishing[id]]
  /\ finishing' = [finishing EXCEPT ![id] = "none"]
  /\ UNCHANGED <<registryVars, creating, syncing>>

(* performProposalSync: readPendingProposal; one run at a time *)
SyncReads ==
  /\ syncing = NoSync
  /\ pending.id # 0
  /\ syncing' = pending
  /\ UNCHANGED <<registryVars, rows, creating, finishing>>

(* The row with what a copy of its proposal says. *)
RowOf(p) == [status |-> ApiStatus(p.status), for |-> p.for, against |-> p.against]

(* performProposalSync updates the row of the proposal it read, if there is *)
(* one, also when the proposal has moved on since.                          *)
SyncWrites ==
  /\ syncing # NoSync
  /\ syncing' = NoSync
  /\ rows' = IF rows[syncing.id] = NoRow THEN rows
             ELSE [rows EXCEPT ![syncing.id] = RowOf(syncing.proposal)]
  /\ UNCHANGED <<registryVars, creating, finishing>>

(* The process stops, or the database refuses every write: whatever was to  *)
(* be recorded is lost.                                                     *)
Crash ==
  /\ creating' = {}
  /\ finishing' = [id \in Ids |-> "none"]
  /\ syncing' = NoSync
  /\ UNCHANGED <<registryVars, rows>>

(* A call of the contract that does not come through the backend. *)
DirectCall ==
  /\ \/ \E h \in Holders, f \in ProposedFees : ProposeChange(h, f)
     \/ \E h \in Holders, id \in Ids, inFavor \in BOOLEAN : Vote(h, id, inFavor)
     \/ \E h \in Holders, id \in Ids : ReclaimVoteDeposit(h, id)
     \/ \E id \in Ids : ExecuteProposal(id)
     \/ \E f \in AdminFees : AdminSetFee(f)
     \/ \E h, to \in Holders, a \in TransferAmounts : TransferTo(h, to, a)
     \/ \E h \in Holders, a \in TransferAmounts : TransferToRegistry(h, a)
  /\ UNCHANGED deskVars

TimePasses ==
  /\ creating = {} /\ syncing = NoSync
  /\ \A id \in Ids : finishing[id] = "none"
  /\ Tick
  /\ UNCHANGED deskVars

DeskNext ==
  \/ \E h \in Holders, f \in ProposedFees : CreateProposal(h, f)
  \/ \E id \in Ids :
       RecordProposalCreated(id) \/ ExecuteRequest(id) \/ ReadBack(id)
         \/ RecordOutcome(id)
  \/ SyncReads \/ SyncWrites
  \/ Crash
  \/ DirectCall
  \/ TimePasses

DeskSpec == DeskInit /\ [][DeskNext]_governanceVars

---------------------------------------------------------------------------
(* Types, of the contract and of the backend.  Every status a row may get   *)
(* is one its CHECK constraint allows (mapProposalStatus), and an           *)
(* unanswered request never reaches a row.                                  *)
GovernanceTypeOK ==
  /\ RegistryTypeOK
  /\ rows \in [Ids -> [status : RowStatuses \cup {"none"}, for : Nat, against : Nat]]
  /\ creating \subseteq Ids
  /\ finishing \in [Ids -> RowStatuses \cup {"none", "answered"}]
  /\ syncing \in [id : 0 .. MaxProposals, proposal : Proposals]

(* A row stands for a proposal of the contract and never shows more votes   *)
(* than it has, however late a run writes what it read, and whatever was    *)
(* proposed meanwhile (performProposalSync).  It says executed only of a    *)
(* proposal that was: the read-back may see the next proposal instead, but  *)
(* that one cannot have been executed so soon.                              *)
ProposalRowsAreReal ==
  \A id \in Ids :
    rows[id] # NoRow =>
      /\ id <= counter
      /\ rows[id].for <= stored[id].for
      /\ rows[id].against <= stored[id].against
      /\ rows[id].status = "executed" => stored[id].status = "Executed"
=============================================================================
