------------------------ MODULE CampaignContracts -------------------------
(***************************************************************************)
(* One campaign's contracts as the backend deploys them                    *)
(* (deployCampaignContracts in backend/src/services/sorobanService.js):    *)
(* an escrow whose admin is the first milestones contract, that contract,  *)
(* and, after an upgrade, a second milestones contract that took over its  *)
(* milestones through the migration contract.                              *)
(*                                                                         *)
(* The escrow obeys its admin only, and the admin is a contract that calls *)
(* approve_withdrawal and execute_withdrawal and nothing else.  So of the  *)
(* escrow's operations these remain: deposit, refund, direct transfers and *)
(* the two calls inside approve_milestone.  Those run in one transaction   *)
(* with it: a panic in one rolls all of them back.                         *)
(***************************************************************************)
EXTENDS Escrow

CONSTANTS
  Milestones,      \* the milestones, the same in both contracts
  ReleaseBps,      \* the share of each, in basis points
  Successor        \* the second milestones contract (milestones_v2)

Contracts == {Admin, Successor}

ASSUME MilestonesAssumption ==
  /\ IsFiniteSet(Milestones) /\ Milestones # {}
  /\ ReleaseBps \in [Milestones -> Nat]
  /\ Total(ReleaseBps) = BPS
ASSUME ContractsAssumption == Successor # Admin /\ None \notin Contracts

VARIABLES
  status,          \* MilestoneStatus per contract and milestone
  paused,          \* DataKey::Paused per contract
  deployed,        \* the contracts that have been initialized
  migrated,        \* history: the successor has taken over the milestones
  released         \* history: what approving each milestone released

milestoneVars == <<status, paused, deployed, migrated, released>>
escrowVars == vars
allVars == <<escrowVars, milestoneVars>>

Statuses == {"Pending", "Submitted", "Approved", "Rejected"}

---------------------------------------------------------------------------
CampaignInit ==
  /\ Init
  /\ status = [v \in Contracts |-> [m \in Milestones |-> "Pending"]]
  /\ paused = [v \in Contracts |-> FALSE]
  /\ deployed = {Admin}
  /\ migrated = FALSE
  /\ released = [m \in Milestones |-> 0]

SetStatus(v, m, s) == status' = [status EXCEPT ![v][m] = s]

SubmitMilestone(v, m) ==
  /\ v \in deployed
  /\ ~paused[v]
  /\ status[v][m] \in {"Pending", "Rejected"}
  /\ SetStatus(v, m, "Submitted")
  /\ UNCHANGED <<escrowVars, paused, deployed, migrated, released>>

(* Slip: the escrow's target check is gone. *)
ReleaseBeforeTarget(v, amount) ==
  /\ v = Admin
  /\ ~Closed
  /\ held >= amount
  /\ held' = held - amount
  /\ withdrawn' = withdrawn + amount
  /\ feesPaid' = feesPaid + FeeOf(amount)
  /\ UNCHANGED <<now, deposits, approvals, campaignFailed, refunds, settings,
                 direct, overridden, drained>>

(* The escrow calls of approve_milestone: approve_withdrawal, which only    *)
(* the admin may make, then execute_withdrawal of the same amount to the    *)
(* same destination, which leaves the approvals as they were.               *)
ApproveAndExecute(v, amount) ==
  /\ v = Admin
  /\ ~Closed
  /\ totalRaised >= Target \/ milestonesContract = Admin
  /\ held >= amount
  /\ held' = held - amount
  /\ withdrawn' = withdrawn + amount
  /\ feesPaid' = feesPaid + FeeOf(amount)
  /\ UNCHANGED <<now, deposits, approvals, campaignFailed, refunds, settings,
                 direct, overridden, drained>>

(* Slip: the share is rounded up. *)
ShareRoundedUp(m) == (totalRaised * ReleaseBps[m] + BPS - 1) \div BPS

ShareOf(m) == (totalRaised * ReleaseBps[m]) \div BPS

(* Slip: an approved milestone can be approved again. *)
ApproveAgain(v, m) ==
  /\ v \in deployed
  /\ ~paused[v]
  /\ status[v][m] \in {"Submitted", "Approved"}
  /\ SetStatus(v, m, "Approved")
  /\ IF ShareOf(m) > 0 THEN ApproveAndExecute(v, ShareOf(m)) ELSE UNCHANGED escrowVars
  /\ released' = [released EXCEPT ![m] = released[m] + ShareOf(m)]
  /\ UNCHANGED <<paused, deployed, migrated>>

ApproveMilestone(v, m) ==
  /\ v \in deployed
  /\ ~paused[v]
  /\ status[v][m] = "Submitted"
  /\ SetStatus(v, m, "Approved")
  /\ IF ShareOf(m) > 0 THEN ApproveAndExecute(v, ShareOf(m)) ELSE UNCHANGED escrowVars
  /\ released' = [released EXCEPT ![m] = released[m] + ShareOf(m)]
  /\ UNCHANGED <<paused, deployed, migrated>>

(* Only the successor looks at its pause flag here. *)
RejectMilestone(v, m) ==
  /\ v \in deployed
  /\ v = Successor => ~paused[v]
  /\ status[v][m] = "Submitted"
  /\ SetStatus(v, m, "Rejected")
  /\ UNCHANGED <<escrowVars, paused, deployed, migrated, released>>

SetPaused(v, flag) ==
  /\ v \in deployed
  /\ paused' = [paused EXCEPT ![v] = flag]
  /\ UNCHANGED <<escrowVars, status, deployed, migrated, released>>

---------------------------------------------------------------------------
(* contractUpgrade.js deploys the successor with the campaign's milestones *)
(* and then drives the migration contract.                                 *)
DeploySuccessor ==
  /\ Successor \notin deployed
  /\ deployed' = deployed \cup {Successor}
  /\ UNCHANGED <<escrowVars, status, paused, migrated, released>>

CopyMilestones == status' = [status EXCEPT ![Successor] = status[Admin]]

(* The platform may call migrate_from_v1 by itself, at any time. *)
MigrateFromV1 ==
  /\ Successor \in deployed
  /\ CopyMilestones
  /\ migrated' = TRUE
  /\ UNCHANGED <<escrowVars, paused, deployed, released>>

(* The migration contract pauses the first contract and copies, atomically. *)
Migrate ==
  /\ Successor \in deployed
  /\ paused' = [paused EXCEPT ![Admin] = TRUE]
  /\ CopyMilestones
  /\ migrated' = TRUE
  /\ UNCHANGED <<escrowVars, deployed, released>>

---------------------------------------------------------------------------
EscrowStep ==
  /\ \/ \E c \in Contributors : Refund(c) \/ \E a \in DepositAmounts : Deposit(c, a)
     \/ \E a \in DirectAmounts : TransferDirectly(a)
     \/ Tick
  /\ UNCHANGED milestoneVars

MilestoneStep ==
  \E v \in Contracts, m \in Milestones :
    SubmitMilestone(v, m) \/ ApproveMilestone(v, m) \/ RejectMilestone(v, m)

UpgradeStep ==
  \/ \E v \in Contracts, flag \in BOOLEAN : SetPaused(v, flag)
  \/ DeploySuccessor \/ MigrateFromV1 \/ Migrate

CampaignNext == EscrowStep \/ MilestoneStep \/ UpgradeStep

CampaignSpec == CampaignInit /\ [][CampaignNext]_allVars

---------------------------------------------------------------------------
CampaignTypeOK ==
  /\ TypeOK
  /\ status \in [Contracts -> [Milestones -> Statuses]]
  /\ paused \in [Contracts -> BOOLEAN]
  /\ deployed \in SUBSET Contracts
  /\ migrated \in BOOLEAN
  /\ released \in [Milestones -> Nat]

(* Over both contracts and any migrations back and forth, a milestone never *)
(* releases more than its share of all that was contributed.                *)
ReleasedWithinShare ==
  \A m \in Milestones :
    released[m] * BPS <= Total(contributed) * ReleaseBps[m]

(* Approving never runs dry: while the campaign is open, the escrow holds   *)
(* the share of every milestone its admin contract has not approved yet,    *)
(* all of them together, so execute_withdrawal never panics for want of     *)
(* tokens in the middle of approve_milestone.                               *)
OpenShares ==
  [m \in Milestones |-> IF status[Admin][m] = "Approved" THEN 0 ELSE ShareOf(m)]
ReleasesNeverRunDry == ~isRefunding => Total(OpenShares) <= held

(* Whichever contract approves a milestone, and whenever, its share is      *)
(* there, and it is released once.                                          *)
ReleasesAreSound == ReleasedWithinShare /\ ReleasesNeverRunDry

(* The contracts implement the abstract custody: a campaign either pays its *)
(* creator or refunds its contributors, everyone in full, whatever the      *)
(* order of deposits, approvals, migrations, refunds and time.              *)
Custody == INSTANCE CampaignCustody WITH released <- withdrawn, returned <- refundPaid
ImplementsCustody == Custody!CustodySpec
===========================================================================
