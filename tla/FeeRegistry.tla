---------------------------- MODULE FeeRegistry ----------------------------
(***************************************************************************)
(* The fee registry contract: token holders vote on the platform fee       *)
(* (contracts/soroban/contracts/fee_registry/src/lib.rs).                  *)
(*                                                                         *)
(* A call is one atomic step, a panic rolls it back: every early return is *)
(* a guard.  The contract keeps two copies of a proposal, PendingProposal  *)
(* in instance storage and Proposal(id) in persistent storage; different   *)
(* operations read different copies, so both are modelled.  The governance *)
(* token is the external asset contract: balances that move.               *)
(***************************************************************************)
EXTENDS TokenSums

CONSTANTS
  Holders,              \* the accounts that may hold the governance token
  Allotments,           \* the initial distributions of the token
  MIN_TOKEN_BALANCE,    \* 1000 in the code
  QUORUM_THRESHOLD,     \* 1000 in the code
  PROPOSAL_VOTING_PERIOD, \* 7 days in the code
  AdminFees,            \* the fees the admin asks for, at initialize or later
  ProposedFees,         \* the fees a proposal may ask for
  TransferAmounts,      \* the amounts holders may send each other
  MaxProposals,         \* bound: the proposals ever made
  MaxAdminSets,         \* bound: the admin's changes
  MaxTime               \* bound: the last ledger timestamp considered

MAX_FEE_BPS == 1000
MAX_CREATOR_SHARE_BPS == 10000
Ids == 1 .. MaxProposals

ASSUME HoldersAssumption == IsFiniteSet(Holders)
ASSUME AllotmentsAssumption == Allotments \subseteq [Holders -> Nat]
ASSUME FeesAssumption ==
  AdminFees \cup ProposedFees \subseteq [fee : Nat, share : Nat]
ASSUME RegistryBoundsAssumption ==
  /\ MIN_TOKEN_BALANCE \in Nat /\ QUORUM_THRESHOLD \in Nat
  /\ PROPOSAL_VOTING_PERIOD \in Nat \ {0} /\ TransferAmounts \subseteq Nat \ {0}
  /\ MaxProposals \in Nat /\ MaxAdminSets \in Nat /\ MaxTime \in Nat

VARIABLES
  now,                  \* env.ledger().timestamp()
  fees,                 \* DataKey::PlatformFeeBps and CreatorShareBps
  counter,              \* DataKey::ProposalCounter
  pending,              \* DataKey::PendingProposal; id 0: there is none
  stored,               \* DataKey::Proposal(id)
  votes,                \* DataKey::ProposalVotes(id, voter)
  deposit,              \* DataKey::LockedDeposit(id, voter); 0: there is none
  balance,              \* the holders' balances in the governance token
  locked,               \* the contract's own balance in it
  adminSets             \* how often the admin set the fees; read by no operation

registryVars ==
  <<now, fees, counter, pending, stored, votes, deposit, balance, locked,
    adminSets>>

---------------------------------------------------------------------------
Proposal(f, deadline, status) ==
  [fees |-> f, for |-> 0, against |-> 0, deadline |-> deadline,
   status |-> status]

(* What stands for an entry that is not in storage. *)
NoProposal == Proposal([fee |-> 0, share |-> 0], 0, "None")

(* validate_fees *)
ValidFees(f) == f.fee <= MAX_FEE_BPS /\ f.share <= MAX_CREATOR_SHARE_BPS

(* The instance copy without its id. *)
PendingCopy == pending.proposal

(* Both copies are written by every operation that changes a proposal. *)
Save(id, p) ==
  /\ pending' = [id |-> id, proposal |-> p]
  /\ stored' = [stored EXCEPT ![id] = p]

---------------------------------------------------------------------------
(* initialize; the token exists before and is distributed somehow *)
Init ==
  /\ now = 0
  /\ fees \in {f \in AdminFees : ValidFees(f)}
  /\ counter = 0
  /\ pending = [id |-> 0, proposal |-> NoProposal]
  /\ stored = [id \in Ids |-> NoProposal]
  /\ votes = [id \in Ids |-> [h \in Holders |-> "none"]]
  /\ deposit = [id \in Ids |-> [h \in Holders |-> 0]]
  /\ balance \in Allotments
  /\ locked = 0
  /\ adminSets = 0

(* Slip: the fees are checked when they are voted on only. *)
ProposeUnchecked(h, f) ==
  /\ balance[h] >= MIN_TOKEN_BALANCE
  /\ PendingCopy.status # "Active"
  /\ counter < MaxProposals
  /\ now + PROPOSAL_VOTING_PERIOD <= MaxTime
  /\ counter' = counter + 1
  /\ Save(counter + 1, Proposal(f, now + PROPOSAL_VOTING_PERIOD, "Active"))
  /\ UNCHANGED <<now, fees, votes, deposit, balance, locked, adminSets>>

(* Slip: a proposal whose deadline has passed makes way unexecuted. *)
ProposeOverOverdue(h, f) ==
  /\ ValidFees(f)
  /\ balance[h] >= MIN_TOKEN_BALANCE
  /\ PendingCopy.status = "Active" => now >= PendingCopy.deadline
  /\ counter < MaxProposals
  /\ now + PROPOSAL_VOTING_PERIOD <= MaxTime
  /\ counter' = counter + 1
  /\ Save(counter + 1, Proposal(f, now + PROPOSAL_VOTING_PERIOD, "Active"))
  /\ UNCHANGED <<now, fees, votes, deposit, balance, locked, adminSets>>

(* propose_change; the last guard keeps the deadline within MaxTime *)
ProposeChange(h, f) ==
  /\ ValidFees(f)
  /\ balance[h] >= MIN_TOKEN_BALANCE
  /\ PendingCopy.status # "Active"
  /\ counter < MaxProposals
  /\ now + PROPOSAL_VOTING_PERIOD <= MaxTime
  /\ counter' = counter + 1
  /\ Save(counter + 1, Proposal(f, now + PROPOSAL_VOTING_PERIOD, "Active"))
  /\ UNCHANGED <<now, fees, votes, deposit, balance, locked, adminSets>>

(* The proposal with a voter's tokens added to one side. *)
Counted(p, inFavor, weight) ==
  IF inFavor THEN [p EXCEPT !.for = p.for + weight]
             ELSE [p EXCEPT !.against = p.against + weight]

(* Slip: the tokens stay with the voter, who may pass them on. *)
VoteWithoutLocking(h, id, inFavor) ==
  /\ pending.id = id /\ PendingCopy.status = "Active"
  /\ now < PendingCopy.deadline
  /\ votes[id][h] = "none"
  /\ balance[h] > 0
  /\ votes' = [votes EXCEPT ![id][h] = IF inFavor THEN "for" ELSE "against"]
  /\ Save(id, Counted(PendingCopy, inFavor, balance[h]))
  /\ UNCHANGED <<now, fees, counter, deposit, balance, locked, adminSets>>

(* vote: the whole balance of the voter is counted, and locked so that it   *)
(* cannot vote again in other hands                                         *)
Vote(h, id, inFavor) ==
  /\ pending.id = id /\ PendingCopy.status = "Active"
  /\ now < PendingCopy.deadline
  /\ votes[id][h] = "none"
  /\ balance[h] > 0
  /\ votes' = [votes EXCEPT ![id][h] = IF inFavor THEN "for" ELSE "against"]
  /\ deposit' = [deposit EXCEPT ![id][h] = balance[h]]
  /\ locked' = locked + balance[h]
  /\ balance' = [balance EXCEPT ![h] = 0]
  /\ Save(id, Counted(PendingCopy, inFavor, balance[h]))
  /\ UNCHANGED <<now, fees, counter, adminSets>>

(* Slip: the deposit entry is not removed. *)
ReclaimAndKeepEntry(h, id) ==
  /\ stored[id].status # "None"
  /\ stored[id].status = "Active" => now >= stored[id].deadline
  /\ deposit[id][h] > 0
  /\ deposit[id][h] <= locked
  /\ locked' = locked - deposit[id][h]
  /\ balance' = [balance EXCEPT ![h] = balance[h] + deposit[id][h]]
  /\ UNCHANGED <<now, fees, counter, pending, stored, votes, deposit, adminSets>>

(* reclaim_vote_deposit reads the persistent copy.  The fallback to the     *)
(* instance copy is never taken while both are written together.            *)
ReclaimVoteDeposit(h, id) ==
  /\ stored[id].status # "None"
  /\ stored[id].status = "Active" => now >= stored[id].deadline
  /\ deposit[id][h] > 0
  /\ deposit[id][h] <= locked
  /\ locked' = locked - deposit[id][h]
  /\ balance' = [balance EXCEPT ![h] = balance[h] + deposit[id][h]]
  /\ deposit' = [deposit EXCEPT ![id][h] = 0]
  /\ UNCHANGED <<now, fees, counter, pending, stored, votes, adminSets>>

Passes(p) == p.for > p.against /\ p.for >= QUORUM_THRESHOLD

(* Slip: a proposal that was executed can be executed again. *)
ExecuteAgain(id) ==
  /\ pending.id = id /\ id # 0
  /\ now >= PendingCopy.deadline
  /\ IF Passes(PendingCopy)
     THEN /\ fees' = PendingCopy.fees
          /\ Save(id, [PendingCopy EXCEPT !.status = "Executed"])
     ELSE /\ UNCHANGED fees
          /\ Save(id, [PendingCopy EXCEPT !.status = "Failed"])
  /\ UNCHANGED <<now, counter, votes, deposit, balance, locked, adminSets>>

(* execute_proposal; anybody may call it *)
ExecuteProposal(id) ==
  /\ pending.id = id /\ PendingCopy.status = "Active"
  /\ now >= PendingCopy.deadline
  /\ IF Passes(PendingCopy)
     THEN /\ fees' = PendingCopy.fees
          /\ Save(id, [PendingCopy EXCEPT !.status = "Executed"])
     ELSE /\ UNCHANGED fees
          /\ Save(id, [PendingCopy EXCEPT !.status = "Failed"])
  /\ UNCHANGED <<now, counter, votes, deposit, balance, locked, adminSets>>

(* admin_set_fee *)
AdminSetFee(f) ==
  /\ adminSets < MaxAdminSets
  /\ ValidFees(f)
  /\ fees' = f
  /\ adminSets' = adminSets + 1
  /\ UNCHANGED <<now, counter, pending, stored, votes, deposit, balance, locked>>

(* The token is free to move between its holders, the voter's next hands    *)
(* included, and by mistake to the contract itself.                         *)
TransferTo(h, to, amount) ==
  /\ h # to
  /\ amount <= balance[h]
  /\ balance' = [balance EXCEPT ![h] = balance[h] - amount,
                                ![to] = balance[to] + amount]
  /\ UNCHANGED <<now, fees, counter, pending, stored, votes, deposit, locked,
                 adminSets>>

TransferToRegistry(h, amount) ==
  /\ amount <= balance[h]
  /\ balance' = [balance EXCEPT ![h] = balance[h] - amount]
  /\ locked' = locked + amount
  /\ UNCHANGED <<now, fees, counter, pending, stored, votes, deposit, adminSets>>

Tick ==
  /\ now < MaxTime
  /\ now' = now + 1
  /\ UNCHANGED <<fees, counter, pending, stored, votes, deposit, balance,
                 locked, adminSets>>

Next ==
  \/ \E h \in Holders, f \in ProposedFees : ProposeChange(h, f)
  \/ \E h \in Holders, id \in Ids, inFavor \in BOOLEAN : Vote(h, id, inFavor)
  \/ \E h \in Holders, id \in Ids : ReclaimVoteDeposit(h, id)
  \/ \E id \in Ids : ExecuteProposal(id)
  \/ \E f \in AdminFees : AdminSetFee(f)
  \/ \E h, to \in Holders, a \in TransferAmounts : TransferTo(h, to, a)
  \/ \E h \in Holders, a \in TransferAmounts : TransferToRegistry(h, a)
  \/ Tick

Spec == Init /\ [][Next]_registryVars

---------------------------------------------------------------------------
Proposals ==
  [fees : {f \in [fee : Nat, share : Nat] : ValidFees(f)},
   for : Nat, against : Nat, deadline : Nat,
   status : {"None", "Active", "Failed", "Executed"}]

(* Types.  Whatever was proposed, voted or set, no fee above the caps is    *)
(* ever in force or stored in a proposal (validate_fees on every path).     *)
RegistryTypeOK ==
  /\ now \in Nat
  /\ fees \in [fee : Nat, share : Nat] /\ ValidFees(fees)
  /\ counter \in 0 .. MaxProposals
  /\ pending \in [id : 0 .. MaxProposals, proposal : Proposals]
  /\ stored \in [Ids -> Proposals]
  /\ votes \in [Ids -> [Holders -> {"none", "for", "against"}]]
  /\ deposit \in [Ids -> [Holders -> Nat]]
  /\ balance \in [Holders -> Nat]
  /\ locked \in Nat
  /\ adminSets \in Nat

(* What is locked for a proposal. *)
LockedFor == [id \in Ids |-> Total(deposit[id])]

(* All the tokens there are. *)
TokenSupply == Total(balance) + locked

(* Every deposit still owed to a voter is held, over all the proposals at   *)
(* once (vote locks, reclaim_vote_deposit returns and forgets).             *)
DepositsBacked == Total(LockedFor) <= locked

(* A proposal never counts more tokens than exist.                          *)
CountsAreTokens ==
  \A id \in Ids : stored[id].for + stored[id].against <= TokenSupply

(* "so tokens cannot vote twice" in vote: however the tokens are passed on   *)
(* between votes, a proposal counts each at most once, and the deposits      *)
(* that ensure it can all be reclaimed, without using another's tokens.      *)
VotesAreTokens == DepositsBacked /\ CountsAreTokens

(* The two copies of the last proposal agree, and no other proposal is      *)
(* open: reclaim decides by one copy what vote and execute decide by the    *)
(* other.                                                                   *)
OneOpenProposal ==
  \A id \in Ids :
    /\ pending.id = id => stored[id] = PendingCopy
    /\ stored[id].status = "Active" => pending.id = id
    /\ stored[id].status = "None" <=> id > counter

(* A vote is one of tokens, each counted once, and on one proposal at a     *)
(* time.                                                                    *)
VotingIsSound == VotesAreTokens /\ OneOpenProposal

(* The fees in force change in two ways only: the admin sets them, or an    *)
(* open proposal ends in this very step, after its deadline, with a         *)
(* majority and a quorum, and its fees are the new ones.                    *)
EveryChangeHasACause ==
  [][fees' # fees =>
       \/ adminSets' > adminSets
       \/ \E id \in Ids :
            /\ stored[id].status = "Active" /\ stored'[id].status = "Executed"
            /\ fees' = stored[id].fees
            /\ now >= stored[id].deadline
            /\ Passes(stored[id])]_registryVars
============================================================================
