-------------------------- MODULE GovernanceProofs --------------------------
(***************************************************************************)
(* For any holders, distributions of the token, fees and periods: what the *)
(* fee registry keeps right, and that the backend beside it adds no step   *)
(* the contract does not have.                                             *)
(***************************************************************************)
EXTENDS Governance, TokenSumTheorems

---------------------------------------------------------------------------
(* Every step of the backend is a call of the contract or none.            *)
THEOREM DeskCallsRegistry == DeskSpec => Spec
<1>1. DeskInit => Init
  BY DEF DeskInit
<1>2. [DeskNext]_governanceVars => [Next]_registryVars
  <2>. SUFFICES ASSUME [DeskNext]_governanceVars PROVE [Next]_registryVars
    OBVIOUS
  <2>1. ASSUME NEW h \in Holders, NEW f \in ProposedFees, CreateProposal(h, f)
        PROVE  Next
    BY <2>1 DEF CreateProposal, Next
  <2>2. ASSUME NEW id \in Ids, ExecuteRequest(id) PROVE Next
    BY <2>2 DEF ExecuteRequest, Next
  <2>3. CASE DirectCall
    BY <2>3 DEF DirectCall, Next
  <2>4. CASE TimePasses
    BY <2>4 DEF TimePasses, Next
  <2>5. ASSUME NEW id \in Ids,
               RecordProposalCreated(id) \/ ReadBack(id) \/ RecordOutcome(id)
        PROVE  UNCHANGED registryVars
    BY <2>5 DEF RecordProposalCreated, ReadBack, RecordOutcome
  <2>6. CASE SyncReads \/ SyncWrites \/ Crash \/ UNCHANGED governanceVars
    BY <2>6 DEF SyncReads, SyncWrites, Crash, governanceVars
  <2>. QED BY <2>1, <2>2, <2>3, <2>4, <2>5, <2>6 DEF DeskNext
<1>. QED BY <1>1, <1>2, PTL DEF DeskSpec, Spec

---------------------------------------------------------------------------
(* Types. *)
Fees == [fee : Nat, share : Nat]

LEMMA FeesFacts ==
  /\ \A f \in AdminFees \cup ProposedFees : f \in Fees
  /\ \A f \in Fees : ValidFees(f) =>
       \A d \in Nat : \A s \in {"None", "Active"} : Proposal(f, d, s) \in Proposals
<1>1. \A f \in AdminFees \cup ProposedFees : f \in Fees
  BY FeesAssumption DEF Fees
<1>2. ASSUME NEW f \in Fees, ValidFees(f), NEW d \in Nat, NEW s \in {"None", "Active"}
      PROVE  Proposal(f, d, s) \in Proposals
  <2>1. f \in {g \in [fee : Nat, share : Nat] : ValidFees(g)}
    BY <1>2 DEF Fees
  <2>. QED BY <2>1 DEF Proposal, Proposals
<1>. QED BY <1>1, <1>2

LEMMA NoProposalType == NoProposal \in Proposals
<1>1. [fee |-> 0, share |-> 0] \in Fees /\ ValidFees([fee |-> 0, share |-> 0])
  BY DEF Fees, ValidFees, MAX_FEE_BPS, MAX_CREATOR_SHARE_BPS
<1>. QED BY <1>1, FeesFacts DEF NoProposal

(* What the operations make of a proposal. *)
LEMMA ProposalFacts ==
  ASSUME NEW p \in Proposals, NEW n \in Nat, NEW b \in BOOLEAN
  PROVE  /\ Counted(p, b, n) \in Proposals
         /\ Counted(p, b, n).for + Counted(p, b, n).against = p.for + p.against + n
         /\ Counted(p, b, n).status = p.status
         /\ Counted(p, b, n).deadline = p.deadline
         /\ [p EXCEPT !.status = "Executed"] \in Proposals
         /\ [p EXCEPT !.status = "Failed"] \in Proposals
         /\ p.fees \in Fees /\ ValidFees(p.fees)
         /\ p.for \in Nat /\ p.against \in Nat /\ p.deadline \in Nat
<1>1. /\ p.for \in Nat /\ p.against \in Nat /\ p.deadline \in Nat
      /\ p.fees \in Fees /\ ValidFees(p.fees)
  BY DEF Proposals, Fees
<1>2. /\ [p EXCEPT !.status = "Executed"] \in Proposals
      /\ [p EXCEPT !.status = "Failed"] \in Proposals
  BY DEF Proposals
<1>3. /\ [p EXCEPT !.for = p.for + n] \in Proposals
      /\ [p EXCEPT !.against = p.against + n] \in Proposals
  BY <1>1 DEF Proposals
<1>4. \A k \in Nat :
        /\ [p EXCEPT !.for = k].for = k /\ [p EXCEPT !.for = k].against = p.against
        /\ [p EXCEPT !.against = k].against = k /\ [p EXCEPT !.against = k].for = p.for
        /\ [p EXCEPT !.for = k].status = p.status
        /\ [p EXCEPT !.against = k].status = p.status
        /\ [p EXCEPT !.for = k].deadline = p.deadline
        /\ [p EXCEPT !.against = k].deadline = p.deadline
  BY DEF Proposals
<1>5. p.for + n \in Nat /\ p.against + n \in Nat
  BY <1>1
<1>. QED BY <1>1, <1>2, <1>3, <1>4, <1>5 DEF Counted

FeesTypeOK ==
  /\ now \in Nat /\ adminSets \in Nat
  /\ fees \in [fee : Nat, share : Nat] /\ ValidFees(fees)

ProposalsTypeOK ==
  /\ counter \in 0 .. MaxProposals
  /\ pending \in [id : 0 .. MaxProposals, proposal : Proposals]
  /\ stored \in [Ids -> Proposals]

TokensTypeOK ==
  /\ votes \in [Ids -> [Holders -> {"none", "for", "against"}]]
  /\ deposit \in [Ids -> [Holders -> Nat]]
  /\ balance \in [Holders -> Nat]
  /\ locked \in Nat

LEMMA TypeParts == RegistryTypeOK <=> FeesTypeOK /\ ProposalsTypeOK /\ TokensTypeOK
BY DEF RegistryTypeOK, FeesTypeOK, ProposalsTypeOK, TokensTypeOK

LEMMA SaveType ==
  ASSUME ProposalsTypeOK, NEW id \in Ids, NEW p \in Proposals, Save(id, p)
  PROVE  /\ pending' \in [id : 0 .. MaxProposals, proposal : Proposals]
         /\ stored' \in [Ids -> Proposals]
BY RegistryBoundsAssumption DEF ProposalsTypeOK, Save, Ids

LEMMA FeesStep ==
  ASSUME FeesTypeOK, ProposalsTypeOK, [Next]_registryVars
  PROVE  FeesTypeOK'
<1>. USE DEF FeesTypeOK
<1>0. PendingCopy \in Proposals
  BY DEF ProposalsTypeOK, PendingCopy
<1>1. ASSUME NEW f \in AdminFees, AdminSetFee(f) PROVE FeesTypeOK'
  BY <1>1, FeesFacts DEF AdminSetFee, Fees, ValidFees
<1>2. ASSUME NEW id \in Ids, ExecuteProposal(id) PROVE FeesTypeOK'
  <2>1. fees' \in {fees, PendingCopy.fees} /\ now' = now /\ adminSets' = adminSets
    BY <1>2 DEF ExecuteProposal
  <2>2. PendingCopy.fees \in Fees /\ ValidFees(PendingCopy.fees)
    BY <1>0, ProposalFacts, RegistryBoundsAssumption
  <2>. QED BY <2>1, <2>2 DEF Fees, ValidFees
<1>3. CASE Tick
  BY <1>3 DEF Tick, ValidFees
<1>4. ASSUME UNCHANGED <<now, fees, adminSets>> PROVE FeesTypeOK'
  BY <1>4 DEF ValidFees
<1>5. ASSUME NEW h \in Holders,
             \/ \E f \in ProposedFees : ProposeChange(h, f)
             \/ \E id \in Ids, b \in BOOLEAN : Vote(h, id, b)
             \/ \E id \in Ids : ReclaimVoteDeposit(h, id)
      PROVE  FeesTypeOK'
  BY <1>4, <1>5 DEF ProposeChange, Vote, ReclaimVoteDeposit
<1>6. ASSUME NEW h \in Holders, NEW a \in TransferAmounts,
             (\E to \in Holders : TransferTo(h, to, a)) \/ TransferToRegistry(h, a)
      PROVE  FeesTypeOK'
  BY <1>4, <1>6 DEF TransferTo, TransferToRegistry
<1>7. CASE UNCHANGED registryVars
  BY <1>4, <1>7 DEF registryVars
<1>. QED BY <1>1, <1>2, <1>3, <1>5, <1>6, <1>7 DEF Next

LEMMA ProposalsStep ==
  ASSUME FeesTypeOK, ProposalsTypeOK, TokensTypeOK, [Next]_registryVars
  PROVE  ProposalsTypeOK'
<1>0. /\ PendingCopy \in Proposals /\ now \in Nat /\ counter \in 0 .. MaxProposals
      /\ MaxProposals \in Nat
  BY RegistryBoundsAssumption DEF ProposalsTypeOK, FeesTypeOK, PendingCopy
<1>1. ASSUME NEW h \in Holders, NEW f \in ProposedFees, ProposeChange(h, f)
      PROVE  ProposalsTypeOK'
  <2>1. Proposal(f, now + PROPOSAL_VOTING_PERIOD, "Active") \in Proposals
    BY <1>0, <1>1, FeesFacts, RegistryBoundsAssumption DEF ProposeChange
  <2>2. counter + 1 \in Ids
    BY <1>0, <1>1 DEF ProposeChange, Ids
  <2>. QED BY <1>0, <1>1, <2>1, <2>2, SaveType DEF ProposeChange, ProposalsTypeOK, Ids
<1>2. ASSUME NEW h \in Holders, NEW id \in Ids, NEW b \in BOOLEAN, Vote(h, id, b)
      PROVE  ProposalsTypeOK'
  <2>1. balance[h] \in Nat
    BY DEF TokensTypeOK
  <2>2. Counted(PendingCopy, b, balance[h]) \in Proposals
    BY <1>0, <2>1, ProposalFacts
  <2>. QED BY <1>2, <2>2, SaveType DEF Vote, ProposalsTypeOK
<1>3. ASSUME NEW id \in Ids, ExecuteProposal(id) PROVE ProposalsTypeOK'
  <2>1. PICK s \in {"Executed", "Failed"} : Save(id, [PendingCopy EXCEPT !.status = s])
    BY <1>3 DEF ExecuteProposal
  <2>2. [PendingCopy EXCEPT !.status = s] \in Proposals
    BY <1>0, ProposalFacts, RegistryBoundsAssumption
  <2>. QED BY <1>3, <2>1, <2>2, SaveType DEF ExecuteProposal, ProposalsTypeOK
<1>4. ASSUME UNCHANGED <<counter, pending, stored>> PROVE ProposalsTypeOK'
  BY <1>4 DEF ProposalsTypeOK
<1>5. ASSUME NEW h \in Holders,
             \/ \E id \in Ids : ReclaimVoteDeposit(h, id)
             \/ \E to \in Holders, a \in TransferAmounts : TransferTo(h, to, a)
             \/ \E a \in TransferAmounts : TransferToRegistry(h, a)
      PROVE  ProposalsTypeOK'
  BY <1>4, <1>5 DEF ReclaimVoteDeposit, TransferTo, TransferToRegistry
<1>6. CASE Tick \/ (\E f \in AdminFees : AdminSetFee(f)) \/ UNCHANGED registryVars
  BY <1>4, <1>6 DEF Tick, AdminSetFee, registryVars
<1>. QED BY <1>1, <1>2, <1>3, <1>5, <1>6 DEF Next

LEMMA TokensStep ==
  ASSUME TokensTypeOK, [Next]_registryVars
  PROVE  TokensTypeOK'
<1>. USE DEF TokensTypeOK
<1>1. ASSUME NEW h \in Holders, NEW id \in Ids, NEW b \in BOOLEAN, Vote(h, id, b)
      PROVE  TokensTypeOK'
  <2>1. balance[h] \in Nat
    OBVIOUS
  <2>2. votes' \in [Ids -> [Holders -> {"none", "for", "against"}]]
    BY <1>1 DEF Vote
  <2>3. deposit' \in [Ids -> [Holders -> Nat]]
    BY <1>1, <2>1 DEF Vote
  <2>4. balance' \in [Holders -> Nat] /\ locked' \in Nat
    BY <1>1, <2>1 DEF Vote
  <2>. QED BY <2>2, <2>3, <2>4
<1>2. ASSUME NEW h \in Holders, NEW id \in Ids, ReclaimVoteDeposit(h, id)
      PROVE  TokensTypeOK'
  <2>1. deposit[id][h] \in Nat /\ balance[h] \in Nat
    OBVIOUS
  <2>2. deposit' \in [Ids -> [Holders -> Nat]] /\ votes' = votes
    BY <1>2 DEF ReclaimVoteDeposit
  <2>3. balance' \in [Holders -> Nat] /\ locked' \in Nat
    BY <1>2, <2>1 DEF ReclaimVoteDeposit
  <2>. QED BY <2>2, <2>3
<1>3. ASSUME NEW h \in Holders, NEW to \in Holders, NEW a \in TransferAmounts,
             TransferTo(h, to, a)
      PROVE  TokensTypeOK'
  <2>1. a \in Nat /\ balance[h] - a \in Nat /\ balance[to] + a \in Nat
    BY <1>3, RegistryBoundsAssumption DEF TransferTo
  <2>. QED BY <1>3, <2>1 DEF TransferTo
<1>4. ASSUME NEW h \in Holders, NEW a \in TransferAmounts, TransferToRegistry(h, a)
      PROVE  TokensTypeOK'
  <2>1. a \in Nat /\ balance[h] - a \in Nat
    BY <1>4, RegistryBoundsAssumption DEF TransferToRegistry
  <2>. QED BY <1>4, <2>1 DEF TransferToRegistry
<1>5. ASSUME UNCHANGED <<votes, deposit, balance, locked>> PROVE TokensTypeOK'
  BY <1>5
<1>6. CASE \/ \E h \in Holders, f \in ProposedFees : ProposeChange(h, f)
           \/ \E id \in Ids : ExecuteProposal(id)
           \/ \E f \in AdminFees : AdminSetFee(f)
           \/ Tick \/ UNCHANGED registryVars
  BY <1>5, <1>6 DEF ProposeChange, ExecuteProposal, AdminSetFee, Tick, registryVars
<1>. QED BY <1>1, <1>2, <1>3, <1>4, <1>6 DEF Next

LEMMA TypesHold == Spec => []RegistryTypeOK
<1>1. Init => RegistryTypeOK
  <2>. SUFFICES ASSUME Init PROVE RegistryTypeOK
    OBVIOUS
  <2>1. FeesTypeOK
    BY FeesFacts DEF Init, FeesTypeOK, Fees
  <2>2. ProposalsTypeOK
    BY NoProposalType, RegistryBoundsAssumption DEF Init, ProposalsTypeOK
  <2>3. TokensTypeOK
    BY AllotmentsAssumption DEF Init, TokensTypeOK
  <2>. QED BY <2>1, <2>2, <2>3, TypeParts
<1>2. RegistryTypeOK /\ [Next]_registryVars => RegistryTypeOK'
  <2>. SUFFICES ASSUME RegistryTypeOK, [Next]_registryVars PROVE RegistryTypeOK'
    OBVIOUS
  <2>1. FeesTypeOK' /\ ProposalsTypeOK' /\ TokensTypeOK'
    BY TypeParts, FeesStep, ProposalsStep, TokensStep
  <2>. QED BY <2>1 DEF RegistryTypeOK, FeesTypeOK, ProposalsTypeOK, TokensTypeOK,
                       ValidFees, Proposals, Ids
<1>. QED BY <1>1, <1>2, PTL DEF Spec

(* No fee above the caps is ever in force or stored in a proposal, whatever *)
(* the holders and the admin ask for.                                       *)
THEOREM TypeCorrect == DeskSpec => []RegistryTypeOK
BY TypesHold, DeskCallsRegistry, PTL

---------------------------------------------------------------------------
(* The two copies of a proposal.  The pending one is always the last.      *)
CopiesAgree == pending.id = counter /\ OneOpenProposal

(* The steps that leave the proposals alone. *)
LEMMA OthersKeepProposals ==
  ASSUME [Next]_registryVars,
         ~ \E h \in Holders, f \in ProposedFees : ProposeChange(h, f),
         ~ \E h \in Holders, id \in Ids, b \in BOOLEAN : Vote(h, id, b),
         ~ \E id \in Ids : ExecuteProposal(id)
  PROVE  UNCHANGED <<counter, pending, stored>>
<1>1. ASSUME NEW h \in Holders,
             \/ \E id \in Ids : ReclaimVoteDeposit(h, id)
             \/ \E to \in Holders, a \in TransferAmounts : TransferTo(h, to, a)
             \/ \E a \in TransferAmounts : TransferToRegistry(h, a)
      PROVE  UNCHANGED <<counter, pending, stored>>
  BY <1>1 DEF ReclaimVoteDeposit, TransferTo, TransferToRegistry
<1>2. CASE Tick \/ (\E f \in AdminFees : AdminSetFee(f)) \/ UNCHANGED registryVars
  BY <1>2 DEF Tick, AdminSetFee, registryVars
<1>. QED BY <1>1, <1>2 DEF Next

LEMMA CopiesStep ==
  ASSUME RegistryTypeOK, CopiesAgree, [Next]_registryVars
  PROVE  CopiesAgree'
<1>0. /\ counter \in 0 .. MaxProposals /\ MaxProposals \in Nat
      /\ pending.id = counter /\ stored \in [Ids -> Proposals]
      /\ PendingCopy \in Proposals
  BY RegistryBoundsAssumption DEF RegistryTypeOK, CopiesAgree, PendingCopy
<1>1. ASSUME NEW id \in Ids, NEW p, Save(id, p)
      PROVE  /\ pending'.id = id /\ PendingCopy' = p /\ stored'[id] = p
             /\ \A j \in Ids : j # id => stored'[j] = stored[j]
  BY <1>0, <1>1 DEF Save, PendingCopy
<1>2. ASSUME NEW h \in Holders, NEW f \in ProposedFees, ProposeChange(h, f)
      PROVE  CopiesAgree'
  <2>. DEFINE id == counter + 1
              p == Proposal(f, now + PROPOSAL_VOTING_PERIOD, "Active")
  <2>1. /\ id \in Ids /\ Save(id, p) /\ counter' = id /\ PendingCopy.status # "Active"
    BY <1>0, <1>2 DEF ProposeChange, Ids
  <2>2. p.status = "Active"
    BY DEF Proposal
  <2>. HIDE DEF p
  <2>3. ASSUME NEW j \in Ids
        PROVE  /\ id = j => stored'[j] = p
               /\ stored'[j].status = "Active" => id = j
               /\ stored'[j].status = "None" <=> j > id
    <3>1. CASE j = id
      BY <1>0, <1>1, <2>1, <2>2, <3>1
    <3>2. CASE j # id
      <4>1. stored'[j] = stored[j]
        BY <1>1, <2>1, <3>2
      <4>2. /\ stored[j].status = "None" <=> j > counter
            /\ stored[j].status # "Active"
        BY <1>0, <2>1 DEF CopiesAgree, OneOpenProposal
      <4>3. j > counter <=> j > id
        BY <1>0, <3>2 DEF Ids
      <4>. QED BY <3>2, <4>1, <4>2, <4>3
    <3>. QED BY <3>1, <3>2
  <2>4. pending'.id = id /\ PendingCopy' = p
    BY <1>1, <2>1
  <2>. QED BY <2>1, <2>3, <2>4 DEF CopiesAgree, OneOpenProposal, Ids
<1>3. ASSUME NEW id \in Ids, NEW p, Save(id, p), pending.id = id,
             PendingCopy.status = "Active", p.status # "None",
             counter' = counter
      PROVE  CopiesAgree'
  <2>1. id <= counter
    BY <1>0, <1>3
  <2>2. ASSUME NEW j \in Ids
        PROVE  /\ id = j => stored'[j] = p
               /\ stored'[j].status = "Active" => id = j
               /\ stored'[j].status = "None" <=> j > counter
    <3>1. CASE j = id
      BY <1>0, <1>1, <1>3, <2>1, <3>1 DEF Ids
    <3>2. CASE j # id
      BY <1>1, <1>3, <3>2 DEF CopiesAgree, OneOpenProposal
    <3>. QED BY <3>1, <3>2
  <2>3. pending'.id = id /\ PendingCopy' = p
    BY <1>1, <1>3
  <2>. QED BY <1>0, <1>3, <2>2, <2>3 DEF CopiesAgree, OneOpenProposal, Ids
<1>4. ASSUME NEW h \in Holders, NEW id \in Ids, NEW b \in BOOLEAN, Vote(h, id, b)
      PROVE  CopiesAgree'
  <2>1. balance[h] \in Nat
    BY DEF RegistryTypeOK
  <2>2. Counted(PendingCopy, b, balance[h]).status = PendingCopy.status
    BY <1>0, <2>1, ProposalFacts
  <2>. QED BY <1>3, <1>4, <2>2 DEF Vote
<1>5. ASSUME NEW id \in Ids, ExecuteProposal(id) PROVE CopiesAgree'
  <2>1. PICK s \in {"Executed", "Failed"} : Save(id, [PendingCopy EXCEPT !.status = s])
    BY <1>5 DEF ExecuteProposal
  <2>2. [PendingCopy EXCEPT !.status = s].status = s
    BY <1>0 DEF Proposals
  <2>. QED BY <1>3, <1>5, <2>1, <2>2 DEF ExecuteProposal
<1>6. ASSUME UNCHANGED <<counter, pending, stored>> PROVE CopiesAgree'
  BY <1>6 DEF CopiesAgree, OneOpenProposal, PendingCopy, Ids
<1>. QED BY <1>2, <1>4, <1>5, <1>6, OthersKeepProposals

LEMMA CopiesHold == Spec => []CopiesAgree
<1>1. Init => CopiesAgree
  <2>. SUFFICES ASSUME Init PROVE CopiesAgree
    OBVIOUS
  <2>1. /\ pending = [id |-> 0, proposal |-> NoProposal] /\ counter = 0
        /\ stored = [id \in Ids |-> NoProposal]
    BY DEF Init
  <2>2. NoProposal.status = "None"
    BY DEF NoProposal, Proposal
  <2>3. \A j \in Ids : j > 0
    BY DEF Ids
  <2>. QED BY <2>1, <2>2, <2>3 DEF CopiesAgree, OneOpenProposal, PendingCopy
<1>2. RegistryTypeOK /\ CopiesAgree /\ [Next]_registryVars => CopiesAgree'
  BY CopiesStep
<1>. QED BY <1>1, <1>2, TypesHold, PTL DEF Spec

(* The copy reclaim goes by and the copy vote and execute go by are the     *)
(* same, and at most the last proposal is open.                             *)
THEOREM OneProposalAtATime == DeskSpec => []OneOpenProposal
<1>1. CopiesAgree => OneOpenProposal
  BY DEF CopiesAgree
<1>. QED BY <1>1, CopiesHold, DeskCallsRegistry, PTL

(* The fees in force change only by the admin's hand or by an open          *)
(* proposal that ends in this step, after its deadline, with a majority     *)
(* and a quorum.                                                            *)
THEOREM ChangesHaveCauses == DeskSpec => EveryChangeHasACause
<1>. DEFINE Cause ==
       fees' # fees =>
         \/ adminSets' > adminSets
         \/ \E id \in Ids :
              /\ stored[id].status = "Active" /\ stored'[id].status = "Executed"
              /\ fees' = stored[id].fees
              /\ now >= stored[id].deadline
              /\ Passes(stored[id])
<1>1. RegistryTypeOK /\ CopiesAgree /\ [Next]_registryVars => [Cause]_registryVars
  <2>. SUFFICES ASSUME RegistryTypeOK, CopiesAgree, Next, fees' # fees PROVE Cause
    OBVIOUS
  <2>1. ASSUME NEW f \in AdminFees, AdminSetFee(f) PROVE adminSets' > adminSets
    BY <2>1 DEF AdminSetFee, RegistryTypeOK
  <2>2. ASSUME NEW id \in Ids, ExecuteProposal(id) PROVE Cause
    <3>1. /\ pending.id = id /\ PendingCopy.status = "Active"
          /\ now >= PendingCopy.deadline /\ Passes(PendingCopy)
          /\ fees' = PendingCopy.fees
          /\ Save(id, [PendingCopy EXCEPT !.status = "Executed"])
      BY <2>2 DEF ExecuteProposal
    <3>2. stored[id] = PendingCopy
      BY <3>1 DEF CopiesAgree, OneOpenProposal
    <3>3. stored'[id].status = "Executed"
      BY <3>1 DEF Save, RegistryTypeOK, Proposals, PendingCopy
    <3>. QED BY <3>1, <3>2, <3>3
  <2>3. ASSUME NEW h \in Holders,
               \/ \E f \in ProposedFees : ProposeChange(h, f)
               \/ \E id \in Ids, b \in BOOLEAN : Vote(h, id, b)
               \/ \E id \in Ids : ReclaimVoteDeposit(h, id)
        PROVE  FALSE
    BY <2>3 DEF ProposeChange, Vote, ReclaimVoteDeposit
  <2>4. ASSUME NEW h \in Holders, NEW a \in TransferAmounts,
               (\E to \in Holders : TransferTo(h, to, a)) \/ TransferToRegistry(h, a)
        PROVE  FALSE
    BY <2>4 DEF TransferTo, TransferToRegistry
  <2>5. CASE Tick
    BY <2>5 DEF Tick
  <2>. QED BY <2>1, <2>2, <2>3, <2>4, <2>5 DEF Next
<1>. HIDE DEF Cause
<1>2. Spec => [][Cause]_registryVars
  BY <1>1, TypesHold, CopiesHold, PTL DEF Spec
<1>. QED BY <1>2, DeskCallsRegistry, PTL DEF EveryChangeHasACause, Cause


---------------------------------------------------------------------------
(* Tokens.  Who has not voted has locked nothing; a proposal nobody made    *)
(* has no votes; and while a proposal is open to votes it counts exactly    *)
(* what is locked for it.                                                   *)
VotesMatchDeposits ==
  /\ \A id \in Ids : \A h \in Holders : votes[id][h] = "none" => deposit[id][h] = 0
  /\ \A id \in Ids : \A h \in Holders :
       votes[id][h] # "none" => stored[id].status # "None"
  /\ \A id \in Ids :
       stored[id].status = "Active" /\ now < stored[id].deadline
         => stored[id].for + stored[id].against = Total(deposit[id])

TokenInv == VotesMatchDeposits /\ VotesAreTokens

LEMMA TotalsType ==
  ASSUME RegistryTypeOK
  PROVE  /\ LockedFor \in [Ids -> Nat] /\ Total(LockedFor) \in Nat
         /\ Total(balance) \in Nat /\ locked \in Nat /\ TokenSupply \in Nat
         /\ \A id \in Ids : deposit[id] \in [Holders -> Nat]
         /\ \A id \in Ids : Total(deposit[id]) = LockedFor[id]
         /\ \A id \in Ids : Total(deposit[id]) \in Nat
         /\ IsFiniteSet(Ids)
<1>1. \A id \in Ids : deposit[id] \in [Holders -> Nat]
  BY DEF RegistryTypeOK
<1>2. \A id \in Ids : Total(deposit[id]) \in Nat
  BY <1>1, HoldersAssumption, TotalType
<1>3. LockedFor \in [Ids -> Nat]
  BY <1>2 DEF LockedFor
<1>4. IsFiniteSet(Ids)
  BY RegistryBoundsAssumption, FS_Interval DEF Ids
<1>5. Total(LockedFor) \in Nat
  BY <1>3, <1>4, TotalType
<1>6. Total(balance) \in Nat /\ locked \in Nat
  BY HoldersAssumption, TotalType DEF RegistryTypeOK
<1>. QED BY <1>1, <1>2, <1>3, <1>4, <1>5, <1>6 DEF LockedFor, TokenSupply

(* Moving deposits of one holder moves what is locked for one proposal. *)
LEMMA LockedForMoves ==
  ASSUME RegistryTypeOK, NEW id \in Ids, NEW h \in Holders, NEW n \in Nat,
         deposit' = [deposit EXCEPT ![id][h] = n]
  PROVE  /\ Total(deposit'[id]) = Total(deposit[id]) - deposit[id][h] + n
         /\ \A j \in Ids : j # id => deposit'[j] = deposit[j]
         /\ Total(LockedFor') = Total(LockedFor) - deposit[id][h] + n
<1>. DEFINE t == Total(deposit[id]) - deposit[id][h] + n
<1>1. /\ deposit'[id] = [deposit[id] EXCEPT ![h] = n]
      /\ \A j \in Ids : j # id => deposit'[j] = deposit[j]
  BY DEF RegistryTypeOK
<1>2. /\ deposit[id] \in [Holders -> Nat] /\ deposit[id][h] \in Nat
      /\ [deposit[id] EXCEPT ![h] = n] \in [Holders -> Nat]
  BY DEF RegistryTypeOK
<1>3. Total(deposit'[id]) = t /\ t \in Nat
  BY <1>1, <1>2, HoldersAssumption, TotalUpdate, TotalType
<1>4. LockedFor' = [j \in Ids |-> Total(deposit'[j])]
  BY DEF LockedFor, Ids
<1>. HIDE DEF t
<1>5. LockedFor' = [LockedFor EXCEPT ![id] = t]
  <2>1. LockedFor'[id] = t
    BY <1>3, <1>4
  <2>2. \A j \in Ids : j # id => LockedFor'[j] = LockedFor[j]
    BY <1>1, <1>4 DEF LockedFor
  <2>3. LockedFor \in [Ids -> Nat] /\ LockedFor' = [j \in Ids |-> LockedFor'[j]]
    BY <1>4, TotalsType
  <2>. QED BY <2>1, <2>2, <2>3
<1>6. LockedFor[id] = Total(deposit[id]) /\ Total(deposit[id]) \in Nat
  BY TotalsType
<1>7. Total(LockedFor') = Total(LockedFor) - Total(deposit[id]) + t
  <2>1. Total([LockedFor EXCEPT ![id] = t]) = Total(LockedFor) - LockedFor[id] + t
    <3>1. LockedFor \in [Ids -> Nat] /\ IsFiniteSet(Ids)
      BY TotalsType
    <3>2. t \in Nat
      BY <1>3
    <3>. QED BY <3>1, <3>2, TotalUpdate
  <2>. QED BY <1>5, <1>6, <2>1
<1>. QED BY <1>1, <1>2, <1>3, <1>6, <1>7, TotalsType DEF t

(* No step makes or burns tokens. *)
LEMMA SupplyStays ==
  ASSUME RegistryTypeOK, [Next]_registryVars
  PROVE  TokenSupply' = TokenSupply
<1>. USE DEF TokenSupply
<1>0. /\ balance \in [Holders -> Nat] /\ locked \in Nat
      /\ Total(balance) \in Nat /\ IsFiniteSet(Holders)
  BY HoldersAssumption, TotalsType DEF RegistryTypeOK
<1>1. ASSUME NEW h \in Holders, NEW n \in Nat, balance' = [balance EXCEPT ![h] = n],
             locked' = locked + balance[h] - n
      PROVE  TokenSupply' = TokenSupply
  <2>1. Total(balance') = Total(balance) - balance[h] + n
    BY <1>0, <1>1, TotalUpdate
  <2>2. balance[h] \in Nat
    BY <1>0
  <2>. QED BY <1>0, <1>1, <2>1, <2>2
<1>2. ASSUME NEW h \in Holders, NEW id \in Ids, NEW b \in BOOLEAN, Vote(h, id, b)
      PROVE  TokenSupply' = TokenSupply
  <2>1. /\ balance' = [balance EXCEPT ![h] = 0] /\ locked' = locked + balance[h] - 0
    BY <1>0, <1>2 DEF Vote
  <2>. QED BY <1>1, <2>1
<1>3. ASSUME NEW h \in Holders, NEW id \in Ids, ReclaimVoteDeposit(h, id)
      PROVE  TokenSupply' = TokenSupply
  <2>. DEFINE n == balance[h] + deposit[id][h]
  <2>1. deposit[id][h] \in Nat /\ balance[h] \in Nat
    BY DEF RegistryTypeOK
  <2>2. n \in Nat /\ balance' = [balance EXCEPT ![h] = n]
        /\ locked' = locked + balance[h] - n
    BY <1>0, <1>3, <2>1 DEF ReclaimVoteDeposit
  <2>. QED BY <1>1, <2>2
<1>4. ASSUME NEW h \in Holders, NEW a \in TransferAmounts, TransferToRegistry(h, a)
      PROVE  TokenSupply' = TokenSupply
  <2>. DEFINE n == balance[h] - a
  <2>1. a \in Nat /\ balance[h] \in Nat
    BY RegistryBoundsAssumption DEF RegistryTypeOK
  <2>2. n \in Nat /\ balance' = [balance EXCEPT ![h] = n]
        /\ locked' = locked + balance[h] - n
    BY <1>0, <1>4, <2>1 DEF TransferToRegistry
  <2>. QED BY <1>1, <2>2
<1>5. ASSUME NEW h \in Holders, NEW to \in Holders, NEW a \in TransferAmounts,
             TransferTo(h, to, a)
      PROVE  TokenSupply' = TokenSupply
  <2>. DEFINE lower == [balance EXCEPT ![h] = balance[h] - a]
  <2>1. /\ a \in Nat /\ balance[h] \in Nat /\ balance[to] \in Nat
        /\ balance[h] - a \in Nat /\ h # to /\ balance[to] + a \in Nat
    BY <1>5, RegistryBoundsAssumption DEF RegistryTypeOK, TransferTo
  <2>2. /\ balance' = [lower EXCEPT ![to] = balance[to] + a] /\ locked' = locked
        /\ lower \in [Holders -> Nat] /\ lower[to] = balance[to]
    BY <1>0, <1>5, <2>1 DEF TransferTo
  <2>3. Total(lower) = Total(balance) - balance[h] + (balance[h] - a)
    BY <1>0, <2>1, TotalUpdate
  <2>. HIDE DEF lower
  <2>4. Total(balance') = Total(lower) - balance[to] + (balance[to] + a)
    <3>1. Total([lower EXCEPT ![to] = balance[to] + a])
            = Total(lower) - lower[to] + (balance[to] + a)
      BY <1>0, <2>1, <2>2, TotalUpdate
    <3>. QED BY <2>2, <3>1
  <2>. QED BY <1>0, <2>1, <2>2, <2>3, <2>4
<1>6. CASE \/ \E h \in Holders, f \in ProposedFees : ProposeChange(h, f)
           \/ \E id \in Ids : ExecuteProposal(id)
           \/ \E f \in AdminFees : AdminSetFee(f)
           \/ Tick \/ UNCHANGED registryVars
  BY <1>6 DEF ProposeChange, ExecuteProposal, AdminSetFee, Tick, registryVars
<1>. QED BY <1>2, <1>3, <1>4, <1>5, <1>6 DEF Next

LEMMA TokenStep ==
  ASSUME RegistryTypeOK, CopiesAgree, TokenInv, [Next]_registryVars
  PROVE  TokenInv'
<1>. DEFINE fixed == UNCHANGED <<votes, deposit, stored>>
<1>0. /\ stored \in [Ids -> Proposals] /\ PendingCopy \in Proposals
      /\ pending.id = counter /\ now \in Nat /\ TokenSupply \in Nat
      /\ votes \in [Ids -> [Holders -> {"none", "for", "against"}]]
      /\ deposit \in [Ids -> [Holders -> Nat]] /\ balance \in [Holders -> Nat]
      /\ locked \in Nat /\ Total(LockedFor) \in Nat
  BY TotalsType DEF RegistryTypeOK, CopiesAgree, PendingCopy
<1>1. /\ VotesMatchDeposits /\ Total(LockedFor) <= locked
      /\ \A id \in Ids : stored[id].for + stored[id].against <= TokenSupply
  BY DEF TokenInv, VotesAreTokens, DepositsBacked, CountsAreTokens
<1>2. TokenSupply' = TokenSupply
  BY SupplyStays
<1>3. ASSUME VotesMatchDeposits', Total(LockedFor') <= locked',
             \A id \in Ids : stored'[id].for + stored'[id].against <= TokenSupply
      PROVE  TokenInv'
  BY <1>2, <1>3 DEF TokenInv, VotesAreTokens, DepositsBacked, CountsAreTokens, Ids
<1>4. ASSUME deposit' = deposit PROVE LockedFor' = LockedFor
  BY <1>4 DEF LockedFor, Ids
<1>5. ASSUME NEW h \in Holders, NEW f \in ProposedFees, ProposeChange(h, f)
      PROVE  TokenInv'
  <2>. DEFINE id == counter + 1
              p == Proposal(f, now + PROPOSAL_VOTING_PERIOD, "Active")
  <2>1. /\ id \in Ids /\ stored' = [stored EXCEPT ![id] = p]
        /\ UNCHANGED <<now, votes, deposit, balance, locked>>
    BY <1>5, RegistryBoundsAssumption DEF ProposeChange, Save, Ids, RegistryTypeOK
  <2>2. p.for = 0 /\ p.against = 0 /\ p.status = "Active"
    BY DEF Proposal
  <2>. HIDE DEF p
  <2>3. stored[id].status = "None"
    <3>1. id > counter
      BY DEF RegistryTypeOK
    <3>. QED BY <2>1, <3>1 DEF CopiesAgree, OneOpenProposal
  <2>4. \A v \in Holders : votes[id][v] = "none" /\ deposit[id][v] = 0
    BY <1>1, <2>1, <2>3 DEF VotesMatchDeposits
  <2>5. Total(deposit[id]) = 0
    <3>1. deposit[id] = [v \in Holders |-> 0]
      BY <1>0, <2>1, <2>4
    <3>. QED BY <3>1, TotalZero
  <2>6. \A j \in Ids : stored'[j] = IF j = id THEN p ELSE stored[j]
    BY <1>0, <2>1
  <2>7. VotesMatchDeposits'
    BY <1>1, <2>1, <2>2, <2>4, <2>5, <2>6 DEF VotesMatchDeposits, Ids
  <2>8. \A j \in Ids : stored'[j].for + stored'[j].against <= TokenSupply
    BY <1>0, <1>1, <2>2, <2>6
  <2>. QED BY <1>1, <1>3, <1>4, <2>1, <2>7, <2>8
<1>6. ASSUME NEW h \in Holders, NEW id \in Ids, NEW b \in BOOLEAN, Vote(h, id, b)
      PROVE  TokenInv'
  <2>. DEFINE n == balance[h]
              p == Counted(PendingCopy, b, n)
  <2>1. /\ n \in Nat /\ stored' = [stored EXCEPT ![id] = p]
        /\ deposit' = [deposit EXCEPT ![id][h] = n]
        /\ locked' = locked + n /\ now' = now
        /\ votes' = [votes EXCEPT ![id][h] = IF b THEN "for" ELSE "against"]
        /\ votes[id][h] = "none" /\ now < PendingCopy.deadline
        /\ PendingCopy.status = "Active" /\ pending.id = id
    BY <1>0, <1>6 DEF Vote, Save
  <2>2. /\ p.for + p.against = PendingCopy.for + PendingCopy.against + n
        /\ p.status = PendingCopy.status /\ p.deadline = PendingCopy.deadline
        /\ PendingCopy.for + PendingCopy.against \in Nat
    <3>1. PendingCopy \in Proposals /\ n \in Nat
      BY <1>0, <2>1
    <3>. HIDE DEF n
    <3>2. /\ p.for + p.against = PendingCopy.for + PendingCopy.against + n
          /\ p.status = PendingCopy.status /\ p.deadline = PendingCopy.deadline
          /\ PendingCopy.for \in Nat /\ PendingCopy.against \in Nat
      BY <3>1, ProposalFacts
    <3>. QED BY <3>2
  <2>. HIDE DEF p, n
  <2>3. stored[id] = PendingCopy
    BY <2>1 DEF CopiesAgree, OneOpenProposal
  <2>4. deposit[id][h] = 0
    BY <1>1, <2>1 DEF VotesMatchDeposits
  <2>5. PendingCopy.for + PendingCopy.against = Total(deposit[id])
    BY <1>1, <2>1, <2>3 DEF VotesMatchDeposits
  <2>6. /\ Total(deposit'[id]) = Total(deposit[id]) - 0 + n
        /\ Total(LockedFor') = Total(LockedFor) - 0 + n
        /\ \A j \in Ids : j # id => deposit'[j] = deposit[j]
    <3>1. /\ Total(deposit'[id]) = Total(deposit[id]) - deposit[id][h] + n
          /\ Total(LockedFor') = Total(LockedFor) - deposit[id][h] + n
          /\ \A j \in Ids : j # id => deposit'[j] = deposit[j]
      BY <2>1, LockedForMoves
    <3>. QED BY <2>4, <3>1
  <2>7. p.for + p.against = Total(deposit'[id])
    BY <2>1, <2>2, <2>5, <2>6, TotalsType
  <2>8. \A j \in Ids : stored'[j] = IF j = id THEN p ELSE stored[j]
    BY <1>0, <2>1
  <2>9. VotesMatchDeposits'
    <3>1. ASSUME NEW j \in Ids, NEW v \in Holders
          PROVE  /\ votes'[j][v] = "none" => deposit'[j][v] = 0
                 /\ votes'[j][v] # "none" => stored'[j].status # "None"
      <4>1. CASE j = id /\ v = h
        BY <1>0, <2>1, <2>2, <2>8, <4>1
      <4>2. CASE ~(j = id /\ v = h)
        <5>1. votes'[j][v] = votes[j][v] /\ deposit'[j][v] = deposit[j][v]
          BY <1>0, <2>1, <4>2
        <5>. QED BY <1>1, <2>1, <2>2, <2>8, <5>1 DEF VotesMatchDeposits
      <4>. QED BY <4>1, <4>2
    <3>2. ASSUME NEW j \in Ids, stored'[j].status = "Active", now < stored'[j].deadline
          PROVE  stored'[j].for + stored'[j].against = Total(deposit'[j])
      BY <1>1, <2>6, <2>7, <2>8, <3>2 DEF VotesMatchDeposits
    <3>. QED BY <2>1, <3>1, <3>2 DEF VotesMatchDeposits, Ids
  <2>10. Total(LockedFor') <= locked'
    BY <1>0, <1>1, <2>1, <2>6
  <2>11. p.for + p.against <= TokenSupply
    <3>1. Total(deposit[id]) <= Total(LockedFor)
      BY TotalsType, TotalBoundsEach
    <3>2. n <= Total(balance)
      BY <1>0, HoldersAssumption, TotalBoundsEach DEF n
    <3>3. Total(deposit[id]) + n <= Total(balance) + locked
      BY <1>0, <1>1, <2>1, <3>1, <3>2, TotalsType
    <3>. QED BY <2>1, <2>6, <2>7, <3>3, TotalsType DEF TokenSupply
  <2>12. \A j \in Ids : stored'[j].for + stored'[j].against <= TokenSupply
    BY <1>1, <2>8, <2>11
  <2>. QED BY <1>3, <2>9, <2>10, <2>12
<1>7. ASSUME NEW h \in Holders, NEW id \in Ids, ReclaimVoteDeposit(h, id)
      PROVE  TokenInv'
  <2>1. /\ deposit' = [deposit EXCEPT ![id][h] = 0]
        /\ locked' = locked - deposit[id][h] /\ deposit[id][h] <= locked
        /\ deposit[id][h] \in Nat /\ UNCHANGED <<now, votes, stored>>
        /\ stored[id].status = "Active" => now >= stored[id].deadline
    BY <1>0, <1>7 DEF ReclaimVoteDeposit
  <2>2. /\ Total(LockedFor') = Total(LockedFor) - deposit[id][h] + 0
        /\ \A j \in Ids : j # id => deposit'[j] = deposit[j]
    BY <2>1, LockedForMoves
  <2>3. VotesMatchDeposits'
    <3>1. \A j \in Ids, v \in Holders :
            deposit'[j][v] = 0 \/ deposit'[j][v] = deposit[j][v]
      BY <1>0, <2>1
    <3>2. stored[id].deadline \in Nat
      BY <1>0 DEF Proposals
    <3>. QED BY <1>0, <1>1, <2>1, <2>2, <3>1, <3>2 DEF VotesMatchDeposits, Ids
  <2>4. Total(LockedFor') <= locked'
    BY <1>0, <1>1, <2>1, <2>2
  <2>. QED BY <1>1, <1>3, <2>1, <2>3, <2>4
<1>8. ASSUME NEW id \in Ids, ExecuteProposal(id) PROVE TokenInv'
  <2>1. PICK s \in {"Executed", "Failed"} :
          stored' = [stored EXCEPT ![id] = [PendingCopy EXCEPT !.status = s]]
    BY <1>8 DEF ExecuteProposal, Save
  <2>2. /\ UNCHANGED <<now, votes, deposit, locked>> /\ stored[id] = PendingCopy
    BY <1>8 DEF ExecuteProposal, CopiesAgree, OneOpenProposal
  <2>. DEFINE p == [PendingCopy EXCEPT !.status = s]
  <2>3. p.for = PendingCopy.for /\ p.against = PendingCopy.against /\ p.status = s
    BY <1>0 DEF Proposals
  <2>4. \A j \in Ids : stored'[j] = IF j = id THEN p ELSE stored[j]
    BY <1>0, <2>1
  <2>. HIDE DEF p
  <2>5. VotesMatchDeposits'
    BY <1>1, <2>2, <2>3, <2>4 DEF VotesMatchDeposits, Ids
  <2>6. \A j \in Ids : stored'[j].for + stored'[j].against <= TokenSupply
    BY <1>1, <2>2, <2>3, <2>4
  <2>. QED BY <1>1, <1>3, <1>4, <2>2, <2>5, <2>6
<1>9. ASSUME fixed, now' >= now, now' \in Nat, locked' \in Nat, locked' >= locked
      PROVE  TokenInv'
  <2>1. \A j \in Ids : stored[j].deadline \in Nat
    BY <1>0 DEF Proposals
  <2>2. VotesMatchDeposits'
    BY <1>0, <1>1, <1>9, <2>1 DEF VotesMatchDeposits, Ids
  <2>3. Total(LockedFor') <= locked'
    BY <1>0, <1>1, <1>4, <1>9
  <2>. QED BY <1>1, <1>3, <1>9, <2>2, <2>3
<1>10. ASSUME NEW h \in Holders, NEW a \in TransferAmounts,
              (\E to \in Holders : TransferTo(h, to, a)) \/ TransferToRegistry(h, a)
       PROVE  TokenInv'
  <2>1. a \in Nat
    BY RegistryBoundsAssumption
  <2>. QED BY <1>0, <1>9, <1>10, <2>1 DEF TransferTo, TransferToRegistry
<1>11. CASE \/ \E f \in AdminFees : AdminSetFee(f)
            \/ Tick \/ UNCHANGED registryVars
  BY <1>0, <1>9, <1>11 DEF AdminSetFee, Tick, registryVars
<1>. QED BY <1>5, <1>6, <1>7, <1>8, <1>10, <1>11 DEF Next

(* However the token is passed on between votes, a proposal counts each     *)
(* token at most once, and every deposit can be paid back.                  *)
THEOREM TokensVoteOnce == DeskSpec => []VotesAreTokens
<1>1. Init => TokenInv
  <2>. SUFFICES ASSUME Init PROVE TokenInv
    OBVIOUS
  <2>1. /\ stored = [id \in Ids |-> NoProposal] /\ locked = 0
        /\ votes = [id \in Ids |-> [h \in Holders |-> "none"]]
        /\ deposit = [id \in Ids |-> [h \in Holders |-> 0]]
        /\ balance \in [Holders -> Nat]
    BY AllotmentsAssumption DEF Init
  <2>2. NoProposal.for = 0 /\ NoProposal.against = 0 /\ NoProposal.status = "None"
    BY DEF NoProposal, Proposal
  <2>3. VotesMatchDeposits
    BY <2>1, <2>2 DEF VotesMatchDeposits
  <2>4. LockedFor = [id \in Ids |-> 0]
    BY <2>1, TotalZero DEF LockedFor
  <2>5. Total(LockedFor) = 0
    BY <2>4, TotalZero
  <2>6. TokenSupply \in Nat
    BY <2>1, HoldersAssumption, TotalType DEF TokenSupply
  <2>. QED BY <2>1, <2>2, <2>3, <2>5, <2>6
           DEF TokenInv, VotesAreTokens, DepositsBacked, CountsAreTokens
<1>2. RegistryTypeOK /\ CopiesAgree /\ TokenInv /\ [Next]_registryVars => TokenInv'
  BY TokenStep
<1>3. TokenInv => VotesAreTokens
  BY DEF TokenInv
<1>4. Spec => []VotesAreTokens
  BY <1>1, <1>2, <1>3, TypesHold, CopiesHold, PTL DEF Spec
<1>. QED BY <1>4, DeskCallsRegistry, PTL

(* Both together, for the registry and for the backend that calls it.       *)
THEOREM VotingSound == DeskSpec => []VotingIsSound
<1>1. VotesAreTokens /\ OneOpenProposal => VotingIsSound
  BY DEF VotingIsSound
<1>. QED BY <1>1, TokensVoteOnce, OneProposalAtATime, PTL


---------------------------------------------------------------------------
(* The backend's rows. *)
DeskTypeOK ==
  /\ rows \in [Ids -> [status : RowStatuses \cup {"none"}, for : Nat, against : Nat]]
  /\ creating \subseteq Ids
  /\ finishing \in [Ids -> RowStatuses \cup {"none", "answered"}]
  /\ syncing \in [id : 0 .. MaxProposals, proposal : Proposals]

(* A proposal shows at least the votes of p, and has ended as p has. *)
Covers(id, p) ==
  /\ id \in Ids /\ id <= counter
  /\ p.for <= stored[id].for /\ p.against <= stored[id].against

SyncIsReal ==
  syncing # NoSync =>
    /\ Covers(syncing.id, syncing.proposal)
    /\ syncing.proposal.status # "None"
    /\ syncing.proposal.status = "Executed" => stored[syncing.id].status = "Executed"

(* The proposal that a read-back finds: the one that was executed, or the   *)
(* next one, which nobody can execute before time passes.                   *)
NothingElseExecuted(id) ==
  pending.id = id \/ (PendingCopy.status = "Active" /\ now < PendingCopy.deadline)

RequestsAreReal ==
  /\ \A id \in creating : id <= counter
  /\ \A id \in Ids : finishing[id] # "none" => id <= counter
  /\ \A id \in Ids : finishing[id] = "answered" => NothingElseExecuted(id)
  /\ \A id \in Ids : finishing[id] = "executed" => stored[id].status = "Executed"

DeskInv == DeskTypeOK /\ SyncIsReal /\ RequestsAreReal /\ ProposalRowsAreReal

(* What a proposal shows never shrinks, and an executed one stays so. *)
LEMMA ProposalsGrow ==
  ASSUME RegistryTypeOK, CopiesAgree, [Next]_registryVars
  PROVE  /\ counter <= counter'
         /\ \A id \in Ids : id <= counter =>
              /\ stored[id].for <= stored'[id].for
              /\ stored[id].against <= stored'[id].against
              /\ stored[id].status = "Executed" => stored'[id].status = "Executed"
<1>0. /\ stored \in [Ids -> Proposals] /\ PendingCopy \in Proposals
      /\ counter \in Nat
      /\ \A id \in Ids : stored[id].for \in Nat /\ stored[id].against \in Nat
      /\ \A id \in Ids : pending.id = id => stored[id] = PendingCopy
  BY DEF RegistryTypeOK, PendingCopy, Proposals, CopiesAgree, OneOpenProposal
<1>. DEFINE Grows(j) == /\ stored[j].for <= stored'[j].for
                        /\ stored[j].against <= stored'[j].against
                        /\ stored[j].status = "Executed" => stored'[j].status = "Executed"
<1>1. ASSUME NEW h \in Holders, NEW f \in ProposedFees, ProposeChange(h, f)
      PROVE  counter <= counter' /\ \A j \in Ids : j <= counter => Grows(j)
  <2>1. counter' = counter + 1
        /\ \A j \in Ids : j # counter + 1 => stored'[j] = stored[j]
    BY <1>0, <1>1 DEF ProposeChange, Save
  <2>. QED BY <1>0, <2>1 DEF Ids
<1>2. ASSUME NEW h \in Holders, NEW id \in Ids, NEW b \in BOOLEAN, Vote(h, id, b)
      PROVE  counter <= counter' /\ \A j \in Ids : j <= counter => Grows(j)
  <2>1. /\ balance[h] \in Nat /\ counter' = counter /\ stored[id] = PendingCopy
        /\ PendingCopy.status = "Active"
        /\ \A j \in Ids : stored'[j] = IF j = id THEN Counted(PendingCopy, b, balance[h])
                                                 ELSE stored[j]
    BY <1>0, <1>2 DEF Vote, Save, RegistryTypeOK
  <2>2. /\ Counted(PendingCopy, b, balance[h]).for >= PendingCopy.for
        /\ Counted(PendingCopy, b, balance[h]).against >= PendingCopy.against
    <3>1. PendingCopy.for \in Nat /\ PendingCopy.against \in Nat
      BY <1>0 DEF Proposals
    <3>2. \A k \in Nat :
            /\ [PendingCopy EXCEPT !.for = k].for = k
            /\ [PendingCopy EXCEPT !.for = k].against = PendingCopy.against
            /\ [PendingCopy EXCEPT !.against = k].against = k
            /\ [PendingCopy EXCEPT !.against = k].for = PendingCopy.for
      BY <1>0 DEF Proposals
    <3>. QED BY <2>1, <3>1, <3>2 DEF Counted
  <2>. QED BY <1>0, <2>1, <2>2
<1>3. ASSUME NEW id \in Ids, ExecuteProposal(id)
      PROVE  counter <= counter' /\ \A j \in Ids : j <= counter => Grows(j)
  <2>1. PICK s \in {"Executed", "Failed"} :
          stored' = [stored EXCEPT ![id] = [PendingCopy EXCEPT !.status = s]]
    BY <1>3 DEF ExecuteProposal, Save
  <2>2. /\ counter' = counter /\ stored[id] = PendingCopy
        /\ PendingCopy.status = "Active"
    BY <1>0, <1>3 DEF ExecuteProposal
  <2>3. /\ [PendingCopy EXCEPT !.status = s].for = PendingCopy.for
        /\ [PendingCopy EXCEPT !.status = s].against = PendingCopy.against
    BY <1>0 DEF Proposals
  <2>. QED BY <1>0, <2>1, <2>2, <2>3
<1>4. ASSUME UNCHANGED <<counter, stored>>
      PROVE  counter <= counter' /\ \A j \in Ids : j <= counter => Grows(j)
  BY <1>0, <1>4
<1>. QED BY <1>1, <1>2, <1>3, <1>4, OthersKeepProposals

(* While time stands still, the next proposal stays open. *)
LEMMA NextStaysOpen ==
  ASSUME RegistryTypeOK, CopiesAgree, [Next]_registryVars, now' = now,
         NEW id \in Ids, id <= counter, NothingElseExecuted(id)
  PROVE  NothingElseExecuted(id)'
<1>0. PendingCopy \in Proposals /\ now \in Nat /\ counter \in Nat /\ pending.id = counter
  BY DEF RegistryTypeOK, PendingCopy, CopiesAgree
<1>1. ASSUME NEW h \in Holders, NEW f \in ProposedFees, ProposeChange(h, f)
      PROVE  NothingElseExecuted(id)'
  <2>1. PendingCopy' = Proposal(f, now + PROPOSAL_VOTING_PERIOD, "Active")
    BY <1>1 DEF ProposeChange, Save, PendingCopy
  <2>. QED BY <1>0, <2>1, RegistryBoundsAssumption DEF NothingElseExecuted, Proposal
<1>2. ASSUME NEW h \in Holders, NEW j \in Ids, NEW b \in BOOLEAN, Vote(h, j, b)
      PROVE  NothingElseExecuted(id)'
  <2>1. /\ balance[h] \in Nat /\ pending'.id = j /\ pending.id = j
        /\ PendingCopy' = Counted(PendingCopy, b, balance[h])
    BY <1>2 DEF Vote, Save, PendingCopy, RegistryTypeOK
  <2>. QED BY <1>0, <2>1, ProposalFacts DEF NothingElseExecuted
<1>3. ASSUME NEW j \in Ids, ExecuteProposal(j) PROVE NothingElseExecuted(id)'
  <2>1. /\ pending'.id = j /\ pending.id = j /\ now >= PendingCopy.deadline
        /\ PendingCopy.deadline \in Nat
    BY <1>0, <1>3 DEF ExecuteProposal, Save, Proposals
  <2>. QED BY <1>0, <2>1 DEF NothingElseExecuted
<1>4. ASSUME UNCHANGED <<counter, pending, stored>> PROVE NothingElseExecuted(id)'
  BY <1>4 DEF NothingElseExecuted, PendingCopy
<1>. QED BY <1>1, <1>2, <1>3, <1>4, OthersKeepProposals

(* A call of the contract leaves true what the backend wrote or read before. *)
LEMMA DeskMoves ==
  ASSUME RegistryTypeOK, CopiesAgree, DeskInv, [Next]_registryVars,
         UNCHANGED <<rows, syncing>>,
         now' = now \/ \A id \in Ids : finishing[id] = "none"
  PROVE  /\ SyncIsReal' /\ ProposalRowsAreReal'
         /\ \A id \in creating : id <= counter'
         /\ \A id \in Ids : finishing[id] # "none" =>
              /\ id <= counter'
              /\ finishing[id] = "answered" => NothingElseExecuted(id)'
              /\ finishing[id] = "executed" => stored'[id].status = "Executed"
<1>. USE DEF DeskInv
<1>0. UNCHANGED <<rows, syncing>> /\ counter \in Nat
      /\ \A id \in Ids : stored[id].for \in Nat /\ stored[id].against \in Nat
                         /\ stored'[id].for \in Nat /\ stored'[id].against \in Nat
      /\ counter' \in Nat
  <2>1. ProposalsTypeOK /\ ProposalsTypeOK'
    BY ProposalsStep, TypeParts
  <2>2. counter \in Nat /\ counter' \in Nat
    BY <2>1 DEF ProposalsTypeOK
  <2>3. stored \in [Ids -> Proposals] /\ stored' \in [Ids -> Proposals]
    BY <2>1 DEF ProposalsTypeOK, Ids, Proposals, ValidFees
  <2>4. \A p \in Proposals : p.for \in Nat /\ p.against \in Nat
    BY DEF Proposals
  <2>. QED BY <2>2, <2>3, <2>4
<1>2. SyncIsReal'
  <2>. SUFFICES ASSUME syncing # NoSync
                PROVE  /\ Covers(syncing.id, syncing.proposal)'
                       /\ syncing.proposal.status # "None"
                       /\ syncing.proposal.status = "Executed"
                            => stored'[syncing.id].status = "Executed"
    BY <1>0 DEF SyncIsReal, NoSync, NoProposal, Proposal
  <2>1. syncing.proposal.for \in Nat /\ syncing.proposal.against \in Nat
    BY DEF DeskTypeOK, Proposals
  <2>. QED BY <1>0, <2>1, ProposalsGrow DEF SyncIsReal, Covers, Ids
<1>3. ASSUME NEW id \in Ids, finishing[id] # "none"
      PROVE  /\ id <= counter'
             /\ finishing[id] = "answered" => NothingElseExecuted(id)'
             /\ finishing[id] = "executed" => stored'[id].status = "Executed"
  <2>1. id <= counter /\ counter <= counter'
    BY <1>3, ProposalsGrow DEF RequestsAreReal
  <2>2. CASE finishing[id] = "answered"
    <3>1. NothingElseExecuted(id) /\ now' = now
      BY <1>3, <2>2 DEF RequestsAreReal
    <3>. QED BY <1>0, <2>1, <2>2, <3>1, NextStaysOpen DEF Ids
  <2>3. CASE finishing[id] # "answered"
    BY <1>0, <1>3, <2>1, <2>3, ProposalsGrow DEF RequestsAreReal, Ids
  <2>. QED BY <2>2, <2>3
<1>4. ProposalRowsAreReal'
  <2>1. \A id \in Ids : rows[id].for \in Nat /\ rows[id].against \in Nat
    BY DEF DeskTypeOK
  <2>. QED BY <1>0, <2>1, ProposalsGrow DEF ProposalRowsAreReal, Ids, NoRow
<1>5. \A id \in creating : id <= counter'
  BY <1>0, ProposalsGrow DEF RequestsAreReal, DeskTypeOK, Ids
<1>. QED BY <1>2, <1>3, <1>4, <1>5

(* A call of the contract while the backend waits. *)
LEMMA RegistryMoves ==
  ASSUME RegistryTypeOK, CopiesAgree, DeskInv, [Next]_registryVars, UNCHANGED deskVars,
         now' = now \/ \A id \in Ids : finishing[id] = "none"
  PROVE  DeskInv'
<1>0. UNCHANGED <<rows, creating, finishing, syncing>>
  BY DEF deskVars
<1>1. DeskTypeOK'
  BY <1>0 DEF DeskTypeOK, DeskInv, Ids, Proposals, RowStatuses
<1>2. SyncIsReal' /\ ProposalRowsAreReal'
  BY <1>0, DeskMoves
<1>3. RequestsAreReal'
  BY <1>0, DeskMoves DEF RequestsAreReal
<1>. QED BY <1>1, <1>2, <1>3 DEF DeskInv

(* The backend's steps, one at a time. *)
LEMMA DeskStep ==
  ASSUME RegistryTypeOK, CopiesAgree, DeskInv, [DeskNext]_governanceVars
  PROVE  DeskInv'
<1>. USE DEF DeskInv
<1>0. /\ counter \in 0 .. MaxProposals /\ pending.id = counter
      /\ MaxProposals \in Nat /\ Ids = 1 .. MaxProposals
      /\ PendingCopy \in Proposals /\ stored \in [Ids -> Proposals]
      /\ \A id \in Ids : stored[id].for \in Nat /\ stored[id].against \in Nat
      /\ pending \in [id : 0 .. MaxProposals, proposal : Proposals]
  BY RegistryBoundsAssumption DEF RegistryTypeOK, PendingCopy, Proposals, Ids, CopiesAgree
<1>1. /\ rows \in [Ids -> [status : RowStatuses \cup {"none"}, for : Nat, against : Nat]]
      /\ creating \subseteq Ids
      /\ finishing \in [Ids -> RowStatuses \cup {"none", "answered"}]
      /\ syncing \in [id : 0 .. MaxProposals, proposal : Proposals]
  BY DEF DeskTypeOK
<1>2. NoSync \in [id : 0 .. MaxProposals, proposal : Proposals]
  BY <1>0, NoProposalType DEF NoSync
<1>3. ASSUME NEW id \in Ids, pending.id = id
      PROVE  /\ stored[id] = PendingCopy /\ id <= counter
             /\ PendingCopy.status \in {"Active", "Failed", "Executed"}
  <2>1. stored[id] = PendingCopy /\ id = counter
    BY <1>0, <1>3 DEF CopiesAgree, OneOpenProposal
  <2>2. PendingCopy.status # "None"
    BY <1>0, <2>1 DEF CopiesAgree, OneOpenProposal
  <2>. QED BY <1>0, <2>1, <2>2 DEF Proposals
(* The call of a request is a call of the contract, and then it is noted. *)
<1>4. ASSUME NEW h \in Holders, NEW f \in ProposedFees, CreateProposal(h, f)
      PROVE  DeskInv'
  <2>1. [Next]_registryVars /\ now' = now /\ counter' = counter + 1
    BY <1>4 DEF CreateProposal, ProposeChange, Next
  <2>2. /\ creating' = creating \cup {counter + 1} /\ counter + 1 \in Ids
        /\ UNCHANGED <<rows, finishing, syncing>>
    BY <1>0, <1>4 DEF CreateProposal, ProposeChange
  <2>3. /\ SyncIsReal' /\ ProposalRowsAreReal'
        /\ \A id \in Ids : finishing[id] # "none" =>
             /\ id <= counter'
             /\ finishing[id] = "answered" => NothingElseExecuted(id)'
             /\ finishing[id] = "executed" => stored'[id].status = "Executed"
        /\ \A id \in creating : id <= counter'
    BY <2>1, <2>2, DeskMoves
  <2>4. RequestsAreReal'
    BY <1>0, <2>1, <2>2, <2>3 DEF RequestsAreReal
  <2>5. DeskTypeOK'
    BY <1>1, <2>2 DEF DeskTypeOK
  <2>. QED BY <2>3, <2>4, <2>5
<1>5. ASSUME NEW id \in Ids, ExecuteRequest(id)
      PROVE  DeskInv'
  <2>1. [Next]_registryVars /\ now' = now /\ counter' = counter
    BY <1>5 DEF ExecuteRequest, ExecuteProposal, Next
  <2>2. /\ finishing' = [finishing EXCEPT ![id] = "answered"]
        /\ UNCHANGED <<rows, creating, syncing>> /\ pending.id = id /\ pending'.id = id
    BY <1>5 DEF ExecuteRequest, ExecuteProposal, Save
  <2>3. /\ SyncIsReal' /\ ProposalRowsAreReal'
        /\ \A j \in Ids : finishing[j] # "none" =>
             /\ j <= counter'
             /\ finishing[j] = "answered" => NothingElseExecuted(j)'
             /\ finishing[j] = "executed" => stored'[j].status = "Executed"
        /\ \A j \in creating : j <= counter'
    BY <2>1, <2>2, DeskMoves
  <2>4. DeskTypeOK'
    BY <1>1, <2>2 DEF DeskTypeOK
  <2>5. NothingElseExecuted(id)' /\ id <= counter'
    BY <1>0, <2>1, <2>2 DEF NothingElseExecuted
  <2>6. \A j \in Ids : finishing'[j] = IF j = id THEN "answered" ELSE finishing[j]
    BY <1>1, <2>2
  <2>7. RequestsAreReal'
    BY <2>2, <2>3, <2>5, <2>6 DEF RequestsAreReal
  <2>. QED BY <2>3, <2>4, <2>7
(* Of these steps the contract knows nothing. *)
<1>6. ASSUME NEW id \in Ids, RecordProposalCreated(id)
      PROVE  DeskInv'
  <2>1. /\ id \in creating /\ creating' = creating \ {id}
        /\ rows' = [rows EXCEPT ![id] = [status |-> "active", for |-> 0, against |-> 0]]
        /\ UNCHANGED <<registryVars, finishing, syncing>>
    <3>1. [NoRow EXCEPT !.status = "active"] = [status |-> "active", for |-> 0, against |-> 0]
      BY DEF NoRow
    <3>. QED BY <1>6, <3>1 DEF RecordProposalCreated
  <2>2. DeskTypeOK'
    BY <1>1, <2>1 DEF DeskTypeOK, RowStatuses
  <2>3. SyncIsReal' /\ RequestsAreReal'
    BY <2>1 DEF SyncIsReal, RequestsAreReal, Covers, NothingElseExecuted, PendingCopy,
                registryVars
  <2>4. id <= counter
    BY <2>1 DEF RequestsAreReal
  <2>5. ProposalRowsAreReal'
    BY <1>0, <1>1, <2>1, <2>4 DEF ProposalRowsAreReal, registryVars
  <2>. QED BY <2>2, <2>3, <2>5
<1>7. ASSUME NEW id \in Ids, ReadBack(id)
      PROVE  DeskInv'
  <2>1. /\ finishing[id] = "answered" /\ id <= counter /\ NothingElseExecuted(id)
        /\ UNCHANGED <<registryVars, rows, creating, syncing>>
    BY <1>7 DEF ReadBack, RequestsAreReal
  <2>2. PICK s \in {ApiStatus(PendingCopy.status), "failed"} :
          finishing' = [finishing EXCEPT ![id] = s]
    BY <1>7 DEF ReadBack
  <2>3. PendingCopy.status \in {"Active", "Failed", "Executed"}
    BY <1>3, <2>1 DEF NothingElseExecuted
  <2>4. /\ s \in RowStatuses
        /\ s = "executed" => PendingCopy.status = "Executed"
    BY <2>2, <2>3 DEF ApiStatus, RowStatuses
  <2>5. s = "executed" => stored[id].status = "Executed"
    BY <1>3, <2>1, <2>4 DEF NothingElseExecuted
  <2>6. s # "answered"
    BY <2>4 DEF RowStatuses
  <2>7. \A j \in Ids : finishing'[j] = IF j = id THEN s ELSE finishing[j]
    BY <1>1, <2>2
  <2>8. DeskTypeOK'
    BY <1>1, <2>1, <2>2, <2>4 DEF DeskTypeOK
  <2>9. SyncIsReal' /\ ProposalRowsAreReal'
    BY <2>1 DEF SyncIsReal, ProposalRowsAreReal, Covers, registryVars
  <2>10. RequestsAreReal'
    BY <2>1, <2>5, <2>6, <2>7
       DEF RequestsAreReal, NothingElseExecuted, PendingCopy, registryVars
  <2>. QED BY <2>8, <2>9, <2>10
<1>8. ASSUME NEW id \in Ids, RecordOutcome(id)
      PROVE  DeskInv'
  <2>1. /\ finishing[id] \in RowStatuses
        /\ finishing' = [finishing EXCEPT ![id] = "none"]
        /\ UNCHANGED <<registryVars, creating, syncing>>
        /\ rows' = [rows EXCEPT ![id].status = finishing[id]]
    BY <1>8 DEF RecordOutcome
  <2>2. DeskTypeOK'
    BY <1>1, <2>1 DEF DeskTypeOK
  <2>3. \A j \in Ids : finishing'[j] = IF j = id THEN "none" ELSE finishing[j]
    BY <1>1, <2>1
  <2>4. SyncIsReal'
    BY <2>1 DEF SyncIsReal, Covers, registryVars
  <2>5. RequestsAreReal'
    BY <2>1, <2>3 DEF RequestsAreReal, NothingElseExecuted, PendingCopy, registryVars
  <2>6. /\ id <= counter
        /\ finishing[id] = "executed" => stored[id].status = "Executed"
    BY <2>1 DEF RequestsAreReal, RowStatuses
  <2>7. /\ rows'[id].status = finishing[id]
        /\ rows'[id].for = rows[id].for /\ rows'[id].against = rows[id].against
        /\ \A j \in Ids \ {id} : rows'[j] = rows[j]
    BY <1>1, <2>1
  <2>8. rows[id].for <= stored[id].for /\ rows[id].against <= stored[id].against
    BY <1>0, <1>1 DEF ProposalRowsAreReal, NoRow
  <2>9. ProposalRowsAreReal'
    BY <2>1, <2>6, <2>7, <2>8 DEF ProposalRowsAreReal, registryVars
  <2>. QED BY <2>2, <2>4, <2>5, <2>9
<1>9. CASE SyncReads
  <2>1. /\ pending.id # 0 /\ syncing' = pending
        /\ UNCHANGED <<registryVars, rows, creating, finishing>>
    BY <1>9 DEF SyncReads
  <2>2. DeskTypeOK'
    BY <1>0, <2>1 DEF DeskTypeOK
  <2>3. RequestsAreReal' /\ ProposalRowsAreReal'
    BY <2>1 DEF RequestsAreReal, ProposalRowsAreReal, NothingElseExecuted, PendingCopy,
                registryVars
  <2>4. /\ pending.id \in Ids /\ stored[pending.id] = pending.proposal
        /\ pending.proposal.status # "None"
    BY <1>0, <1>3, <2>1 DEF PendingCopy
  <2>5. SyncIsReal'
    BY <1>0, <2>1, <2>4 DEF SyncIsReal, Covers, registryVars
  <2>. QED BY <2>2, <2>3, <2>5
<1>10. CASE SyncWrites
  <2>1. /\ syncing # NoSync /\ syncing' = NoSync
        /\ UNCHANGED <<registryVars, creating, finishing>>
        /\ rows' = rows \/ rows' = [rows EXCEPT ![syncing.id] = RowOf(syncing.proposal)]
    BY <1>10 DEF SyncWrites
  <2>2. /\ Covers(syncing.id, syncing.proposal)
        /\ syncing.proposal.status \in {"Active", "Failed", "Executed"}
        /\ syncing.proposal.status = "Executed" => stored[syncing.id].status = "Executed"
    BY <1>1, <2>1 DEF SyncIsReal, Proposals
  <2>3. /\ RowOf(syncing.proposal)
             \in [status : RowStatuses \cup {"none"}, for : Nat, against : Nat]
        /\ RowOf(syncing.proposal).for = syncing.proposal.for
        /\ RowOf(syncing.proposal).against = syncing.proposal.against
        /\ RowOf(syncing.proposal).status = "executed"
             => syncing.proposal.status = "Executed"
    <3>1. syncing.proposal.for \in Nat /\ syncing.proposal.against \in Nat
      BY <1>1 DEF Proposals
    <3>2. /\ ApiStatus(syncing.proposal.status) \in RowStatuses
          /\ ApiStatus(syncing.proposal.status) = "executed"
               => syncing.proposal.status = "Executed"
      BY <2>2 DEF ApiStatus, RowStatuses
    <3>. QED BY <3>1, <3>2 DEF RowOf
  <2>4. DeskTypeOK'
    BY <1>1, <1>2, <2>1, <2>2, <2>3 DEF DeskTypeOK
  <2>5. RequestsAreReal' /\ SyncIsReal'
    BY <2>1 DEF RequestsAreReal, SyncIsReal, NothingElseExecuted, PendingCopy, registryVars
  <2>6. \A j \in Ids : rows'[j] = rows[j]
                         \/ (j = syncing.id /\ rows'[j] = RowOf(syncing.proposal))
    BY <1>1, <2>1
  <2>7. ProposalRowsAreReal'
    BY <2>1, <2>2, <2>3, <2>6 DEF ProposalRowsAreReal, Covers, registryVars
  <2>. QED BY <2>4, <2>5, <2>7
<1>11. CASE Crash
  <2>1. /\ creating' = {} /\ syncing' = NoSync /\ finishing' = [id \in Ids |-> "none"]
        /\ UNCHANGED <<registryVars, rows>>
    BY <1>11 DEF Crash
  <2>2. DeskTypeOK'
    BY <1>1, <1>2, <2>1 DEF DeskTypeOK
  <2>3. SyncIsReal' /\ RequestsAreReal' /\ ProposalRowsAreReal'
    BY <2>1 DEF SyncIsReal, RequestsAreReal, ProposalRowsAreReal, registryVars
  <2>. QED BY <2>2, <2>3
<1>12. CASE DirectCall
  <2>1. [Next]_registryVars /\ UNCHANGED deskVars
    BY <1>12 DEF DirectCall, Next
  <2>2. now' = now
    BY <1>12 DEF DirectCall, ProposeChange, Vote, ReclaimVoteDeposit, ExecuteProposal,
                 AdminSetFee, TransferTo, TransferToRegistry
  <2>. QED BY <2>1, <2>2, RegistryMoves
<1>13. CASE TimePasses
  BY <1>13, RegistryMoves DEF TimePasses, Next
<1>14. CASE UNCHANGED governanceVars
  <2>1. UNCHANGED registryVars /\ UNCHANGED deskVars
    BY <1>14 DEF governanceVars
  <2>. QED BY <2>1, RegistryMoves DEF registryVars
<1>. QED BY <1>4, <1>5, <1>6, <1>7, <1>8, <1>9, <1>10, <1>11, <1>12, <1>13, <1>14
         DEF DeskNext

(* The types, the copies and the backend's rows, together. *)
LEMMA DeskHolds == DeskSpec => [](RegistryTypeOK /\ DeskInv)
<1>1. DeskInit => DeskInv
  <2>. SUFFICES ASSUME DeskInit PROVE DeskInv
    OBVIOUS
  <2>1. /\ rows = [id \in Ids |-> NoRow] /\ creating = {} /\ syncing = NoSync
        /\ finishing = [id \in Ids |-> "none"]
    BY DEF DeskInit
  <2>2. NoSync \in [id : 0 .. MaxProposals, proposal : Proposals]
    BY NoProposalType, RegistryBoundsAssumption DEF NoSync
  <2>. QED BY <2>1, <2>2 DEF DeskInv, DeskTypeOK, SyncIsReal, RequestsAreReal,
                             ProposalRowsAreReal, NoRow
<1>2. RegistryTypeOK /\ CopiesAgree /\ DeskInv /\ [DeskNext]_governanceVars => DeskInv'
  BY DeskStep
<1>. QED BY <1>1, <1>2, TypesHold, CopiesHold, DeskCallsRegistry, PTL DEF DeskSpec

(* The types of the contract and of the backend: every status a row gets is *)
(* one its constraint allows (governance.js, mapProposalStatus).            *)
THEOREM DeskTypeCorrect == DeskSpec => []GovernanceTypeOK
<1>1. RegistryTypeOK /\ DeskInv => GovernanceTypeOK
  BY DEF DeskInv, DeskTypeOK, GovernanceTypeOK
<1>. QED BY <1>1, DeskHolds, PTL

(* A row shows no more votes than its proposal has, and says executed only  *)
(* of one that was, whatever comes between reading and writing.             *)
THEOREM RowsAreReal == DeskSpec => []ProposalRowsAreReal
<1>1. DeskInv => ProposalRowsAreReal
  BY DEF DeskInv
<1>. QED BY <1>1, DeskHolds, PTL
=============================================================================
