-------------------------- MODULE CampaignBalance -------------------------
(***************************************************************************)
(* What the raised_amount of one campaign with a classic wallet is worth:  *)
(* the jobs that record payments (backend/src/services/ledgerMonitor.js,   *)
(* in detail in LedgerIngestion), the sponsor match, the refresh of the    *)
(* status, the pass of reconciliation.js that sets raised_amount to the    *)
(* wallet's balance every 15 minutes, and the milestone releases whose     *)
(* amounts are shares of raised_amount (in detail in MilestoneRelease).    *)
(*                                                                         *)
(* A pass reads raised_amount for all campaigns at once, goes through      *)
(* them, asks Horizon for each wallet, and writes.  Payments land, jobs    *)
(* commit and milestones are paid between the three.  Amounts are stroops. *)
(***************************************************************************)
EXTENDS TokenSums

CONSTANTS
  Payments,       \* the payments ever made to the wallet
  AmountOf,       \* the amount of each
  Target,         \* the campaign's target_amount
  Pledge, Ratio,  \* one sponsor's pledge_amount and match_ratio
  Milestones,
  ShareOf,        \* release_percentage
  MaxPasses       \* bound: passes of the reconciliation

ASSUME PaymentsAssumption ==
  IsFiniteSet(Payments) /\ AmountOf \in [Payments -> Nat \ {0}]
ASSUME CampaignAssumption ==
  Target \in Nat \ {0} /\ Pledge \in Nat /\ Ratio \in Nat \ {0}
ASSUME MilestonesAssumption ==
  /\ IsFiniteSet(Milestones) /\ ShareOf \in [Milestones -> Nat]
  /\ Total(ShareOf) <= 100
ASSUME PassesAssumption == MaxPasses \in Nat

VARIABLES
  payments,       \* how far each payment has come
  raised, status, \* of the campaign
  matched,        \* campaign_matches.matched_amount
  adjustments,    \* the reconciliation_adjustment rows of contributions
  releases,       \* the release of each milestone and its amount
  pass,           \* the reconciliation at this campaign
  passes,
  (* history *)
  counted,        \* payments the last correction saw before their rows
  doubled,        \* of those, the ones that got a row afterwards
  stale,          \* a correction replaced another amount than it had read
  base,           \* raised_amount at the first approval of a milestone
  lowered         \* a correction lowered raised_amount after that

campaign == <<raised, status>>
history == <<counted, doubled, stale, base, lowered>>
vars == <<payments, campaign, matched, adjustments, releases, pass, passes,
          history>>

OpenStatuses == {"active", "funded"}
ReleaseStatuses == {"funded", "in_progress"}
PaidStatuses == ReleaseStatuses \cup {"completed"}

Smaller(a, b) == IF a < b THEN a ELSE b
Sum(S) == Total([p \in Payments |-> IF p \in S THEN AmountOf[p] ELSE 0])

InWallet == {p \in Payments : payments[p] # "none"}
Recorded == {p \in Payments : payments[p] = "recorded"}

Idle == [step |-> "idle", seen |-> 0, live |-> 0, among |-> {}]
NoRelease == [step |-> "pending", amount |-> 0]
Approved == {m \in Milestones : releases[m].step = "approved"}
Landed == {m \in Milestones : releases[m].step \in {"landed", "released"}}
Promised(S) ==
  Total([m \in Milestones |-> IF m \in S THEN releases[m].amount ELSE 0])

(* What the wallet holds on the ledger. *)
Balance == Sum(InWallet) - Promised(Landed)

Init ==
  /\ payments = [p \in Payments |-> "none"]
  /\ raised = 0 /\ status = "active" /\ matched = 0 /\ adjustments = 0
  /\ releases = [m \in Milestones |-> NoRelease]
  /\ pass = Idle /\ passes = 0
  /\ counted = {} /\ doubled = {} /\ stale = FALSE
  /\ base = 0 /\ lowered = FALSE

---------------------------------------------------------------------------
(* Payments and the jobs that record them. *)
Advance(p, from, to) ==
  /\ payments[p] = from
  /\ payments' = [payments EXCEPT ![p] = to]

Pay(p) ==
  /\ Advance(p, "none", "paid")
  /\ UNCHANGED <<campaign, matched, adjustments, releases, pass, passes,
                 history>>

(* A job reads the status: a payment to a campaign that is not open stays  *)
(* in the wallet without a row.                                            *)
CheckStatus(p) ==
  /\ Advance(p, "paid", IF status \in OpenStatuses THEN "checked" ELSE "dropped")
  /\ UNCHANGED <<campaign, matched, adjustments, releases, pass, passes,
                 history>>

(* Slip: the match ignores what is left of the pledge. *)
MatchUncapped(p) == AmountOf[p] * Ratio

MatchFor(p) == Smaller(AmountOf[p] * Ratio, Pledge - matched)

(* Slip: the match is taken from the pledge and not credited. *)
CreditWithoutMatch(p) == AmountOf[p]

Credit(p) == AmountOf[p] + MatchFor(p)

(* The job commits, whatever the status is by now: it can turn a campaign  *)
(* that failed, or one whose milestones are being paid, into a funded one. *)
Record(p) ==
  /\ Advance(p, "checked", "recorded")
  /\ raised' = raised + Credit(p)
  /\ matched' = matched + MatchFor(p)
  /\ status' = IF raised + Credit(p) >= Target THEN "funded" ELSE status
  /\ doubled' = doubled \cup (counted \cap {p})
  /\ UNCHANGED <<adjustments, releases, pass, passes, counted, stale, base,
                 lowered>>

(* A failing query ends the job; the payment stays without a row. *)
RecordFails(p) ==
  /\ \/ Advance(p, "paid", "dropped")
     \/ Advance(p, "checked", "dropped")
  /\ UNCHANGED <<campaign, matched, adjustments, releases, pass, passes,
                 history>>

(* The deadline may have passed whenever the refresh runs. *)
RefreshStatus ==
  /\ status = "active"
  /\ status' = IF raised >= Target THEN "funded" ELSE "failed"
  /\ UNCHANGED <<payments, raised, matched, adjustments, releases, pass,
                 passes, history>>

---------------------------------------------------------------------------
(* reconcileCampaignBalances. *)
SelectCampaign ==
  /\ pass.step = "idle" /\ passes < MaxPasses
  /\ status \in OpenStatuses
  /\ pass' = [Idle EXCEPT !.step = "selected", !.seen = raised]
  /\ passes' = passes + 1
  /\ UNCHANGED <<payments, campaign, matched, adjustments, releases, history>>

ReadBalance ==
  /\ pass.step = "selected"
  /\ pass' = [pass EXCEPT !.step = "read", !.live = Balance, !.among = InWallet]
  /\ UNCHANGED <<payments, campaign, matched, adjustments, releases, passes,
                 history>>

(* Slip: the total is corrected and no contribution accounts for it. *)
CorrectWithoutRow ==
  /\ pass.step = "read" /\ pass.live # pass.seen
  /\ raised' = pass.live
  /\ status' = IF pass.live >= Target /\ status \in OpenStatuses
               THEN "funded" ELSE status
  /\ pass' = Idle
  /\ UNCHANGED <<payments, matched, adjustments, releases, passes, history>>

(* One transaction: raised_amount becomes the balance that was read, and a *)
(* contribution over the difference to what was selected is inserted.      *)
Correct ==
  /\ pass.step = "read" /\ pass.live # pass.seen
  /\ raised' = pass.live
  /\ status' = IF pass.live >= Target /\ status \in OpenStatuses
               THEN "funded" ELSE status
  /\ adjustments' = adjustments + (pass.live - pass.seen)
  /\ pass' = Idle
  /\ counted' = pass.among \ Recorded
  /\ stale' = (stale \/ raised # pass.seen)
  /\ lowered' = (lowered \/ (base > 0 /\ pass.live < raised))
  /\ UNCHANGED <<payments, matched, releases, passes, doubled, base>>

(* No difference, a pending withdrawal, a wallet that cannot be read, or a *)
(* transaction that fails.                                                 *)
EndPass ==
  /\ pass.step # "idle"
  /\ pass' = Idle
  /\ UNCHANGED <<payments, campaign, matched, adjustments, releases, passes,
                 history>>

---------------------------------------------------------------------------
(* The milestones. *)
(* Slip: the share is taken of the target. *)
ShareOfTarget(x, share) == {(Target * share) \div 100}

(* toReleaseAmount: the nearest stroop, and at a tie the side on which the *)
(* binary value happens to lie.                                            *)
ReleaseAmounts(x, share) ==
  {a \in 0 .. x : 200 * a <= 2 * x * share + 100
                  /\ 2 * x * share <= 200 * a + 100}

Release(m, from, to) ==
  /\ releases[m].step = from
  /\ releases' = [releases EXCEPT ![m].step = to]

(* The worker claims the milestone, or an approver reads it: the amount is *)
(* fixed here.                                                             *)
Approve(m) ==
  /\ releases[m].step = "pending"
  /\ status \in ReleaseStatuses /\ raised > 0
  /\ \E a \in ReleaseAmounts(raised, ShareOf[m]) :
       releases' = [releases EXCEPT ![m] = [step |-> "approved", amount |-> a]]
  /\ base' = IF base = 0 THEN raised ELSE base
  /\ UNCHANGED <<payments, campaign, matched, adjustments, pass, passes,
                 counted, doubled, stale, lowered>>

(* The network refuses, or the approver finds the milestone taken. *)
ReleaseFails(m) ==
  /\ releases[m].step = "approved"
  /\ releases' = [releases EXCEPT ![m] = NoRelease]
  /\ UNCHANGED <<payments, campaign, matched, adjustments, pass, passes,
                 history>>

Land(m) ==
  /\ Release(m, "approved", "landed")
  /\ releases[m].amount \in 1 .. Balance
  /\ UNCHANGED <<payments, campaign, matched, adjustments, pass, passes,
                 history>>

(* Slip: what was paid is taken off raised_amount. *)
FinalizeAndDeduct(m) ==
  /\ Release(m, "landed", "released")
  /\ status' = IF status \in PaidStatuses THEN "in_progress" ELSE status
  /\ raised' = raised - Smaller(raised, releases[m].amount)
  /\ UNCHANGED <<payments, matched, adjustments, pass, passes, history>>

Finalize(m) ==
  /\ Release(m, "landed", "released")
  /\ status' = IF status \notin PaidStatuses THEN status
               ELSE IF \A n \in Milestones : releases'[n].step = "released"
                    THEN "completed" ELSE "in_progress"
  /\ UNCHANGED <<payments, raised, matched, adjustments, pass, passes,
                 history>>

---------------------------------------------------------------------------
PaymentStep(p) == Pay(p) \/ CheckStatus(p) \/ Record(p) \/ RecordFails(p)
ReleaseStep(m) == Approve(m) \/ ReleaseFails(m) \/ Land(m) \/ Finalize(m)
PassStep == SelectCampaign \/ ReadBalance \/ Correct \/ EndPass

Next ==
  \/ \E p \in Payments : PaymentStep(p)
  \/ \E m \in Milestones : ReleaseStep(m)
  \/ PassStep
  \/ RefreshStatus

Spec == Init /\ [][Next]_vars

---------------------------------------------------------------------------
BalanceTypeOK ==
  /\ payments \in [Payments -> {"none", "paid", "checked", "recorded", "dropped"}]
  /\ raised \in Nat /\ matched \in 0 .. Pledge /\ adjustments \in Int
  /\ status \in {"active", "failed"} \cup PaidStatuses
  /\ releases \in [Milestones ->
       [step : {"pending", "approved", "landed", "released"}, amount : Nat]]
  /\ pass \in [step : {"idle", "selected", "read"}, seen : Nat, live : Nat,
               among : SUBSET Payments]
  /\ passes \in 0 .. MaxPasses
  /\ counted \subseteq Payments /\ doubled \subseteq Payments
  /\ stale \in BOOLEAN /\ base \in Nat /\ lowered \in BOOLEAN

(* "SUM(contributions.amount) always equals campaigns.raised_amount after a *)
(* reconciliation correction" (20260626_reconciliation_adjustment_          *)
(* contribution.sql), with the matches, which are in no amount: so it is    *)
(* for every interleaving, unless a correction replaced another amount than *)
(* the one it had selected.                                                *)
RowsAddUp == ~stale => raised = Sum(Recorded) + matched + adjustments

(* All that a campaign can ever have to its name: what was paid to the     *)
(* wallet, the matches, and the payments counted twice, by a correction    *)
(* that saw them in the wallet and by their own job after it.              *)
Worth == Sum(InWallet) + matched + Sum(doubled)

(* raised_amount is never more than that, and a campaign becomes funded,   *)
(* and its milestones payable, only when that reaches the target: payments *)
(* counted twice included, so that a campaign can become funded with less  *)
(* than its target in the wallet.                                          *)
RaisedIsEarned ==
  /\ raised <= Worth
  /\ status \in PaidStatuses => Worth >= Target

RaisedIsExplained == RowsAddUp /\ RaisedIsEarned

(* No milestone is paid more than its share of what there is, to the       *)
(* stroop, nor less than its share of what the first one was computed from, *)
(* unless a correction took a release for missing money.                   *)
SharesAreKept ==
  \A m \in Approved \cup Landed :
    /\ 200 * releases[m].amount <= 2 * Worth * ShareOf[m] + 100
    /\ ~lowered => 2 * base * ShareOf[m] <= 200 * releases[m].amount + 100

(* Together the releases exceed what there is by the rounding only, so that *)
(* the last one can be paid to the stroop if no match and no doubled        *)
(* payment stands for money the wallet never got.                          *)
ReleasesAreBacked ==
  2 * Promised(Approved \cup Landed) <= 2 * Worth + Cardinality(Milestones)

ReleasesAreFair == SharesAreKept /\ ReleasesAreBacked
===========================================================================
