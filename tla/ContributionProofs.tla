------------------------- MODULE ContributionProofs -------------------------
(***************************************************************************)
(* Contributions: how they are submitted, and what they add up to.         *)
(*                                                                         *)
(* ContributionSubmission, for any keys, deposits, calls, failures and     *)
(* crashes: that calls with one key pay once but for the exceptions the    *)
(* code leaves open, and that what clients and deposits are told is on the *)
(* ledger.                                                                 *)
(*                                                                         *)
(* CampaignBalance, for any payments, target, pledge and shares: its types, *)
(* that raised_amount is explained by what was paid, and that the releases *)
(* are shares of it, which together exceed what the campaign is worth by   *)
(* the rounding only.                                                      *)
(***************************************************************************)
EXTENDS ContributionSubmission, CampaignBalance, TokenSumTheorems

(***************************************************************************)
(*                               Submission                                *)
(***************************************************************************)
Early == {"claim", "look", "read", "sync", "select", "insert"}
Sending == {"submit", "resubmit", "again", "undo", "mark"}
Keeping == {"keep_accept", "keep_refuse"}
Statuses == {"pending_anchor", "completed", "failed"}

(* Where a call is, what it has committed and what it has paid.             *)
CallOK(r, c, row, n, faults) ==
  IF c = None
  THEN row = "none" /\ n = 0
  ELSE /\ c.via = "route" =>
            /\ c.of \in Keys /\ c.step \notin {"read", "sync", "record"}
            /\ row \in {"none", "submitted"}
       /\ c.via # "route" =>
            /\ c.of \in Deposits /\ c.said \in Statuses
            /\ c.step \notin {"look", "accept", "refuse"} \cup Keeping
            /\ n > 0 => row # "none"
       /\ c.step \in Early => row = "none"
       /\ c.step \in Sending => row = IF c.via = "route" THEN "none" ELSE "pending"
       /\ c.step \in Early \cup {"submit", "resubmit"} => n = 0
       /\ c.step = "again" => n = 1
       /\ c.step \in {"resubmit", "again"} => c.asset = "cross"
       /\ c.step = "mark" => n > 0 /\ c.tx = r
       /\ row = "submitted" => n > 0
       /\ c.via = "route" /\ c.asset = "same" /\ faults = 0 /\ n > 0
            => row = "submitted" \/ c.step = "mark"

Faults == failures + crashes
CallBook == \A r \in Calls : CallOK(r, calls[r], rows[r], paid[r], Faults)

(* A call of the route that has claimed its key has it for itself until it  *)
(* ends.                                                                    *)
Holding(r) ==
  r \in Running /\ Via(r, "route") /\ calls[r].step \notin {"claim", "look"}
HeldBy(r) == keys[calls[r].of]

HoldBook ==
  /\ \A r \in Calls : Holding(r) => /\ HeldBy(r).status = "processing"
                                    /\ HeldBy(r).asset = calls[r].asset
  /\ \A q, r \in Calls : Holding(q) /\ Holding(r) /\ calls[q].of = calls[r].of => q = r

(* All answers of one life of a key are the one its holder gave. *)
ReplyBook ==
  /\ \A k \in Keys :
       /\ \A a, b \in replies[k] : a = b
       /\ \A a \in replies[k] : /\ a.asset = keys[k].asset
                                /\ keys[k].status # "free"
                                /\ keys[k].status = "finished" => a.answer = keys[k].answer
  /\ \A r \in Calls : Holding(r) =>
       \A a \in replies[calls[r].of] :
         /\ calls[r].step \in Keeping
         /\ a.answer = [accepted |-> calls[r].step = "keep_accept", tx |-> calls[r].tx]

(* Of the calls with one key one has a row, and while one of the route is   *)
(* sending there is none.                                                   *)
RowBook ==
  /\ \A q, r \in Calls :
       q # r /\ calls[r] # None /\ SameKey(q, r) => "none" \in {rows[q], rows[r]}
  /\ \A q, r \in Calls :
       Holding(r) /\ calls[r].step \in Sending /\ SameKey(q, r) => rows[q] = "none"

(* A payment that somebody may be told of is on the ledger and in its row.  *)
Backed(t, of) ==
  t \in Calls /\ Paying(t) /\ rows[t] = "submitted" /\ calls[t].of = of

TruthBook ==
  /\ \A k \in Keys : \A a \in replies[k] : a.answer.accepted => Backed(a.answer.tx, k)
  /\ \A k \in Keys :
       keys[k].status = "finished" /\ keys[k].answer.accepted
         => Backed(keys[k].answer.tx, k)
  /\ \A r \in Running : calls[r].step \in {"accept", "keep_accept"}
         => Backed(calls[r].tx, calls[r].of)
  /\ \A r \in Running : calls[r].step = "record" /\ calls[r].tx # None
         => Backed(calls[r].tx, calls[r].of)
  /\ \A d \in Deposits : deposits[d].tx # None => Backed(deposits[d].tx, d)

SubmissionInv ==
  /\ SubmissionTypeOK
  /\ CallBook /\ HoldBook /\ ReplyBook /\ RowBook /\ TruthBook

---------------------------------------------------------------------------
(* Most steps move one call on. *)
LEMMA RunningCall ==
  ASSUME SubmissionInv, NEW r \in Running
  PROVE  /\ r \in Calls /\ calls[r] \in CallRecords /\ calls[r] # None
         /\ calls[r].step \in Steps \ {"done"} /\ calls[r].tx \in Calls \cup {None}
         /\ calls[r].via \in Vias /\ calls[r].of \in Keys \cup Deposits
         /\ calls[r].asset \in Assets
         /\ CallOK(r, calls[r], rows[r], paid[r], Faults)
<1>1. r \in Calls /\ calls[r] # None /\ calls[r].step # "done"
  BY DEF Running
<1>2. calls[r] \in CallRecords
  BY <1>1 DEF SubmissionInv, SubmissionTypeOK
<1>. QED BY <1>1, <1>2 DEF CallRecords, SubmissionInv, CallBook

(* What a call is about never changes. *)
Identified ==
  \A q \in Calls : calls[q] # None =>
    /\ calls'[q] # None
    /\ calls'[q].via = calls[q].via /\ calls'[q].of = calls[q].of
    /\ calls'[q].asset = calls[q].asset /\ calls'[q].said = calls[q].said

LEMMA CarryFacts ==
  ASSUME SubmissionInv, NEW r \in Running, NEW s \in Steps, NEW t \in Calls \cup {None},
         Carry(r, s, t)
  PROVE  /\ calls' \in [Calls -> CallRecords \cup {None}]
         /\ calls'[r] # None /\ calls'[r].step = s /\ calls'[r].tx = t
         /\ calls'[r].via = calls[r].via /\ calls'[r].of = calls[r].of
         /\ calls'[r].asset = calls[r].asset /\ calls'[r].said = calls[r].said
         /\ \A q \in Calls \ {r} : calls'[q] = calls[q]
         /\ \A q \in Calls : calls'[q] = None <=> calls[q] = None
         /\ Identified
<1>1. r \in Calls /\ calls[r] \in CallRecords /\ calls[r] # None
  BY RunningCall
<1>2. calls \in [Calls -> CallRecords \cup {None}]
  BY DEF SubmissionInv, SubmissionTypeOK
<1> DEFINE c == [calls[r] EXCEPT !.step = s, !.tx = t]
<1>3. calls' = [calls EXCEPT ![r] = c]
  BY <1>1, <1>2 DEF Carry, CallRecords
<1>4. /\ c \in CallRecords /\ c.step = s /\ c.tx = t
      /\ c.via = calls[r].via /\ c.of = calls[r].of
      /\ c.asset = calls[r].asset /\ c.said = calls[r].said
  BY <1>1 DEF CallRecords
<1>5. c # None
  BY <1>4, NamesAssumption
<1> HIDE DEF c
<1>6. calls'[r] = c /\ \A q \in Calls \ {r} : calls'[q] = calls[q]
  BY <1>1, <1>2, <1>3
<1>7. calls' \in [Calls -> CallRecords \cup {None}]
  BY <1>2, <1>3, <1>4
<1>8. \A q \in Calls : calls'[q] = None <=> calls[q] = None
  BY <1>1, <1>5, <1>6
<1>9. Identified
  BY <1>1, <1>4, <1>5, <1>6 DEF Identified
<1>. QED BY <1>4, <1>5, <1>6, <1>7, <1>8, <1>9

DepositRows ==
  [Deposits ->
     [status : {"pending_anchor", "deposit_completed", "failed",
                "contribution_submitted"},
      tx : Calls \cup {None}, asset : Assets]]

(* The books under such a step. *)
LEMMA CallMove ==
  ASSUME SubmissionInv, NEW r \in Running, NEW s \in Steps, NEW t \in Calls \cup {None},
         Carry(r, s, t),
         \A q \in Calls \ {r} : rows'[q] = rows[q] /\ paid'[q] = paid[q],
         failures' \in Nat, crashes' \in Nat,
         failures' >= failures, crashes' >= crashes,
         CallOK(r, calls'[r], rows'[r], paid'[r], Faults')
  PROVE  CallBook'
<1>1. failures \in Nat /\ crashes \in Nat
  BY DEF SubmissionInv, SubmissionTypeOK
<1>2. Faults \in Nat /\ Faults' \in Nat /\ (Faults' = 0 => Faults = 0)
  <2>1. /\ failures \in Nat /\ crashes \in Nat /\ failures' \in Nat /\ crashes' \in Nat
        /\ failures' >= failures /\ crashes' >= crashes
    BY <1>1
  <2>2. ASSUME NEW a \in Nat, NEW b \in Nat, NEW c \in Nat, NEW d \in Nat, c >= a, d >= b
        PROVE  a + b \in Nat /\ c + d \in Nat /\ (c + d = 0 => a + b = 0)
    BY ONLY <2>2
  <2>. QED BY <2>1, <2>2 DEF Faults
<1> SUFFICES ASSUME NEW q \in Calls
             PROVE  CallOK(q, calls'[q], rows'[q], paid'[q], Faults')
  BY DEF CallBook
<1>3. CASE q = r
  BY <1>3
<1>4. CASE q # r
  <2>1. calls'[q] = calls[q] /\ rows'[q] = rows[q] /\ paid'[q] = paid[q]
    BY <1>4, CarryFacts
  <2>2. CallOK(q, calls[q], rows[q], paid[q], Faults)
    BY DEF SubmissionInv, CallBook
  <2>3. CallOK(q, calls[q], rows[q], paid[q], Faults')
    BY <1>2, <2>2 DEF CallOK
  <2>. QED BY <2>1, <2>3
<1>. QED BY <1>3, <1>4

LEMMA KeyMove ==
  ASSUME SubmissionInv, NEW r \in Running, NEW s \in Steps, NEW t \in Calls \cup {None},
         Carry(r, s, t), UNCHANGED <<keys, replies>>,
         Via(r, "route") =>
           s \in {"look", "done"} \/ (Holding(r) /\ calls[r].step \notin Keeping)
  PROVE  HoldBook' /\ ReplyBook'
<1>1. /\ r \in Calls /\ calls'[r].step = s /\ Identified
      /\ \A q \in Calls \ {r} : calls'[q] = calls[q]
      /\ calls[r] # None
  BY RunningCall, CarryFacts
<1>2. HoldBook /\ ReplyBook
  BY DEF SubmissionInv
<1>3. \A q \in Calls \ {r} : Holding(q)' <=> Holding(q)
  BY <1>1 DEF Holding, Running, Via
<1>4. Holding(r)' => Holding(r) /\ calls[r].step \notin Keeping
  BY <1>1 DEF Holding, Running, Via, Identified
<1>5. \A q \in Calls : Holding(q)' => /\ Holding(q) /\ calls'[q].of = calls[q].of
                                      /\ calls'[q].asset = calls[q].asset
  BY <1>1, <1>3, <1>4 DEF Identified
<1>6. HoldBook'
  BY <1>2, <1>5 DEF HoldBook, HeldBy
<1>7. ReplyBook'
  <2>1. ASSUME NEW q \in Calls, Holding(q)', NEW a \in replies'[calls'[q].of]
        PROVE  /\ calls'[q].step \in Keeping
               /\ a.answer = [accepted |-> calls'[q].step = "keep_accept",
                              tx |-> calls'[q].tx]
    <3>1. CASE q = r
      BY <1>2, <1>4, <1>5, <2>1, <3>1 DEF ReplyBook
    <3>2. CASE q # r
      BY <1>1, <1>2, <1>3, <2>1, <3>2 DEF ReplyBook
    <3>. QED BY <3>1, <3>2
  <2>. QED BY <1>2, <2>1 DEF ReplyBook
<1>. QED BY <1>6, <1>7

LEMMA RowMove ==
  ASSUME SubmissionInv, NEW r \in Running, NEW s \in Steps, NEW t \in Calls \cup {None},
         Carry(r, s, t),
         \A q \in Calls : rows'[q] = "none" <=> rows[q] = "none",
         Via(r, "route") /\ s \in Sending => calls[r].step \in Sending
  PROVE  RowBook'
<1>1. /\ r \in Calls /\ calls'[r].step = s /\ Identified /\ calls[r] # None
      /\ \A q \in Calls \ {r} : calls'[q] = calls[q]
      /\ \A q \in Calls : calls'[q] = None <=> calls[q] = None
  BY RunningCall, CarryFacts
<1>2. \A p, q \in Calls : calls[q] # None => (SameKey(p, q)' <=> SameKey(p, q))
  BY <1>1 DEF SameKey, Identified, Via
<1>3. \A q \in Calls : Holding(q)' /\ calls'[q].step \in Sending
                         => Holding(q) /\ calls[q].step \in Sending /\ calls[q] # None
  BY <1>1 DEF Holding, Running, Via, Identified, Sending
<1>. QED BY <1>1, <1>2, <1>3 DEF SubmissionInv, RowBook

LEMMA BackedStays ==
  ASSUME SubmissionInv, Identified,
         \A q \in Calls : /\ paid'[q] \in Nat /\ paid'[q] >= paid[q]
                          /\ rows[q] = "submitted" => rows'[q] = "submitted",
         NEW t, NEW of, Backed(t, of)
  PROVE  Backed(t, of)'
<1>1. paid \in [Calls -> 0 .. 2]
  BY DEF SubmissionInv, SubmissionTypeOK
<1>2. t \in Calls /\ paid[t] \in Nat
  BY <1>1 DEF Backed
<1>. QED BY <1>2 DEF Backed, Paying, Identified

LEMMA TruthMove ==
  ASSUME SubmissionInv, NEW r \in Running, NEW s \in Steps, NEW t \in Calls \cup {None},
         Carry(r, s, t), UNCHANGED <<keys, replies>>,
         \A q \in Calls : /\ paid'[q] \in Nat /\ paid'[q] >= paid[q]
                          /\ rows[q] = "submitted" => rows'[q] = "submitted",
         s \in {"accept", "keep_accept"} => Backed(t, calls[r].of)',
         s = "record" /\ t # None => Backed(t, calls[r].of)',
         \A d \in Deposits :
           deposits'[d].tx \in {None, deposits[d].tx} \/ Backed(deposits[d].tx, d)'
  PROVE  TruthBook'
<1>0. r \in Calls
  BY RunningCall
<1>1. /\ calls'[r].step = s /\ calls'[r].tx = t /\ Identified
      /\ \A q \in Calls \ {r} : calls'[q] = calls[q]
  BY CarryFacts
<1>2. \A u, of : Backed(u, of) => Backed(u, of)'
  BY <1>1, BackedStays
<1>3. TruthBook
  BY DEF SubmissionInv
<1>4. \A k \in Keys : \A a \in replies'[k] : a.answer.accepted => Backed(a.answer.tx, k)'
  BY <1>2, <1>3 DEF TruthBook
<1>5. \A k \in Keys : keys'[k].status = "finished" /\ keys'[k].answer.accepted
                        => Backed(keys[k].answer.tx, k)'
  <2> SUFFICES ASSUME NEW k \in Keys,
                      keys'[k].status = "finished", keys'[k].answer.accepted
               PROVE  Backed(keys[k].answer.tx, k)'
    OBVIOUS
  <2>1. PICK u : u = keys[k].answer.tx
    OBVIOUS
  <2>2. Backed(u, k)'
    BY <1>2, <1>3, <2>1 DEF TruthBook
  <2>. QED BY <2>1, <2>2
<1>6. \A q \in Running' :
        /\ calls'[q].step \in {"accept", "keep_accept"}
             => Backed(calls[q].tx, calls[q].of)'
        /\ calls'[q].step = "record" /\ calls'[q].tx # None
             => Backed(calls[q].tx, calls[q].of)'
  <2> SUFFICES ASSUME NEW q \in Running'
               PROVE  /\ calls'[q].step \in {"accept", "keep_accept"}
                           => Backed(calls[q].tx, calls[q].of)'
                      /\ calls'[q].step = "record" /\ calls'[q].tx # None
                           => Backed(calls[q].tx, calls[q].of)'
    OBVIOUS
  <2>1. CASE q = r
    BY <1>1, <2>1
  <2>2. CASE q # r
    <3>1. q \in Running /\ calls'[q] = calls[q]
      BY <1>0, <1>1, <2>2 DEF Running
    <3>2. PICK u, of : u = calls[q].tx /\ of = calls[q].of
      OBVIOUS
    <3>3. /\ calls[q].step \in {"accept", "keep_accept"} => Backed(u, of)
          /\ calls[q].step = "record" /\ calls[q].tx # None => Backed(u, of)
      BY <1>3, <3>1, <3>2 DEF TruthBook
    <3>4. /\ calls[q].step \in {"accept", "keep_accept"} => Backed(u, of)'
          /\ calls[q].step = "record" /\ calls[q].tx # None => Backed(u, of)'
      BY <1>2, <3>3
    <3>5. u = calls'[q].tx /\ of = calls'[q].of
      BY <3>1, <3>2
    <3>. QED BY <3>1, <3>4, <3>5 DEF Backed, Paying
  <2>. QED BY <2>1, <2>2
<1>7. \A d \in Deposits : deposits'[d].tx # None => Backed(deposits[d].tx, d)'
  <2> SUFFICES ASSUME NEW d \in Deposits, deposits'[d].tx # None,
                      deposits'[d].tx = deposits[d].tx
               PROVE  Backed(deposits[d].tx, d)'
    OBVIOUS
  <2>1. PICK u : u = deposits[d].tx
    OBVIOUS
  <2>2. Backed(u, d)'
    BY <1>2, <1>3, <2>1 DEF TruthBook
  <2>. QED BY <2>1, <2>2
<1>. QED BY <1>4, <1>5, <1>6, <1>7 DEF TruthBook

(* A step of one call that touches neither its key nor an answer. *)
LEMMA StepKeeps ==
  ASSUME SubmissionInv, NEW r \in Running, NEW s \in Steps, NEW t \in Calls \cup {None},
         Carry(r, s, t), UNCHANGED <<keys, anchor, replies>>,
         events' \subseteq Deposits, deposits' \in DepositRows,
         rows' \in [Calls -> {"none", "pending", "submitted", "failed"}],
         paid' \in [Calls -> 0 .. 2],
         \A q \in Calls \ {r} : rows'[q] = rows[q] /\ paid'[q] = paid[q],
         rows[r] = "submitted" => rows'[r] = "submitted", paid'[r] >= paid[r],
         failures' \in Nat, crashes' \in Nat, expiries' \in Nat,
         failures' >= failures, crashes' >= crashes,
         CallOK(r, calls'[r], rows'[r], paid'[r], Faults'),
         Via(r, "route") =>
           s \in {"look", "done"} \/ (Holding(r) /\ calls[r].step \notin Keeping),
         RowBook',
         s \in {"accept", "keep_accept"} => Backed(t, calls[r].of)',
         s = "record" /\ t # None => Backed(t, calls[r].of)',
         \A d \in Deposits :
           deposits'[d].tx \in {None, deposits[d].tx} \/ Backed(deposits[d].tx, d)'
  PROVE  SubmissionInv'
<1>1. SubmissionTypeOK'
  BY CarryFacts DEF SubmissionInv, SubmissionTypeOK, DepositRows
<1>2. CallBook'
  BY CallMove
<1>3. HoldBook' /\ ReplyBook'
  BY KeyMove
<1>4. TruthBook'
  <2>1. paid \in [Calls -> 0 .. 2]
    BY DEF SubmissionInv, SubmissionTypeOK
  <2>2. \A q \in Calls : /\ paid'[q] \in Nat /\ paid'[q] >= paid[q]
                         /\ rows[q] = "submitted" => rows'[q] = "submitted"
    BY <2>1
  <2>. QED BY <2>2, TruthMove
<1>. QED BY <1>1, <1>2, <1>3, <1>4 DEF SubmissionInv

(* A call that threw. *)
LEMMA ThrowKeeps ==
  ASSUME SubmissionInv, NEW r \in Running, Throw(r),
         UNCHANGED <<keys, anchor, replies, paid, crashes, expiries>>,
         rows' \in [Calls -> {"none", "pending", "submitted", "failed"}],
         \A q \in Calls \ {r} : rows'[q] = rows[q],
         \/ rows'[r] = rows[r]
         \/ ~Via(r, "route") /\ calls[r].step = "undo" /\ rows'[r] = "failed",
         failures' \in Nat, failures' >= failures,
         calls[r].step \in {"read", "sync", "select", "insert", "record"} \cup Sending,
         calls[r].step = "mark" => Faults' > 0
  PROVE  SubmissionInv'
<1> DEFINE s == IF Via(r, "route") THEN "refuse" ELSE "done"
<1>1. /\ s \in Steps /\ None \in Calls \cup {None} /\ Carry(r, s, None)
      /\ s = "refuse" \/ (s = "done" /\ ~Via(r, "route"))
  BY DEF Throw, Steps
<1>2. /\ r \in Calls /\ calls[r] # None /\ calls[r].via \in Vias
      /\ calls[r].of \in Keys \cup Deposits
      /\ calls[r].step \in Steps /\ calls[r].step # "done"
      /\ CallOK(r, calls[r], rows[r], paid[r], Faults)
  BY RunningCall
<1>3. /\ calls'[r] # None /\ calls'[r].step = s /\ calls'[r].via = calls[r].via
      /\ calls'[r].of = calls[r].of /\ calls'[r].asset = calls[r].asset
      /\ calls'[r].said = calls[r].said
  BY <1>1, CarryFacts
<1>4. /\ events \subseteq Deposits /\ deposits \in DepositRows
      /\ paid \in [Calls -> 0 .. 2] /\ failures \in Nat /\ crashes \in Nat
      /\ expiries \in Nat /\ paid[r] \in Nat
  BY <1>2 DEF SubmissionInv, SubmissionTypeOK, DepositRows
<1>5. events' \subseteq Deposits
  BY <1>4 DEF Throw
<1>6. /\ deposits' \in DepositRows
      /\ \A d \in Deposits : deposits'[d].tx = deposits[d].tx
  <2>1. CASE deposits' = deposits
    BY <1>4, <2>1
  <2>2. CASE deposits' # deposits
    <3>1. ~Via(r, "route")
      BY <2>2 DEF Throw
    <3>2. calls[r].of \in Deposits
      BY <1>2, <3>1 DEF CallOK, Via
    <3>3. deposits' = [deposits EXCEPT ![calls[r].of].status = "deposit_completed"]
      BY <2>2 DEF Throw
    <3>. QED BY <1>4, <3>2, <3>3 DEF DepositRows
  <2>. QED BY <2>1, <2>2
<1>7. Faults \in Nat /\ Faults' \in Nat /\ (Faults' = 0 => Faults = 0)
  BY <1>4 DEF Faults
<1>8. CallOK(r, calls'[r], rows'[r], paid'[r], Faults')
  BY <1>1, <1>2, <1>3, <1>4, <1>7 DEF CallOK, Via, Early, Sending, Keeping
<1>9. Via(r, "route") => Holding(r) /\ calls[r].step \notin Keeping
  BY DEF Holding, Keeping, Sending
<1>10. RowBook'
  <2>1. \A q \in Calls : rows'[q] = "none" <=> rows[q] = "none"
    BY <1>2 DEF CallOK, Via, Sending
  <2>2. s \notin Sending
    BY <1>1 DEF Sending
  <2> HIDE DEF s
  <2>. QED BY <1>1, <2>1, <2>2, RowMove
<1>11. rows[r] = "submitted" => rows'[r] = "submitted"
  BY <1>2 DEF CallOK, Via, Sending
<1>12. s \notin {"accept", "keep_accept", "record"}
  BY <1>1
<1> HIDE DEF s
<1>. QED BY <1>1, <1>4, <1>5, <1>6, <1>8, <1>9, <1>10, <1>11, <1>12, StepKeeps

(* A step that only moves a call on, and nobody is told anything. *)
LEMMA QuietKeeps ==
  ASSUME SubmissionInv, NEW r \in Running, NEW s \in Steps, NEW t \in Calls \cup {None},
         Carry(r, s, t),
         UNCHANGED <<keys, rows, paid, anchor, replies, crashes, expiries>>,
         events' \subseteq Deposits, deposits' \in DepositRows,
         \A d \in Deposits : deposits'[d].tx = deposits[d].tx,
         failures' \in Nat, failures' >= failures,
         CallOK(r, calls'[r], rows[r], paid[r], Faults'),
         Via(r, "route") =>
           s \in {"look", "done"} \/ (Holding(r) /\ calls[r].step \notin Keeping),
         Via(r, "route") /\ s \in Sending => calls[r].step \in Sending,
         s \notin {"accept", "keep_accept", "record"}
  PROVE  SubmissionInv'
<1>1. /\ rows \in [Calls -> {"none", "pending", "submitted", "failed"}]
      /\ paid \in [Calls -> 0 .. 2] /\ crashes \in Nat /\ expiries \in Nat
      /\ r \in Calls
  BY RunningCall DEF SubmissionInv, SubmissionTypeOK
<1>2. paid'[r] >= paid[r]
  BY <1>1
<1>3. RowBook'
  BY RowMove
<1>. QED BY <1>1, <1>2, <1>3, StepKeeps

LEMMA StepTypes ==
  ASSUME SubmissionInv
  PROVE  /\ keys \in [Keys -> [status : {"free", "processing", "finished"},
                               asset : Assets \cup {None},
                               answer : Answers \cup {None}]]
         /\ events \subseteq Deposits /\ deposits \in DepositRows
         /\ rows \in [Calls -> {"none", "pending", "submitted", "failed"}]
         /\ paid \in [Calls -> 0 .. 2]
         /\ anchor \in [Deposits -> {"pending_anchor", "completed", "failed"}]
         /\ calls \in [Calls -> CallRecords \cup {None}]
         /\ replies \in [Keys -> SUBSET [asset : Assets, answer : Answers]]
         /\ failures \in Nat /\ crashes \in Nat /\ expiries \in Nat
BY DEF SubmissionInv, SubmissionTypeOK, DepositRows

(* With or without a failure counted, there are not fewer than before. *)
LEMMA FailsCounts ==
  ASSUME SubmissionInv, Fails \/ UNCHANGED bounds
  PROVE  /\ UNCHANGED <<crashes, expiries>>
         /\ failures' \in Nat /\ failures' >= failures
         /\ Faults' \in Nat
         /\ Fails => Faults' > 0
         /\ Faults' = 0 => Faults = 0
<1>1. failures \in Nat /\ crashes \in Nat
  BY StepTypes
<1>2. UNCHANGED <<crashes, expiries>>
  BY DEF Fails, bounds
<1>3. failures' = failures + 1 \/ (failures' = failures /\ ~Fails)
  BY <1>1 DEF Fails, bounds
<1>. QED BY <1>1, <1>2, <1>3 DEF Faults

---------------------------------------------------------------------------
(* Each step keeps the invariant. *)

LEMMA ReadKeeps ==
  ASSUME SubmissionInv, NEW r \in Running, Read(r)
  PROVE  SubmissionInv'
<1>1. /\ calls[r].step = "read" /\ Carry(r, "sync", deposits[calls[r].of].tx)
      /\ UNCHANGED <<keys, events, deposits, rows, paid, anchor, replies, bounds>>
  BY DEF Read, At
<1>2. /\ r \in Calls /\ calls[r] # None
      /\ CallOK(r, calls[r], rows[r], paid[r], Faults)
  BY RunningCall
<1>3. ~Via(r, "route") /\ calls[r].of \in Deposits
  BY <1>1, <1>2 DEF CallOK, Via
<1>4. PICK t \in Calls \cup {None} : t = deposits[calls[r].of].tx
  BY <1>3, StepTypes DEF DepositRows
<1>5. Carry(r, "sync", t) /\ "sync" \in Steps
  BY <1>1, <1>4 DEF Steps
<1>6. /\ calls'[r] # None /\ calls'[r].step = "sync" /\ calls'[r].via = calls[r].via
      /\ calls'[r].of = calls[r].of /\ calls'[r].said = calls[r].said
  BY <1>5, CarryFacts
<1>7. UNCHANGED <<crashes, expiries, failures>> /\ Faults' = Faults
  BY <1>1 DEF bounds, Faults
<1>8. CallOK(r, calls'[r], rows[r], paid[r], Faults')
  BY <1>1, <1>2, <1>3, <1>6, <1>7 DEF CallOK, Via, Early, Sending, Keeping
<1>. QED BY <1>1, <1>3, <1>5, <1>7, <1>8, StepTypes, QuietKeeps DEF Sending

LEMMA SyncKeeps ==
  ASSUME SubmissionInv, NEW r \in Running, Sync(r)
  PROVE  SubmissionInv'
<1> DEFINE d == calls[r].of
           s == IF calls[r].said = "completed" /\ calls[r].tx = None THEN "select"
                                                                   ELSE "done"
<1>1. /\ calls[r].step = "sync" /\ Goto(r, s)
      /\ deposits' = [deposits EXCEPT ![d].status =
           CASE calls[r].said # "completed" -> calls[r].said
             [] calls[r].tx # None          -> "contribution_submitted"
             [] OTHER                       -> "deposit_completed"]
      /\ UNCHANGED <<keys, events, rows, paid, anchor, replies, bounds>>
  BY DEF Sync, At
<1>2. /\ r \in Calls /\ calls[r] # None /\ calls[r] \in CallRecords
      /\ CallOK(r, calls[r], rows[r], paid[r], Faults)
  BY RunningCall
<1>3. ~Via(r, "route") /\ calls[r].of \in Deposits /\ calls[r].said \in Statuses
  BY <1>1, <1>2 DEF CallOK, Via
<1>4. calls[r].said \in {"pending_anchor", "completed", "failed"}
  BY <1>3 DEF Statuses
<1>5. /\ s \in {"select", "done"}
      /\ \E t \in Calls \cup {None} : Carry(r, s, t)
  BY <1>1, <1>2 DEF Goto, CallRecords
<1>6. /\ deposits' \in DepositRows
      /\ \A e \in Deposits : deposits'[e].tx = deposits[e].tx
  <2> DEFINE v == CASE calls[r].said # "completed" -> calls[r].said
                    [] calls[r].tx # None          -> "contribution_submitted"
                    [] OTHER                       -> "deposit_completed"
  <2>1. v \in {"pending_anchor", "deposit_completed", "failed", "contribution_submitted"}
    BY <1>4
  <2>2. deposits' = [deposits EXCEPT ![d].status = v]
    BY <1>1
  <2> HIDE DEF v
  <2>. QED BY <1>3, <2>1, <2>2, StepTypes DEF DepositRows
<1> HIDE DEF s
<1>7. PICK t \in Calls \cup {None} : Carry(r, s, t)
  BY <1>5
<1>8. s \in Steps
  BY <1>5 DEF Steps
<1>9. /\ calls'[r] # None /\ calls'[r].step = s /\ calls'[r].via = calls[r].via
      /\ calls'[r].of = calls[r].of /\ calls'[r].said = calls[r].said
  BY <1>7, <1>8, CarryFacts
<1>10. UNCHANGED <<crashes, expiries, failures>> /\ Faults' = Faults
  BY <1>1 DEF bounds, Faults
<1>11. CallOK(r, calls'[r], rows[r], paid[r], Faults')
  BY <1>1, <1>2, <1>3, <1>5, <1>9, <1>10 DEF CallOK, Via, Early, Sending, Keeping
<1>12. s \notin {"accept", "keep_accept", "record"} \cup Sending
  BY <1>5 DEF Sending
<1>13. events' \subseteq Deposits /\ failures' \in Nat /\ failures' >= failures
  BY <1>1, <1>10, StepTypes
<1>. QED BY <1>1, <1>3, <1>6, <1>7, <1>8, <1>10, <1>11, <1>12, <1>13, QuietKeeps

LEMMA ClaimEventKeeps ==
  ASSUME SubmissionInv, NEW r \in Running, ClaimEvent(r)
  PROVE  SubmissionInv'
<1>1. /\ calls[r].step = "claim" /\ calls[r].via = "callback"
      /\ UNCHANGED <<keys, deposits, rows, paid, anchor, replies>>
      /\ Fails \/ UNCHANGED bounds
      /\ \E s \in {"done", "read"} : Goto(r, s)
      /\ events' \subseteq events \cup {calls[r].of}
  BY DEF ClaimEvent, At, Via
<1>2. /\ r \in Calls /\ calls[r] # None /\ calls[r].tx \in Calls \cup {None}
      /\ CallOK(r, calls[r], rows[r], paid[r], Faults)
  BY RunningCall
<1>3. ~Via(r, "route") /\ calls[r].of \in Deposits
  BY <1>1, <1>2 DEF CallOK, Via
<1>4. PICK s \in {"done", "read"}, t \in Calls \cup {None} : Carry(r, s, t)
  BY <1>1, <1>2 DEF Goto
<1>5. s \in Steps /\ s \notin {"accept", "keep_accept", "record"} \cup Sending
  BY <1>4 DEF Steps, Sending
<1>6. /\ calls'[r] # None /\ calls'[r].step = s /\ calls'[r].via = calls[r].via
      /\ calls'[r].of = calls[r].of /\ calls'[r].said = calls[r].said
  BY <1>4, <1>5, CarryFacts
<1>7. /\ UNCHANGED <<crashes, expiries>> /\ failures' \in Nat /\ failures' >= failures
      /\ (Faults' = 0 => Faults = 0)
  BY <1>1, FailsCounts
<1>8. CallOK(r, calls'[r], rows[r], paid[r], Faults')
  BY <1>1, <1>2, <1>4, <1>6, <1>7 DEF CallOK, Via, Early, Sending, Keeping
<1>9. /\ events' \subseteq Deposits /\ deposits' \in DepositRows
      /\ \A d \in Deposits : deposits'[d].tx = deposits[d].tx
  BY <1>1, <1>3, StepTypes
<1>. QED BY <1>1, <1>3, <1>4, <1>5, <1>7, <1>8, <1>9, QuietKeeps

LEMMA DeclineKeeps ==
  ASSUME SubmissionInv, NEW r \in Running, Decline(r)
  PROVE  SubmissionInv'
<1> DEFINE s == IF Via(r, "route") THEN "refuse" ELSE "done"
<1>1. /\ calls[r].step = "select" /\ Goto(r, s)
      /\ UNCHANGED <<keys, events, rows, paid, anchor, replies, bounds>>
      /\ \/ deposits' = deposits
         \/ /\ ~Via(r, "route")
            /\ deposits' = [deposits EXCEPT ![calls[r].of].status = "failed"]
  BY DEF Decline, At
<1>2. /\ r \in Calls /\ calls[r] # None /\ calls[r].tx \in Calls \cup {None}
      /\ CallOK(r, calls[r], rows[r], paid[r], Faults)
  BY RunningCall
<1>3. ~Via(r, "route") => calls[r].of \in Deposits
  BY <1>2 DEF CallOK, Via
<1>4. \/ s = "refuse" /\ Via(r, "route")
      \/ s = "done" /\ ~Via(r, "route")
  OBVIOUS
<1> HIDE DEF s
<1>5. PICK t \in Calls \cup {None} : Carry(r, s, t)
  BY <1>1, <1>2 DEF Goto
<1>6. s \in Steps /\ s \notin {"accept", "keep_accept", "record"} \cup Sending
  BY <1>4 DEF Steps, Sending
<1>7. /\ calls'[r] # None /\ calls'[r].step = s /\ calls'[r].via = calls[r].via
      /\ calls'[r].of = calls[r].of /\ calls'[r].said = calls[r].said
      /\ calls'[r].asset = calls[r].asset
  BY <1>5, <1>6, CarryFacts
<1>8. UNCHANGED <<crashes, expiries, failures>> /\ Faults' = Faults
  BY <1>1 DEF bounds, Faults
<1>9. CallOK(r, calls'[r], rows[r], paid[r], Faults')
  BY <1>1, <1>2, <1>4, <1>7, <1>8 DEF CallOK, Via, Early, Sending, Keeping
<1>10. /\ deposits' \in DepositRows
       /\ \A d \in Deposits : deposits'[d].tx = deposits[d].tx
  <2>1. CASE deposits' = deposits
    BY <2>1, StepTypes
  <2>2. CASE /\ ~Via(r, "route")
             /\ deposits' = [deposits EXCEPT ![calls[r].of].status = "failed"]
    BY <1>3, <2>2, StepTypes DEF DepositRows
  <2>. QED BY <1>1, <2>1, <2>2
<1>11. events' \subseteq Deposits /\ failures' \in Nat /\ failures' >= failures
  BY <1>1, <1>8, StepTypes
<1>12. Via(r, "route") => Holding(r) /\ calls[r].step \notin Keeping
  BY <1>1 DEF Holding, Keeping
<1>. QED BY <1>1, <1>5, <1>6, <1>8, <1>9, <1>10, <1>11, <1>12, QuietKeeps

LEMMA QueryFailsKeeps ==
  ASSUME SubmissionInv, NEW r \in Running, QueryFails(r)
  PROVE  SubmissionInv'
<1>1. /\ calls[r].step \in {"read", "sync", "select", "insert"}
      /\ Fails /\ Throw(r)
      /\ UNCHANGED <<keys, rows, paid, anchor, replies>>
  BY DEF QueryFails, At
<1>. QED BY <1>1, StepTypes, FailsCounts, ThrowKeeps DEF Sending

(* The failures around and after the payment. *)
LEMMA LateFailuresKeep ==
  ASSUME SubmissionInv, NEW r \in Running,
         UndoFails(r) \/ MarkFails(r) \/ StoreTransactionFails(r)
  PROVE  SubmissionInv'
<1>1. /\ calls[r].step \in {"undo", "mark", "record"}
      /\ Fails /\ Throw(r)
      /\ UNCHANGED <<keys, rows, paid, anchor, replies>>
  BY DEF UndoFails, MarkFails, StoreTransactionFails, At
<1>. QED BY <1>1, StepTypes, FailsCounts, ThrowKeeps DEF Sending

LEMMA UndoKeeps ==
  ASSUME SubmissionInv, NEW r \in Running, Undo(r)
  PROVE  SubmissionInv'
<1>1. /\ calls[r].step = "undo" /\ Throw(r)
      /\ rows' = IF Via(r, "route") THEN rows ELSE [rows EXCEPT ![r] = "failed"]
      /\ UNCHANGED <<keys, paid, anchor, replies, crashes, expiries, failures>>
  BY DEF Undo, At, Visible, bounds
<1>2. r \in Calls
  BY RunningCall
<1>3. /\ rows' \in [Calls -> {"none", "pending", "submitted", "failed"}]
      /\ \A q \in Calls \ {r} : rows'[q] = rows[q]
      /\ \/ rows'[r] = rows[r]
         \/ ~Via(r, "route") /\ rows'[r] = "failed"
  BY <1>1, <1>2, StepTypes
<1>4. failures' \in Nat /\ failures' >= failures
  BY <1>1, StepTypes
<1>. QED BY <1>1, <1>3, <1>4, ThrowKeeps DEF Sending

(* A row with the call's key: it was sent and paid for, or the row of a     *)
(* deposit's callback that did not get there.                               *)
LEMMA SelectKeeps ==
  ASSUME SubmissionInv, NEW r \in Running, Select(r)
  PROVE  SubmissionInv'
<1>1. /\ calls[r].step = "select"
      /\ UNCHANGED <<keys, events, deposits, rows, paid, anchor, replies, bounds>>
  BY DEF Select, At
<1>2. /\ r \in Calls /\ calls[r] # None /\ calls[r].tx \in Calls \cup {None}
      /\ calls[r].via \in Vias
      /\ CallOK(r, calls[r], rows[r], paid[r], Faults)
  BY RunningCall
<1>3. /\ UNCHANGED <<crashes, expiries, failures>> /\ Faults' = Faults
      /\ events' \subseteq Deposits /\ deposits' \in DepositRows
      /\ failures' \in Nat /\ failures' >= failures
      /\ \A d \in Deposits : deposits'[d].tx = deposits[d].tx
  BY <1>1, StepTypes DEF bounds, Faults
<1>4. Via(r, "route") => Holding(r) /\ calls[r].step \notin Keeping
  BY <1>1 DEF Holding, Keeping
<1>5. CASE SeenBefore(r) = {}
  <2>1. PICK t \in Calls \cup {None} : Carry(r, "insert", t)
    BY <1>2, <1>5 DEF Select, Goto
  <2>2. /\ "insert" \in Steps
        /\ "insert" \notin {"accept", "keep_accept", "record"} \cup Sending
    BY DEF Steps, Sending
  <2>3. /\ calls'[r] # None /\ calls'[r].step = "insert" /\ calls'[r].via = calls[r].via
        /\ calls'[r].of = calls[r].of /\ calls'[r].said = calls[r].said
        /\ calls'[r].asset = calls[r].asset
    BY <2>1, <2>2, CarryFacts
  <2>4. CallOK(r, calls'[r], rows[r], paid[r], Faults')
    BY <1>1, <1>2, <1>3, <2>3 DEF CallOK, Via, Early, Sending, Keeping
  <2>. QED BY <1>1, <1>3, <1>4, <2>1, <2>2, <2>4, QuietKeeps
<1>6. CASE SeenBefore(r) # {}
  <2>1. PICK q \in SeenBefore(r) :
          Carry(r, After(r), IF rows[q] = "submitted" THEN q ELSE None)
    BY <1>6 DEF Select
  <2>2. /\ q \in Calls /\ rows[q] # "none" /\ SameKey(q, r) /\ calls[q] # None
        /\ calls[q].via = calls[r].via /\ calls[q].of = calls[r].of
    BY <2>1 DEF SeenBefore, SameKey
  <2>3. CallOK(q, calls[q], rows[q], paid[q], Faults)
    BY <2>2 DEF SubmissionInv, CallBook
  <2>4. PICK s \in Steps, t \in Calls \cup {None} :
          /\ Carry(r, s, t)
          /\ t = IF rows[q] = "submitted" THEN q ELSE None
          /\ \/ s = "accept" /\ Via(r, "route")
             \/ s = "record" /\ ~Via(r, "route")
    BY <2>1, <2>2 DEF Steps, After
  <2>5. t # None => t = q /\ rows[q] = "submitted"
    BY <2>4
  <2>6. s = "accept" => t # None
    BY <2>2, <2>3, <2>4, NamesAssumption DEF CallOK, Via
  <2>7. /\ calls'[r] # None /\ calls'[r].step = s /\ calls'[r].via = calls[r].via
        /\ calls'[r].of = calls[r].of /\ calls'[r].said = calls[r].said
        /\ calls'[r].asset = calls[r].asset /\ Identified
    BY <2>4, CarryFacts
  <2>8. CallOK(r, calls'[r], rows[r], paid[r], Faults')
    BY <1>1, <1>2, <1>3, <2>4, <2>7 DEF CallOK, Via, Early, Sending, Keeping
  <2>9. \A u \in Calls : /\ paid'[u] \in Nat /\ paid'[u] >= paid[u]
                         /\ rows[u] = "submitted" => rows'[u] = "submitted"
    BY <1>1, StepTypes
  <2>10. t # None => Backed(t, calls[r].of)'
    <3> SUFFICES ASSUME t # None PROVE Backed(t, calls[r].of)'
      OBVIOUS
    <3>1. PICK of : of = calls[r].of
      OBVIOUS
    <3>2. paid[q] > 0
      BY <2>2, <2>3, <2>5 DEF CallOK
    <3>3. Backed(t, of)
      BY <2>2, <2>5, <3>1, <3>2 DEF Backed, Paying
    <3>4. Backed(t, of)'
      BY <2>7, <2>9, <3>3, BackedStays
    <3>5. calls'[r].of = of
      BY <2>7, <3>1
    <3>. QED BY <3>4, <3>5 DEF Backed, Paying
  <2>11. RowBook'
    <3>1. s \notin Sending /\ \A u \in Calls : rows'[u] = "none" <=> rows[u] = "none"
      BY <1>1, <2>4 DEF Sending
    <3>. QED BY <2>4, <3>1, RowMove
  <2>12. /\ rows' \in [Calls -> {"none", "pending", "submitted", "failed"}]
         /\ paid' \in [Calls -> 0 .. 2] /\ crashes' \in Nat /\ expiries' \in Nat
         /\ crashes' >= crashes /\ rows' = rows /\ paid' = paid
         /\ paid'[r] >= paid[r] /\ UNCHANGED <<keys, anchor, replies>>
    BY <1>1, <1>2, <1>3, StepTypes
  <2>13. CallOK(r, calls'[r], rows'[r], paid'[r], Faults')
    BY <2>8, <2>12
  <2>14. s \in {"accept", "keep_accept"} => Backed(t, calls[r].of)'
    BY <2>4, <2>6, <2>10
  <2>15. s = "record" /\ t # None => Backed(t, calls[r].of)'
    BY <2>10
  <2>16. \A d \in Deposits :
           deposits'[d].tx \in {None, deposits[d].tx} \/ Backed(deposits[d].tx, d)'
    BY <1>3
  <2>17. rows[r] = "submitted" => rows'[r] = "submitted"
    BY <2>12
  <2>18. \A u \in Calls \ {r} : rows'[u] = rows[u] /\ paid'[u] = paid[u]
    BY <2>12
  <2>. QED
    BY <1>3, <1>4, <2>4, <2>11, <2>12, <2>13, <2>14, <2>15, <2>16, <2>17, <2>18,
       StepKeeps
<1>. QED BY <1>5, <1>6

(* A call whose key no other row has may commit one. *)
LEMMA RowAppears ==
  ASSUME SubmissionInv, NEW r \in Running, NEW s \in Steps, NEW t \in Calls \cup {None},
         Carry(r, s, t),
         \A q \in Calls \ {r} : rows'[q] = rows[q],
         \A q \in Calls \ {r} : SameKey(q, r) => rows[q] = "none",
         Via(r, "route") => Holding(r),
         Via(r, "route") /\ s \in Sending => rows'[r] = "none"
  PROVE  RowBook'
<1>1. /\ r \in Calls /\ calls'[r].step = s /\ Identified /\ calls[r] # None
      /\ \A q \in Calls \ {r} : calls'[q] = calls[q]
      /\ \A q \in Calls : calls'[q] = None <=> calls[q] = None
  BY RunningCall, CarryFacts
<1>2. \A p, q \in Calls : calls[q] # None => (SameKey(p, q)' <=> SameKey(p, q))
  BY <1>1 DEF SameKey, Identified, Via
<1>3. \A q \in Calls : SameKey(r, q) /\ calls[q] # None => SameKey(q, r)
  BY <1>1 DEF SameKey, Via
<1>4. RowBook /\ HoldBook
  BY DEF SubmissionInv
<1>5. ASSUME NEW p \in Calls, NEW q \in Calls, p # q, calls'[q] # None, SameKey(p, q)'
      PROVE  "none" \in {rows'[p], rows'[q]}
  <2>1. calls[q] # None /\ SameKey(p, q)
    BY <1>1, <1>2, <1>5
  <2>2. CASE p = r
    BY <1>3, <1>5, <2>1, <2>2
  <2>3. CASE q = r
    BY <1>5, <2>1, <2>3
  <2>4. CASE p # r /\ q # r
    BY <1>4, <1>5, <2>1, <2>4 DEF RowBook
  <2>. QED BY <2>2, <2>3, <2>4
<1>6. ASSUME NEW p \in Calls, NEW q \in Calls,
             Holding(q)', calls'[q].step \in Sending, SameKey(p, q)'
      PROVE  rows'[p] = "none"
  <2>1. /\ q \in Calls /\ calls'[q] # None /\ calls'[q].via = "route"
        /\ calls'[q].step # "done" /\ calls'[q].step \notin {"claim", "look"}
    BY <1>6 DEF Holding, Running, Via
  <2>2. calls[q] # None /\ calls[q].via = "route" /\ SameKey(p, q)
    BY <1>1, <1>2, <1>6, <2>1 DEF Identified
  <2>3. CASE q = r
    <3>1. Via(r, "route") /\ s \in Sending
      BY <1>1, <1>6, <2>2, <2>3 DEF Via
    <3>. QED BY <2>2, <2>3, <3>1
  <2>4. CASE q # r
    <3>1. calls'[q] = calls[q]
      BY <1>1, <2>4
    <3>2. Holding(q) /\ calls[q].step \in Sending
      BY <1>6, <2>1, <2>2, <3>1 DEF Holding, Running, Via
    <3>3. CASE p = r
      <4>1. Via(r, "route") /\ calls[r].of = calls[q].of
        BY <2>2, <3>3 DEF SameKey, Via
      <4>. QED BY <1>1, <1>4, <2>4, <3>2, <4>1 DEF HoldBook
    <3>4. CASE p # r
      BY <1>4, <2>2, <3>2, <3>4 DEF RowBook
    <3>. QED BY <3>3, <3>4
  <2>. QED BY <2>3, <2>4
<1>. QED BY <1>5, <1>6 DEF RowBook

LEMMA InsertKeeps ==
  ASSUME SubmissionInv, NEW r \in Running, Insert(r)
  PROVE  SubmissionInv'
<1>1. /\ calls[r].step = "insert"
      /\ UNCHANGED <<keys, paid, anchor, replies, bounds>>
  BY DEF Insert, At
<1>2. /\ r \in Calls /\ calls[r] # None /\ calls[r].tx \in Calls \cup {None}
      /\ calls[r].via \in Vias
      /\ CallOK(r, calls[r], rows[r], paid[r], Faults)
  BY RunningCall
<1>3. /\ UNCHANGED <<crashes, expiries, failures>> /\ Faults' = Faults
      /\ failures' \in Nat /\ failures' >= failures
  BY <1>1, StepTypes DEF bounds, Faults
<1>4. CASE SeenBefore(r) = {}
  <2>1. /\ Goto(r, "submit") /\ Visible(r, "pending") /\ UNCHANGED <<events, deposits>>
    BY <1>4 DEF Insert
  <2>2. PICK t \in Calls \cup {None} : Carry(r, "submit", t)
    BY <1>2, <2>1 DEF Goto
  <2>3. "submit" \in Steps /\ "submit" \in Sending
    BY DEF Steps, Sending
  <2>4. /\ calls'[r] # None /\ calls'[r].step = "submit" /\ calls'[r].via = calls[r].via
        /\ calls'[r].of = calls[r].of /\ calls'[r].said = calls[r].said
        /\ calls'[r].asset = calls[r].asset
    BY <2>2, <2>3, CarryFacts
  <2>5. /\ rows' \in [Calls -> {"none", "pending", "submitted", "failed"}]
        /\ \A q \in Calls \ {r} : rows'[q] = rows[q]
        /\ rows'[r] = IF Via(r, "route") THEN rows[r] ELSE "pending"
    BY <1>2, <2>1, StepTypes DEF Visible
  <2>6. CallOK(r, calls'[r], rows'[r], paid'[r], Faults')
    BY <1>1, <1>2, <1>3, <2>4, <2>5 DEF CallOK, Via, Early, Sending, Keeping
  <2>7. rows[r] = "none"
    BY <1>1, <1>2 DEF CallOK, Early
  <2>8. Via(r, "route") => Holding(r) /\ calls[r].step \notin Keeping
    BY <1>1 DEF Holding, Keeping
  <2>9. RowBook'
    <3>1. \A q \in Calls \ {r} : SameKey(q, r) => rows[q] = "none"
      BY <1>4 DEF SeenBefore
    <3>2. Via(r, "route") => rows'[r] = "none"
      BY <2>5, <2>7
    <3>. QED BY <2>2, <2>3, <2>5, <2>8, <3>1, <3>2, RowAppears
  <2>10. /\ events' \subseteq Deposits /\ deposits' \in DepositRows
         /\ paid' \in [Calls -> 0 .. 2] /\ paid' = paid /\ paid'[r] >= paid[r]
         /\ crashes' \in Nat /\ crashes' >= crashes /\ expiries' \in Nat
         /\ UNCHANGED <<keys, anchor, replies>> /\ deposits' = deposits
    BY <1>1, <1>2, <1>3, <2>1, StepTypes
  <2>11. /\ rows[r] = "submitted" => rows'[r] = "submitted"
         /\ \A q \in Calls \ {r} : rows'[q] = rows[q] /\ paid'[q] = paid[q]
    BY <2>5, <2>7, <2>10
  <2>. QED BY <1>3, <2>2, <2>3, <2>5, <2>6, <2>8, <2>9, <2>10, <2>11, StepKeeps
<1>5. CASE SeenBefore(r) # {}
  <2>1. Throw(r) /\ UNCHANGED rows
    BY <1>5 DEF Insert
  <2>. QED BY <1>1, <1>3, <2>1, StepTypes, ThrowKeeps
<1>. QED BY <1>4, <1>5

(* A submission: what was paid before stays paid, and a payment whose       *)
(* answer is lost was paid by a failure.                                    *)
LEMMA SubmissionKeeps ==
  ASSUME SubmissionInv, NEW r \in Running, NEW next \in {"mark", "again"},
         Submission(r, next),
         UNCHANGED <<keys, events, deposits, rows, anchor, replies>>,
         \/ calls[r].step = "submit" /\ next = "mark"
         \/ calls[r].step = "resubmit" /\ next = "again"
         \/ calls[r].step = "again" /\ next = "mark"
  PROVE  SubmissionInv'
<1>1. /\ r \in Calls /\ calls[r] # None /\ calls[r].tx \in Calls \cup {None}
      /\ calls[r].via \in Vias
      /\ CallOK(r, calls[r], rows[r], paid[r], Faults)
  BY RunningCall
<1>2. /\ paid \in [Calls -> 0 .. 2]
      /\ paid[r] = IF calls[r].step = "again" THEN 1 ELSE 0
  BY <1>1, StepTypes DEF CallOK
<1>3. PICK s \in {"mark", "again", "undo"}, t \in Calls \cup {None} :
        /\ Carry(r, s, t)
        /\ \/ s = next /\ t = r /\ paid' = [paid EXCEPT ![r] = @ + 1] /\ UNCHANGED bounds
           \/ s = "undo" /\ paid' = [paid EXCEPT ![r] = @ + 1] /\ Fails
           \/ s = "undo" /\ UNCHANGED <<paid, bounds>>
  BY <1>1 DEF Submission, Goto
<1>4. /\ UNCHANGED <<crashes, expiries>> /\ failures' \in Nat /\ failures' >= failures
      /\ Faults' \in Nat /\ (Faults' = 0 => Faults = 0) /\ (Fails => Faults' > 0)
  BY <1>3, FailsCounts
<1>5. s \in Steps /\ s \in Sending /\ s \notin {"accept", "keep_accept", "record"}
  BY <1>3 DEF Steps, Sending
<1>6. /\ calls'[r] # None /\ calls'[r].step = s /\ calls'[r].via = calls[r].via
      /\ calls'[r].of = calls[r].of /\ calls'[r].said = calls[r].said
      /\ calls'[r].asset = calls[r].asset /\ calls'[r].tx = t
  BY <1>3, <1>5, CarryFacts
<1>7. /\ paid' \in [Calls -> 0 .. 2] /\ paid'[r] >= paid[r] /\ paid'[r] \in Nat
      /\ \A q \in Calls \ {r} : paid'[q] = paid[q]
      /\ \/ s = next /\ t = r /\ paid'[r] = paid[r] + 1
         \/ s = "undo" /\ paid'[r] = paid[r] + 1 /\ Fails
         \/ s = "undo" /\ paid'[r] = paid[r]
  BY <1>1, <1>2, <1>3
<1>8. CallOK(r, calls'[r], rows'[r], paid'[r], Faults')
  <2> DEFINE n == paid'[r]
             row == rows'[r]
  <2>1. row = rows[r] /\ calls[r].step \in Sending
    BY DEF Sending
  <2>2. /\ row = IF calls[r].via = "route" THEN "none" ELSE "pending"
        /\ calls[r].step # "submit" => calls[r].asset = "cross"
        /\ calls[r].via = "route" => calls[r].of \in Keys
        /\ calls[r].via # "route" => calls[r].of \in Deposits /\ calls[r].said \in Statuses
    BY <1>1, <2>1 DEF CallOK
  <2>3. /\ s = "again" => n = 1
        /\ s = "mark" => n > 0 /\ t = r
        /\ s = "again" => calls[r].asset = "cross"
        /\ calls[r].asset = "same" /\ Faults' = 0 /\ n > 0 => s = "mark"
    BY <1>2, <1>3, <1>4, <1>7, <2>2
  <2> HIDE DEF n, row
  <2>4. CallOK(r, calls'[r], row, n, Faults')
    BY <1>3, <1>6, <2>2, <2>3 DEF CallOK, Early, Sending, Keeping
  <2>. QED BY <2>4 DEF n, row
<1>9. Via(r, "route") => Holding(r) /\ calls[r].step \notin Keeping
  BY DEF Holding, Keeping
<1>10. RowBook'
  <2>1. calls[r].step \in Sending /\ \A q \in Calls : rows'[q] = "none" <=> rows[q] = "none"
    BY DEF Sending
  <2>. QED BY <1>3, <1>5, <2>1, RowMove
<1>11. /\ events' \subseteq Deposits /\ deposits' \in DepositRows /\ deposits' = deposits
       /\ rows' \in [Calls -> {"none", "pending", "submitted", "failed"}]
       /\ crashes' \in Nat /\ crashes' >= crashes /\ expiries' \in Nat
  BY <1>4, StepTypes
<1>12. /\ rows[r] = "submitted" => rows'[r] = "submitted"
       /\ \A q \in Calls \ {r} : rows'[q] = rows[q] /\ paid'[q] = paid[q]
  BY <1>7
<1>. QED BY <1>3, <1>4, <1>5, <1>7, <1>8, <1>9, <1>10, <1>11, <1>12, StepKeeps

LEMMA SubmitKeeps ==
  ASSUME SubmissionInv, NEW r \in Running, Submit(r) \/ Resubmit(r)
  PROVE  SubmissionInv'
<1>1. UNCHANGED <<keys, events, deposits, rows, anchor, replies>>
  BY DEF Submit, Resubmit
<1>2. \/ calls[r].step = "submit" /\ Submission(r, "mark")
      \/ calls[r].step = "resubmit" /\ Submission(r, "again")
      \/ calls[r].step = "again" /\ Submission(r, "mark")
      \/ /\ calls[r].step = "submit" /\ calls[r].asset = "cross"
         /\ Goto(r, "resubmit") /\ UNCHANGED <<paid, bounds>>
  BY DEF Submit, Resubmit, At
<1>3. CASE /\ calls[r].step = "submit" /\ calls[r].asset = "cross"
           /\ Goto(r, "resubmit") /\ UNCHANGED <<paid, bounds>>
  <2>1. /\ r \in Calls /\ calls[r] # None /\ calls[r].tx \in Calls \cup {None}
        /\ CallOK(r, calls[r], rows[r], paid[r], Faults)
    BY RunningCall
  <2>2. PICK t \in Calls \cup {None} : Carry(r, "resubmit", t)
    BY <1>3, <2>1 DEF Goto
  <2>3. /\ "resubmit" \in Steps /\ "resubmit" \in Sending
        /\ "resubmit" \notin {"accept", "keep_accept", "record"}
    BY DEF Steps, Sending
  <2>4. /\ calls'[r] # None /\ calls'[r].step = "resubmit"
        /\ calls'[r].via = calls[r].via
        /\ calls'[r].of = calls[r].of /\ calls'[r].said = calls[r].said
        /\ calls'[r].asset = calls[r].asset
    BY <2>2, <2>3, CarryFacts
  <2>5. /\ UNCHANGED <<crashes, expiries, failures>> /\ Faults' = Faults
        /\ failures' \in Nat /\ failures' >= failures
        /\ events' \subseteq Deposits /\ deposits' \in DepositRows
        /\ \A d \in Deposits : deposits'[d].tx = deposits[d].tx
    BY <1>1, <1>3, StepTypes DEF bounds, Faults
  <2>6. CallOK(r, calls'[r], rows[r], paid[r], Faults')
    BY <1>3, <2>1, <2>4, <2>5 DEF CallOK, Early, Sending, Keeping
  <2>7. /\ Via(r, "route") => Holding(r) /\ calls[r].step \notin Keeping
        /\ calls[r].step \in Sending
    BY <1>3 DEF Holding, Keeping, Sending
  <2>. QED BY <1>1, <1>3, <2>2, <2>3, <2>5, <2>6, <2>7, QuietKeeps
<1>. QED BY <1>1, <1>2, <1>3, SubmissionKeeps

LEMMA MarkKeeps ==
  ASSUME SubmissionInv, NEW r \in Running, Mark(r)
  PROVE  SubmissionInv'
<1>1. /\ calls[r].step = "mark" /\ rows' = [rows EXCEPT ![r] = "submitted"]
      /\ Goto(r, After(r))
      /\ UNCHANGED <<keys, events, deposits, paid, anchor, replies, bounds>>
  BY DEF Mark, At
<1>2. /\ r \in Calls /\ calls[r] # None /\ calls[r].tx = r
      /\ calls[r].via \in Vias /\ paid[r] > 0
      /\ CallOK(r, calls[r], rows[r], paid[r], Faults)
  BY <1>1, RunningCall DEF CallOK
<1>3. PICK s \in Steps :
        /\ Carry(r, s, r)
        /\ \/ s = "accept" /\ Via(r, "route")
           \/ s = "record" /\ ~Via(r, "route")
  BY <1>1, <1>2 DEF Steps, After, Goto
<1>4. /\ calls'[r] # None /\ calls'[r].step = s /\ calls'[r].via = calls[r].via
      /\ calls'[r].of = calls[r].of /\ calls'[r].said = calls[r].said
      /\ calls'[r].asset = calls[r].asset
  BY <1>2, <1>3, CarryFacts
<1>5. /\ UNCHANGED <<crashes, expiries, failures>> /\ Faults' = Faults
      /\ failures' \in Nat /\ failures' >= failures
      /\ crashes' \in Nat /\ crashes' >= crashes /\ expiries' \in Nat
      /\ events' \subseteq Deposits /\ deposits' \in DepositRows /\ deposits' = deposits
      /\ paid' \in [Calls -> 0 .. 2] /\ paid' = paid /\ paid'[r] >= paid[r]
  BY <1>1, <1>2, StepTypes DEF bounds, Faults
<1>6. /\ rows' \in [Calls -> {"none", "pending", "submitted", "failed"}]
      /\ \A q \in Calls \ {r} : rows'[q] = rows[q] /\ paid'[q] = paid[q]
      /\ rows'[r] = "submitted"
  BY <1>1, <1>2, StepTypes
<1>7. CallOK(r, calls'[r], rows'[r], paid'[r], Faults')
  BY <1>1, <1>2, <1>3, <1>4, <1>5, <1>6 DEF CallOK, Via, Early, Sending, Keeping
<1>8. Via(r, "route") => Holding(r) /\ calls[r].step \notin Keeping
  BY <1>1 DEF Holding, Keeping
<1>9. RowBook'
  <2>1. s \notin Sending
    BY <1>3 DEF Sending
  <2>2. ASSUME NEW q \in Calls \ {r}, SameKey(q, r)
        PROVE  rows[q] = "none"
    <3>1. RowBook
      BY DEF SubmissionInv
    <3>2. CASE Via(r, "route")
      BY <1>1, <1>2, <1>8, <2>2, <3>1, <3>2 DEF RowBook, Sending
    <3>3. CASE ~Via(r, "route")
      <4>1. rows[r] = "pending"
        BY <1>1, <1>2, <3>3 DEF CallOK, Via, Sending
      <4>2. "none" \in {rows[q], rows[r]}
        BY <1>2, <2>2, <3>1 DEF RowBook
      <4>. QED BY <4>1, <4>2
    <3>. QED BY <3>2, <3>3
  <2>. QED BY <1>2, <1>3, <1>6, <1>8, <2>1, <2>2, RowAppears
<1>10. Backed(r, calls[r].of)'
  BY <1>2, <1>4, <1>5, <1>6 DEF Backed, Paying
<1>. QED BY <1>1, <1>2, <1>3, <1>5, <1>6, <1>7, <1>8, <1>9, <1>10, StepKeeps

(* The deposit's row names the payment of the call, or none.               *)
LEMMA StoreTransactionKeeps ==
  ASSUME SubmissionInv, NEW r \in Running, StoreTransaction(r)
  PROVE  SubmissionInv'
<1>1. /\ calls[r].step = "record"
      /\ deposits' = [deposits EXCEPT
           ![calls[r].of].status = "contribution_submitted",
           ![calls[r].of].tx = calls[r].tx]
      /\ Carry(r, "done", None)
      /\ UNCHANGED <<keys, events, rows, paid, anchor, replies, bounds>>
  BY DEF StoreTransaction, At, Goto
<1>2. /\ r \in Calls /\ calls[r] # None /\ calls[r].tx \in Calls \cup {None}
      /\ CallOK(r, calls[r], rows[r], paid[r], Faults)
  BY RunningCall
<1>3. ~Via(r, "route") /\ calls[r].of \in Deposits
  BY <1>1, <1>2 DEF CallOK, Via
<1>4. "done" \in Steps /\ "done" \notin {"accept", "keep_accept", "record"} \cup Sending
  BY DEF Steps, Sending
<1>5. /\ calls'[r] # None /\ calls'[r].step = "done" /\ calls'[r].via = calls[r].via
      /\ calls'[r].of = calls[r].of /\ calls'[r].said = calls[r].said /\ Identified
  BY <1>1, <1>4, CarryFacts
<1>6. /\ UNCHANGED <<crashes, expiries, failures>> /\ Faults' = Faults
      /\ failures' \in Nat /\ failures' >= failures
      /\ crashes' \in Nat /\ crashes' >= crashes /\ expiries' \in Nat
      /\ events' \subseteq Deposits /\ rows' = rows
      /\ rows' \in [Calls -> {"none", "pending", "submitted", "failed"}]
      /\ paid' \in [Calls -> 0 .. 2] /\ paid' = paid /\ paid'[r] >= paid[r]
  BY <1>1, <1>2, StepTypes DEF bounds, Faults
<1>7. CallOK(r, calls'[r], rows'[r], paid'[r], Faults')
  BY <1>1, <1>2, <1>3, <1>5, <1>6 DEF CallOK, Via, Early, Sending, Keeping
<1>8. /\ deposits' \in DepositRows
      /\ \A d \in Deposits : deposits'[d].tx = IF d = calls[r].of THEN calls[r].tx
                                                                  ELSE deposits[d].tx
  BY <1>1, <1>2, <1>3, StepTypes DEF DepositRows
<1>9. \A d \in Deposits :
        deposits'[d].tx \in {None, deposits[d].tx} \/ Backed(deposits[d].tx, d)'
  <2> SUFFICES ASSUME NEW d \in Deposits, d = calls[r].of, calls[r].tx # None
               PROVE  Backed(deposits[d].tx, d)'
    BY <1>8
  <2>1. PICK u : u = calls[r].tx
    OBVIOUS
  <2>2. Backed(u, d)
    BY <1>1, <2>1 DEF SubmissionInv, TruthBook
  <2>3. \A q \in Calls : /\ paid'[q] \in Nat /\ paid'[q] >= paid[q]
                         /\ rows[q] = "submitted" => rows'[q] = "submitted"
    BY <1>6
  <2>4. Backed(u, d)'
    BY <1>5, <2>2, <2>3, BackedStays
  <2>5. deposits'[d].tx = u
    BY <1>8, <2>1
  <2>. QED BY <2>4, <2>5
<1>10. RowBook'
  <2>1. \A q \in Calls : rows'[q] = "none" <=> rows[q] = "none"
    BY <1>6
  <2>. QED BY <1>1, <1>4, <2>1, RowMove
<1>11. /\ rows[r] = "submitted" => rows'[r] = "submitted"
       /\ \A q \in Calls \ {r} : rows'[q] = rows[q] /\ paid'[q] = paid[q]
  BY <1>6
<1>. QED BY <1>1, <1>3, <1>4, <1>6, <1>7, <1>8, <1>9, <1>10, <1>11, StepKeeps

---------------------------------------------------------------------------
(* The steps of a route around its key. *)
LEMMA BackedKept ==
  ASSUME SubmissionInv, Identified, UNCHANGED <<rows, paid>>
  PROVE  \A t, of : Backed(t, of) => Backed(t, of)'
<1>1. \A q \in Calls : /\ paid'[q] \in Nat /\ paid'[q] >= paid[q]
                       /\ rows[q] = "submitted" => rows'[q] = "submitted"
  BY StepTypes
<1>. QED BY <1>1, BackedStays

(* A call that ends without a word. *)
LEMMA EndKeeps ==
  ASSUME SubmissionInv, NEW r \in Running, Carry(r, "done", None),
         calls[r].step # "mark",
         UNCHANGED <<keys, events, deposits, rows, paid, anchor, replies>>,
         Fails \/ UNCHANGED bounds
  PROVE  SubmissionInv'
<1>1. /\ r \in Calls /\ calls[r] # None
      /\ CallOK(r, calls[r], rows[r], paid[r], Faults)
  BY RunningCall
<1>2. "done" \in Steps /\ "done" \notin {"accept", "keep_accept", "record"} \cup Sending
  BY DEF Steps, Sending
<1>3. /\ calls'[r] # None /\ calls'[r].step = "done" /\ calls'[r].via = calls[r].via
      /\ calls'[r].of = calls[r].of /\ calls'[r].said = calls[r].said
      /\ calls'[r].asset = calls[r].asset
  BY <1>2, CarryFacts
<1>4. /\ UNCHANGED <<crashes, expiries>> /\ failures' \in Nat /\ failures' >= failures
      /\ (Faults' = 0 => Faults = 0)
  BY FailsCounts
<1>5. CallOK(r, calls'[r], rows[r], paid[r], Faults')
  BY <1>1, <1>3, <1>4 DEF CallOK, Early, Sending, Keeping
<1>6. /\ events' \subseteq Deposits /\ deposits' \in DepositRows
      /\ \A d \in Deposits : deposits'[d].tx = deposits[d].tx
  BY StepTypes
<1>. QED BY <1>2, <1>4, <1>5, <1>6, QuietKeeps

LEMMA PersistFailsKeeps ==
  ASSUME SubmissionInv, NEW r \in Running, PersistFails(r)
  PROVE  SubmissionInv'
BY EndKeeps DEF PersistFails, At, Goto

(* What the step of a route shares, whatever becomes of its key. *)
LEMMA RouteMove ==
  ASSUME SubmissionInv, NEW r \in Running, NEW s \in Steps, NEW t \in Calls \cup {None},
         Carry(r, s, t), Via(r, "route"),
         UNCHANGED <<events, deposits, rows, paid, anchor, bounds>>,
         s \in {"look", "select", "done", "refuse"} \cup Keeping,
         s \in {"look", "select"} => calls[r].step = "claim",
         calls[r].step # "mark"
  PROVE  CallBook' /\ RowBook'
<1>1. /\ r \in Calls /\ calls[r] # None
      /\ CallOK(r, calls[r], rows[r], paid[r], Faults)
  BY RunningCall
<1>2. s \notin Sending
  BY DEF Sending, Keeping
<1>3. /\ calls'[r] # None /\ calls'[r].step = s /\ calls'[r].via = calls[r].via
      /\ calls'[r].of = calls[r].of /\ calls'[r].said = calls[r].said
      /\ calls'[r].asset = calls[r].asset
  BY CarryFacts
<1>4. /\ UNCHANGED <<crashes, failures>> /\ Faults' = Faults
      /\ failures' \in Nat /\ failures' >= failures
      /\ crashes' \in Nat /\ crashes' >= crashes
  BY StepTypes DEF bounds, Faults
<1>5. CallOK(r, calls'[r], rows'[r], paid'[r], Faults')
  BY <1>1, <1>3, <1>4 DEF CallOK, Via, Early, Sending, Keeping
<1>6. CallBook'
  BY <1>4, <1>5, CallMove
<1>7. \A q \in Calls : rows'[q] = "none" <=> rows[q] = "none"
  OBVIOUS
<1>. QED BY <1>2, <1>6, <1>7, RowMove

(* Those whose time it is, and who it leaves alone. *)
LEMMA OthersHold ==
  ASSUME SubmissionInv, NEW r \in Running, NEW s \in Steps, NEW t \in Calls \cup {None},
         Carry(r, s, t), NEW q \in Calls, q # r, Holding(q)'
  PROVE  Holding(q) /\ calls'[q] = calls[q]
<1>1. calls'[q] = calls[q]
  BY CarryFacts
<1>. QED BY <1>1 DEF Holding, Running, Via

LEMMA RouteTruth ==
  ASSUME SubmissionInv, NEW r \in Running, NEW s \in Steps, NEW t \in Calls \cup {None},
         Carry(r, s, t), UNCHANGED <<deposits, rows, paid>>, s # "record",
         s \in {"accept", "keep_accept"} => Backed(t, calls[r].of),
         \A k \in Keys : \A a \in replies'[k] :
           a.answer.accepted => Backed(a.answer.tx, k),
         \A k \in Keys :
           \/ keys'[k].status # "finished" \/ ~keys'[k].answer.accepted
           \/ \E u : u = keys'[k].answer.tx /\ Backed(u, k)
  PROVE  TruthBook'
<1>1. /\ r \in Calls /\ calls'[r].step = s /\ calls'[r].tx = t
      /\ calls'[r].of = calls[r].of /\ Identified
      /\ \A q \in Calls \ {r} : calls'[q] = calls[q]
  BY RunningCall, CarryFacts
<1>2. \A u, of : Backed(u, of) => Backed(u, of)'
  BY <1>1, BackedKept
<1>3. TruthBook
  BY DEF SubmissionInv
<1>4. ASSUME NEW k \in Keys, NEW a \in replies'[k], a.answer.accepted
      PROVE  Backed(a.answer.tx, k)'
  BY <1>2, <1>4
<1>5. ASSUME NEW k \in Keys, keys'[k].status = "finished", keys'[k].answer.accepted
      PROVE  Backed(keys[k].answer.tx, k)'
  <2>1. PICK u : u = keys'[k].answer.tx /\ Backed(u, k)
    BY <1>5
  <2>2. Backed(u, k)'
    BY <1>2, <2>1
  <2>. QED BY <2>1, <2>2 DEF Backed, Paying
<1>6. ASSUME NEW q \in Running'
      PROVE  /\ calls'[q].step \in {"accept", "keep_accept"}
                  => Backed(calls[q].tx, calls[q].of)'
             /\ calls'[q].step = "record" /\ calls'[q].tx # None
                  => Backed(calls[q].tx, calls[q].of)'
  <2>1. PICK u, of : u = calls'[q].tx /\ of = calls'[q].of
    OBVIOUS
  <2>2. CASE q = r
    <3>1. s \in {"accept", "keep_accept"} => Backed(u, of)
      BY <1>1, <2>1, <2>2
    <3>2. s \in {"accept", "keep_accept"} => Backed(u, of)'
      BY <1>2, <3>1
    <3>. QED BY <1>1, <2>1, <2>2, <3>2 DEF Backed, Paying
  <2>3. CASE q # r
    <3>1. q \in Running /\ calls'[q] = calls[q]
      BY <1>1, <2>3 DEF Running
    <3>2. /\ calls[q].step \in {"accept", "keep_accept"} => Backed(u, of)
          /\ calls[q].step = "record" /\ calls[q].tx # None => Backed(u, of)
      BY <1>3, <2>1, <3>1 DEF TruthBook
    <3>3. /\ calls[q].step \in {"accept", "keep_accept"} => Backed(u, of)'
          /\ calls[q].step = "record" /\ calls[q].tx # None => Backed(u, of)'
      BY <1>2, <3>2
    <3>. QED BY <2>1, <3>1, <3>3 DEF Backed, Paying
  <2>. QED BY <2>2, <2>3
<1>7. ASSUME NEW d \in Deposits, deposits'[d].tx # None
      PROVE  Backed(deposits[d].tx, d)'
  <2>1. PICK u : u = deposits[d].tx
    OBVIOUS
  <2>2. Backed(u, d)
    BY <1>3, <1>7, <2>1 DEF TruthBook
  <2>3. Backed(u, d)'
    BY <1>2, <2>2
  <2>. QED BY <2>1, <2>3 DEF Backed, Paying
<1>. QED BY <1>4, <1>5, <1>6, <1>7 DEF TruthBook

LEMMA LookKeeps ==
  ASSUME SubmissionInv, NEW r \in Running, Look(r)
  PROVE  SubmissionInv'
<1> DEFINE k == calls[r].of
<1>1. /\ calls[r].step = "look" /\ Carry(r, "done", None)
      /\ UNCHANGED <<keys, events, deposits, rows, paid, anchor, bounds>>
      /\ replies' = IF Replayed(r)
                    THEN [replies EXCEPT ![k] = @ \cup
                           {[asset |-> calls[r].asset, answer |-> keys[k].answer]}]
                    ELSE replies
  BY DEF Look, At, Goto
<1>2. /\ r \in Calls /\ calls[r] # None /\ calls[r].asset \in Assets
      /\ CallOK(r, calls[r], rows[r], paid[r], Faults)
  BY RunningCall
<1>3. Via(r, "route") /\ k \in Keys
  BY <1>1, <1>2 DEF CallOK, Via
<1>4. CASE ~Replayed(r)
  BY <1>1, <1>4, EndKeeps
<1>5. CASE Replayed(r)
  <2>1. keys[k].status = "finished" /\ keys[k].asset = calls[r].asset
    BY <1>5 DEF Replayed
  <2>2. keys[k].answer \in Answers
    BY <1>3, <2>1, StepTypes, NamesAssumption DEF SubmissionInv, SubmissionTypeOK
  <2> DEFINE new == [asset |-> calls[r].asset, answer |-> keys[k].answer]
  <2>3. /\ new.asset = keys[k].asset /\ new.answer = keys[k].answer
        /\ new \in [asset : Assets, answer : Answers]
    BY <1>2, <2>1, <2>2
  <2>4. replies' = [replies EXCEPT ![k] = replies[k] \cup {new}]
    BY <1>1, <1>5
  <2> HIDE DEF new
  <2>5. /\ replies' \in [Keys -> SUBSET [asset : Assets, answer : Answers]]
        /\ replies'[k] = replies[k] \cup {new}
        /\ \A j \in Keys \ {k} : replies'[j] = replies[j]
    BY <1>3, <2>3, <2>4, StepTypes
  <2>6. "done" \in Steps /\ "done" \in {"look", "select", "done", "refuse"} \cup Keeping
        /\ None \in Calls \cup {None}
    BY DEF Steps
  <2>7. CallBook' /\ RowBook'
    BY <1>1, <1>3, <2>6, RouteMove
  <2>8. HoldBook /\ ReplyBook /\ TruthBook /\ SubmissionTypeOK
    BY DEF SubmissionInv
  <2>9. \A q \in Calls : Holding(q)' => Holding(q) /\ calls'[q] = calls[q]
    <3>1. ~Holding(r)'
      BY <1>1, <1>2, <2>6, CarryFacts DEF Holding, Running
    <3>. QED BY <1>1, <2>6, <3>1, OthersHold
  <2>10. HoldBook'
    BY <1>1, <2>8, <2>9 DEF HoldBook, HeldBy
  <2>11. ReplyBook'
    <3>1. \A a \in replies'[k] : a.asset = keys[k].asset /\ a.answer = keys[k].answer
      BY <1>3, <2>1, <2>3, <2>5, <2>8 DEF ReplyBook
    <3>2. \A a, b \in replies'[k] : a = b
      BY <1>3, <3>1, <2>5
    <3>3. \A q \in Calls : Holding(q)' => calls'[q].of # k
      BY <2>1, <2>8, <2>9 DEF HoldBook, HeldBy
    <3>4. \A q \in Calls : Holding(q)' => calls'[q].of \in Keys
      <4> SUFFICES ASSUME NEW q \in Calls, Holding(q)'
                   PROVE  calls'[q].of \in Keys
        OBVIOUS
      <4>1. q \in Running /\ Via(q, "route") /\ calls'[q] = calls[q]
        BY <2>9 DEF Holding
      <4>. QED BY <4>1, RunningCall DEF CallOK, Via
    <3>5. ASSUME NEW j \in Keys
          PROVE  /\ \A a, b \in replies'[j] : a = b
                 /\ \A a \in replies'[j] :
                      /\ a.asset = keys'[j].asset /\ keys'[j].status # "free"
                      /\ keys'[j].status = "finished" => a.answer = keys'[j].answer
      <4>1. CASE j = k
        BY <1>1, <2>1, <3>1, <3>2, <4>1
      <4>2. CASE j # k
        BY <1>1, <2>5, <2>8, <4>2 DEF ReplyBook
      <4>. QED BY <4>1, <4>2
    <3>6. ASSUME NEW q \in Calls, Holding(q)', NEW a \in replies'[calls'[q].of]
          PROVE  /\ calls'[q].step \in Keeping
                 /\ a.answer = [accepted |-> calls'[q].step = "keep_accept",
                                tx |-> calls'[q].tx]
      BY <2>5, <2>8, <2>9, <3>3, <3>4, <3>6 DEF ReplyBook
    <3>. QED BY <3>5, <3>6 DEF ReplyBook
  <2>12. TruthBook'
    <3>1. ASSUME NEW j \in Keys, NEW a \in replies'[j], a.answer.accepted
          PROVE  Backed(a.answer.tx, j)
      <4>1. CASE a \in replies[j]
        BY <2>8, <3>1, <4>1 DEF TruthBook
      <4>2. CASE j = k /\ a = new
        BY <1>3, <2>1, <2>3, <2>8, <3>1, <4>2 DEF TruthBook
      <4>. QED BY <2>5, <3>1, <4>1, <4>2
    <3>2. \A j \in Keys :
            \/ keys'[j].status # "finished" \/ ~keys'[j].answer.accepted
            \/ \E u : u = keys'[j].answer.tx /\ Backed(u, j)
      BY <1>1, <2>8 DEF TruthBook
    <3>3. UNCHANGED <<deposits, rows, paid>>
      BY <1>1
    <3>4. \A j \in Keys : \A a \in replies'[j] :
            a.answer.accepted => Backed(a.answer.tx, j)
      BY <3>1
    <3>. QED BY <1>1, <2>6, <3>2, <3>3, <3>4, RouteTruth
  <2>13. SubmissionTypeOK'
    <3>1. calls' \in [Calls -> CallRecords \cup {None}]
      BY <1>1, <2>6, CarryFacts
    <3>. QED BY <1>1, <2>5, <2>8, <3>1 DEF SubmissionTypeOK, bounds
  <2>. QED BY <2>7, <2>10, <2>11, <2>12, <2>13 DEF SubmissionInv
<1>. QED BY <1>4, <1>5

LEMMA ReplyKeeps ==
  ASSUME SubmissionInv, NEW r \in Running, Reply(r)
  PROVE  SubmissionInv'
<1>1. PICK k, t : k = calls[r].of /\ t = calls[r].tx
  OBVIOUS
<1>2. PICK ok \in BOOLEAN : ok <=> calls[r].step = "accept"
  OBVIOUS
<1>3. PICK s \in Keeping : /\ s = IF calls[r].step = "accept" THEN "keep_accept"
                                                             ELSE "keep_refuse"
                           /\ (s = "keep_accept") = ok
  BY <1>2 DEF Keeping
<1>4. /\ calls[r].step \in {"accept", "refuse"} /\ Carry(r, s, t)
      /\ UNCHANGED <<keys, events, deposits, rows, paid, anchor, bounds>>
      /\ replies' = [replies EXCEPT ![k] = @ \cup
           {[asset |-> calls[r].asset,
             answer |-> [accepted |-> calls[r].step = "accept", tx |-> calls[r].tx]]}]
  BY <1>1, <1>3 DEF Reply, At, Goto
<1>5. /\ r \in Calls /\ calls[r] # None /\ calls[r].asset \in Assets
      /\ t \in Calls \cup {None} /\ s \in Steps
      /\ CallOK(r, calls[r], rows[r], paid[r], Faults)
  BY <1>1, <1>3, RunningCall DEF Steps, Keeping
<1>6. Via(r, "route") /\ k \in Keys
  BY <1>1, <1>4, <1>5 DEF CallOK, Via
<1>7. Holding(r)
  BY <1>4, <1>6 DEF Holding
<1>8. HoldBook /\ ReplyBook /\ TruthBook /\ SubmissionTypeOK
  BY DEF SubmissionInv
<1>9. keys[k].status = "processing" /\ keys[k].asset = calls[r].asset
  BY <1>1, <1>5, <1>7, <1>8 DEF HoldBook, HeldBy
<1>10. replies[k] = {}
  <2>1. calls[r].step \notin Keeping
    BY <1>4 DEF Keeping
  <2>. QED BY <1>1, <1>5, <1>7, <1>8, <2>1 DEF ReplyBook
<1>11. PICK new :
         /\ new \in [asset : Assets, answer : Answers]
         /\ new = [asset |-> calls[r].asset,
                   answer |-> [accepted |-> calls[r].step = "accept", tx |-> calls[r].tx]]
         /\ new.asset = keys[k].asset
         /\ new.answer = [accepted |-> ok, tx |-> t]
         /\ new.answer.accepted = ok /\ new.answer.tx = t
  <2>1. (calls[r].step = "accept") = ok
    BY <1>2
  <2>2. PICK a : a = [accepted |-> ok, tx |-> t]
    OBVIOUS
  <2>3. a \in Answers /\ a.accepted = ok /\ a.tx = t
    BY <1>5, <2>2 DEF Answers
  <2>4. PICK n : n = [asset |-> calls[r].asset, answer |-> a]
    OBVIOUS
  <2>5. n \in [asset : Assets, answer : Answers] /\ n.asset = keys[k].asset /\ n.answer = a
    BY <1>5, <1>9, <2>3, <2>4
  <2>6. a = [accepted |-> calls[r].step = "accept", tx |-> calls[r].tx]
    BY <1>1, <2>1, <2>2
  <2>7. n = [asset |-> calls[r].asset,
             answer |-> [accepted |-> calls[r].step = "accept", tx |-> calls[r].tx]]
    BY <2>4, <2>6
  <2>8. n.answer.accepted = ok /\ n.answer.tx = t /\ n.answer = [accepted |-> ok, tx |-> t]
    BY <2>2, <2>3, <2>5
  <2>. QED BY <2>5, <2>7, <2>8
<1>12. /\ replies' \in [Keys -> SUBSET [asset : Assets, answer : Answers]]
       /\ replies'[k] = {new}
       /\ \A j \in Keys \ {k} : replies'[j] = replies[j]
  <2>1. replies' = [replies EXCEPT ![k] = replies[k] \cup {new}]
    BY <1>4, <1>11
  <2>2. replies' = [replies EXCEPT ![k] = {new}]
    BY <1>10, <2>1
  <2> DEFINE R == [asset : Assets, answer : Answers]
  <2>3. new \in R /\ replies \in [Keys -> SUBSET R]
    BY <1>11, StepTypes
  <2> HIDE DEF R
  <2>4. /\ replies' \in [Keys -> SUBSET R] /\ replies'[k] = {new}
        /\ \A j \in Keys \ {k} : replies'[j] = replies[j]
    BY <1>6, <2>2, <2>3
  <2>. QED BY <2>4 DEF R
<1>13. CallBook' /\ RowBook'
  <2>1. s \in {"look", "select", "done", "refuse"} \cup Keeping /\ s \notin {"look", "select"}
    BY <1>3 DEF Keeping
  <2>. QED BY <1>4, <1>5, <1>6, <2>1, RouteMove
<1>14. /\ calls'[r].step = s /\ calls'[r].tx = t /\ calls'[r].of = k
       /\ calls'[r].asset = calls[r].asset /\ calls' \in [Calls -> CallRecords \cup {None}]
  BY <1>1, <1>4, <1>5, CarryFacts
<1>15. \A q \in Calls : Holding(q)' => /\ Holding(q)
                                       /\ q # r => calls'[q] = calls[q]
                                       /\ calls'[q].of = calls[q].of
                                       /\ calls'[q].asset = calls[q].asset
  BY <1>1, <1>4, <1>5, <1>7, <1>14, OthersHold
<1>16. HoldBook'
  BY <1>4, <1>8, <1>15 DEF HoldBook, HeldBy
<1>17. ReplyBook'
  <2>1. ASSUME NEW j \in Keys
        PROVE  /\ \A a, b \in replies'[j] : a = b
               /\ \A a \in replies'[j] :
                    /\ a.asset = keys'[j].asset /\ keys'[j].status # "free"
                    /\ keys'[j].status = "finished" => a.answer = keys'[j].answer
    <3>1. CASE j = k
      BY <1>4, <1>9, <1>11, <1>12, <3>1
    <3>2. CASE j # k
      BY <1>4, <1>8, <1>12, <3>2 DEF ReplyBook
    <3>. QED BY <3>1, <3>2
  <2>2. ASSUME NEW q \in Calls, Holding(q)', NEW a \in replies'[calls'[q].of]
        PROVE  /\ calls'[q].step \in Keeping
               /\ a.answer = [accepted |-> calls'[q].step = "keep_accept",
                              tx |-> calls'[q].tx]
    <3>1. CASE q = r
      <4>1. a = new /\ calls'[q].step = s /\ calls'[q].tx = t
        BY <1>12, <1>14, <2>2, <3>1
      <4>2. (calls'[q].step = "keep_accept") = ok
        BY <1>3, <4>1
      <4>. QED BY <1>3, <1>11, <4>1, <4>2
    <3>2. CASE q # r
      <4>1. /\ Holding(q) /\ calls'[q] = calls[q] /\ calls[q].of # k
        BY <1>1, <1>5, <1>7, <1>8, <1>15, <2>2, <3>2 DEF HoldBook
      <4>2. calls[q].of \in Keys
        <5>1. q \in Running /\ Via(q, "route")
          BY <4>1 DEF Holding
        <5>. QED BY <5>1, RunningCall DEF CallOK, Via
      <4>. QED BY <1>8, <1>12, <2>2, <4>1, <4>2 DEF ReplyBook
    <3>. QED BY <3>1, <3>2
  <2>. QED BY <2>1, <2>2 DEF ReplyBook
<1>18. ok => Backed(t, k)
  BY <1>1, <1>2, <1>8 DEF TruthBook
<1>19. TruthBook'
  <2>1. ASSUME NEW j \in Keys, NEW a \in replies'[j], a.answer.accepted
        PROVE  Backed(a.answer.tx, j)
    <3>1. CASE j = k
      BY <1>11, <1>12, <1>18, <2>1, <3>1
    <3>2. CASE j # k
      BY <1>8, <1>12, <2>1, <3>2 DEF TruthBook
    <3>. QED BY <3>1, <3>2
  <2>2. \A j \in Keys :
          \/ keys'[j].status # "finished" \/ ~keys'[j].answer.accepted
          \/ \E u : u = keys'[j].answer.tx /\ Backed(u, j)
    BY <1>4, <1>8 DEF TruthBook
  <2>3. s \in {"accept", "keep_accept"} => Backed(t, calls[r].of)
    BY <1>1, <1>3, <1>18 DEF Keeping
  <2>4. UNCHANGED <<deposits, rows, paid>> /\ s # "record"
    BY <1>3, <1>4 DEF Keeping
  <2>5. \A j \in Keys : \A a \in replies'[j] :
          a.answer.accepted => Backed(a.answer.tx, j)
    BY <2>1
  <2>. QED BY <1>4, <1>5, <2>2, <2>3, <2>4, <2>5, RouteTruth
<1>20. SubmissionTypeOK'
  BY <1>4, <1>8, <1>12, <1>14 DEF SubmissionTypeOK, bounds
<1>. QED BY <1>13, <1>16, <1>17, <1>19, <1>20 DEF SubmissionInv

LEMMA PersistKeeps ==
  ASSUME SubmissionInv, NEW r \in Running, Persist(r)
  PROVE  SubmissionInv'
<1>1. PICK k, t : k = calls[r].of /\ t = calls[r].tx
  OBVIOUS
<1>2. PICK ok \in BOOLEAN : ok = (calls[r].step = "keep_accept")
  OBVIOUS
<1>3. PICK new : new = [accepted |-> ok, tx |-> t]
  OBVIOUS
<1>4. /\ calls[r].step \in Keeping /\ Carry(r, "done", None)
      /\ UNCHANGED <<events, deposits, rows, paid, anchor, replies, bounds>>
      /\ keys' = [keys EXCEPT ![k].status = "finished", ![k].answer = new]
  BY <1>1, <1>2, <1>3 DEF Persist, At, Goto, Keeping
<1>5. /\ r \in Calls /\ calls[r] # None
      /\ t \in Calls \cup {None}
      /\ "done" \in Steps /\ None \in Calls \cup {None}
      /\ CallOK(r, calls[r], rows[r], paid[r], Faults)
  BY <1>1, RunningCall DEF Steps
<1>6. Via(r, "route") /\ k \in Keys
  BY <1>1, <1>4, <1>5 DEF CallOK, Via
<1>7. new \in Answers /\ new # None /\ new.accepted = ok /\ new.tx = t
  BY <1>3, <1>5, NamesAssumption DEF Answers
<1>8. Holding(r)
  BY <1>4, <1>6 DEF Holding, Keeping
<1>9. HoldBook /\ ReplyBook /\ TruthBook /\ SubmissionTypeOK
  BY DEF SubmissionInv
<1>10. /\ keys'[k].status = "finished" /\ keys'[k].asset = keys[k].asset
       /\ keys'[k].answer = new
       /\ \A j \in Keys \ {k} : keys'[j] = keys[j]
       /\ keys' \in [Keys -> [status : {"free", "processing", "finished"},
                              asset : Assets \cup {None},
                              answer : Answers \cup {None}]]
  BY <1>4, <1>6, <1>7, StepTypes
<1>11. \A a \in replies[k] : a.answer = new
  BY <1>1, <1>2, <1>3, <1>5, <1>8, <1>9 DEF ReplyBook
<1>12. CallBook' /\ RowBook'
  BY <1>4, <1>5, <1>6, RouteMove DEF Keeping
<1>13. \A q \in Calls : Holding(q)' => /\ q # r /\ Holding(q) /\ calls'[q] = calls[q]
                                       /\ calls[q].of # k /\ calls[q].of \in Keys
  <2> SUFFICES ASSUME NEW q \in Calls, Holding(q)'
               PROVE  /\ q # r /\ Holding(q) /\ calls'[q] = calls[q]
                      /\ calls[q].of # k /\ calls[q].of \in Keys
    OBVIOUS
  <2>1. q # r
    BY <1>4, <1>5, CarryFacts DEF Holding, Running
  <2>2. Holding(q) /\ calls'[q] = calls[q]
    BY <1>4, <1>5, <2>1, OthersHold
  <2>3. calls[q].of # k
    BY <1>1, <1>5, <1>8, <1>9, <2>1, <2>2 DEF HoldBook
  <2>4. q \in Running /\ Via(q, "route")
    BY <2>2 DEF Holding
  <2>5. calls[q].of \in Keys
    BY <2>4, RunningCall DEF CallOK, Via
  <2>. QED BY <2>1, <2>2, <2>3, <2>5
<1>14. HoldBook'
  BY <1>9, <1>10, <1>13 DEF HoldBook, HeldBy
<1>15. ReplyBook'
  <2>1. ASSUME NEW j \in Keys
        PROVE  /\ \A a, b \in replies'[j] : a = b
               /\ \A a \in replies'[j] :
                    /\ a.asset = keys'[j].asset /\ keys'[j].status # "free"
                    /\ keys'[j].status = "finished" => a.answer = keys'[j].answer
    <3>1. CASE j = k
      BY <1>4, <1>9, <1>10, <1>11, <3>1 DEF ReplyBook
    <3>2. CASE j # k
      BY <1>4, <1>9, <1>10, <3>2 DEF ReplyBook
    <3>. QED BY <3>1, <3>2
  <2>2. ASSUME NEW q \in Calls, Holding(q)', NEW a \in replies'[calls'[q].of]
        PROVE  /\ calls'[q].step \in Keeping
               /\ a.answer = [accepted |-> calls'[q].step = "keep_accept",
                              tx |-> calls'[q].tx]
    <3>1. Holding(q) /\ calls'[q] = calls[q] /\ a \in replies[calls[q].of]
      BY <1>4, <1>13, <2>2
    <3>. QED BY <1>9, <3>1 DEF ReplyBook
  <2>. QED BY <2>1, <2>2 DEF ReplyBook
<1>16. TruthBook'
  <2>1. ok => Backed(t, k)
    BY <1>1, <1>2, <1>9 DEF TruthBook
  <2>2. \A j \in Keys :
          \/ keys'[j].status # "finished" \/ ~keys'[j].answer.accepted
          \/ \E u : u = keys'[j].answer.tx /\ Backed(u, j)
    <3> SUFFICES ASSUME NEW j \in Keys
                 PROVE  \/ keys'[j].status # "finished" \/ ~keys'[j].answer.accepted
                        \/ \E u : u = keys'[j].answer.tx /\ Backed(u, j)
      OBVIOUS
    <3>1. CASE j = k
      BY <1>7, <1>10, <2>1, <3>1
    <3>2. CASE j # k
      BY <1>9, <1>10, <3>2 DEF TruthBook
    <3>. QED BY <3>1, <3>2
  <2>3. \A j \in Keys : \A a \in replies'[j] :
          a.answer.accepted => Backed(a.answer.tx, j)
    BY <1>4, <1>9 DEF TruthBook
  <2>4. UNCHANGED <<deposits, rows, paid>>
    BY <1>4
  <2>. QED BY <1>4, <1>5, <2>2, <2>3, <2>4, RouteTruth
<1>17. SubmissionTypeOK'
  <2>1. calls' \in [Calls -> CallRecords \cup {None}]
    BY <1>4, <1>5, CarryFacts
  <2>2. \A j \in Keys : keys'[j].status = "finished" <=> keys'[j].answer # None
    BY <1>7, <1>9, <1>10 DEF SubmissionTypeOK
  <2>. QED BY <1>4, <1>9, <1>10, <2>1, <2>2 DEF SubmissionTypeOK, bounds
<1>. QED BY <1>12, <1>14, <1>15, <1>16, <1>17 DEF SubmissionInv

(* A free or expired key has no answer, and no call has it. *)
LEMMA ClaimKeeps ==
  ASSUME SubmissionInv, NEW r \in Running, Claim(r)
  PROVE  SubmissionInv'
<1>1. PICK k : k = calls[r].of
  OBVIOUS
<1>2. /\ calls[r].step = "claim" /\ Via(r, "route")
      /\ UNCHANGED <<events, deposits, rows, paid, anchor, replies, bounds>>
  BY DEF Claim, At
<1>3. /\ r \in Calls /\ calls[r] # None /\ calls[r].asset \in Assets
      /\ calls[r].tx \in Calls \cup {None}
      /\ CallOK(r, calls[r], rows[r], paid[r], Faults)
  BY RunningCall
<1>4. k \in Keys
  BY <1>1, <1>2, <1>3 DEF CallOK, Via
<1>5. CASE keys[k].status # "free"
  <2>1. PICK t \in Calls \cup {None} : Carry(r, "look", t)
    BY <1>1, <1>3, <1>5 DEF Claim, Goto
  <2>2. UNCHANGED keys
    BY <1>1, <1>5 DEF Claim
  <2>3. /\ "look" \in Steps
        /\ "look" \notin {"accept", "keep_accept", "record"} \cup Sending
    BY DEF Steps, Sending
  <2>4. /\ calls'[r] # None /\ calls'[r].step = "look" /\ calls'[r].via = calls[r].via
        /\ calls'[r].of = calls[r].of /\ calls'[r].said = calls[r].said
        /\ calls'[r].asset = calls[r].asset
    BY <2>1, <2>3, CarryFacts
  <2>5. /\ UNCHANGED <<crashes, expiries, failures>> /\ Faults' = Faults
        /\ failures' \in Nat /\ failures' >= failures
        /\ events' \subseteq Deposits /\ deposits' \in DepositRows
        /\ \A d \in Deposits : deposits'[d].tx = deposits[d].tx
    BY <1>2, StepTypes DEF bounds, Faults
  <2>6. CallOK(r, calls'[r], rows[r], paid[r], Faults')
    BY <1>2, <1>3, <2>4, <2>5 DEF CallOK, Via, Early, Sending, Keeping
  <2>. QED BY <1>2, <2>1, <2>2, <2>3, <2>5, <2>6, QuietKeeps
<1>6. CASE keys[k].status = "free"
  <2>1. PICK t \in Calls \cup {None} : Carry(r, "select", t)
    BY <1>1, <1>3, <1>6 DEF Claim, Goto
  <2>2. PICK new : new = [status |-> "processing", asset |-> calls[r].asset,
                          answer |-> None]
    OBVIOUS
  <2>3. keys' = [keys EXCEPT ![k] = new]
    BY <1>1, <1>6, <2>2 DEF Claim
  <2>4. /\ new.status = "processing" /\ new.asset = calls[r].asset /\ new.answer = None
        /\ new \in [status : {"free", "processing", "finished"},
                    asset : Assets \cup {None}, answer : Answers \cup {None}]
    BY <1>3, <2>2
  <2>5. /\ keys'[k] = new /\ \A j \in Keys \ {k} : keys'[j] = keys[j]
        /\ keys' \in [Keys -> [status : {"free", "processing", "finished"},
                               asset : Assets \cup {None},
                               answer : Answers \cup {None}]]
    BY <1>4, <2>3, <2>4, StepTypes
  <2>6. HoldBook /\ ReplyBook /\ TruthBook /\ SubmissionTypeOK
    BY DEF SubmissionInv
  <2>7. replies[k] = {}
    BY <1>4, <1>6, <2>6 DEF ReplyBook
  <2>8. "select" \in Steps
    BY DEF Steps
  <2>9. /\ calls'[r].step = "select" /\ calls'[r].of = k
        /\ calls'[r].asset = calls[r].asset
        /\ calls' \in [Calls -> CallRecords \cup {None}]
    BY <1>1, <2>1, <2>8, CarryFacts
  <2>10. CallBook' /\ RowBook'
    BY <1>2, <2>1, <2>8, RouteMove
  <2>11. \A q \in Calls : Holding(q)' /\ q # r =>
           /\ Holding(q) /\ calls'[q] = calls[q]
           /\ calls[q].of # k /\ calls[q].of \in Keys
    <3> SUFFICES ASSUME NEW q \in Calls, Holding(q)', q # r
                 PROVE  /\ Holding(q) /\ calls'[q] = calls[q]
                        /\ calls[q].of # k /\ calls[q].of \in Keys
      OBVIOUS
    <3>1. Holding(q) /\ calls'[q] = calls[q]
      BY <2>1, <2>8, OthersHold
    <3>2. calls[q].of # k
      BY <1>6, <2>6, <3>1 DEF HoldBook, HeldBy
    <3>3. q \in Running /\ Via(q, "route")
      BY <3>1 DEF Holding
    <3>4. calls[q].of \in Keys
      BY <3>3, RunningCall DEF CallOK, Via
    <3>. QED BY <3>1, <3>2, <3>4
  <2>12. HoldBook'
    <3>1. ASSUME NEW q \in Calls, Holding(q)'
          PROVE  /\ keys'[calls'[q].of].status = "processing"
                 /\ keys'[calls'[q].of].asset = calls'[q].asset
      <4>1. CASE q = r
        BY <2>4, <2>5, <2>9, <4>1
      <4>2. CASE q # r
        BY <2>5, <2>6, <2>11, <3>1, <4>2 DEF HoldBook, HeldBy
      <4>. QED BY <4>1, <4>2
    <3>2. ASSUME NEW p \in Calls, NEW q \in Calls, Holding(p)', Holding(q)',
                 calls'[p].of = calls'[q].of
          PROVE  p = q
      <4>1. CASE p = r \/ q = r
        BY <2>9, <2>11, <3>2, <4>1
      <4>2. CASE p # r /\ q # r
        BY <2>6, <2>11, <3>2, <4>2 DEF HoldBook
      <4>. QED BY <4>1, <4>2
    <3>. QED BY <3>1, <3>2 DEF HoldBook, HeldBy
  <2>13. ReplyBook'
    <3>1. ASSUME NEW j \in Keys
          PROVE  /\ \A a, b \in replies'[j] : a = b
                 /\ \A a \in replies'[j] :
                      /\ a.asset = keys'[j].asset /\ keys'[j].status # "free"
                      /\ keys'[j].status = "finished" => a.answer = keys'[j].answer
      <4>1. CASE j = k
        BY <1>2, <2>7, <4>1
      <4>2. CASE j # k
        BY <1>2, <2>5, <2>6, <4>2 DEF ReplyBook
      <4>. QED BY <4>1, <4>2
    <3>2. ASSUME NEW q \in Calls, Holding(q)', NEW a \in replies'[calls'[q].of]
          PROVE  /\ calls'[q].step \in Keeping
                 /\ a.answer = [accepted |-> calls'[q].step = "keep_accept",
                                tx |-> calls'[q].tx]
      <4>1. CASE q = r
        BY <1>2, <2>7, <2>9, <3>2, <4>1
      <4>2. CASE q # r
        <5>1. Holding(q) /\ calls'[q] = calls[q] /\ a \in replies[calls[q].of]
          BY <1>2, <2>11, <3>2, <4>2
        <5>. QED BY <2>6, <5>1 DEF ReplyBook
      <4>. QED BY <4>1, <4>2
    <3>. QED BY <3>1, <3>2 DEF ReplyBook
  <2>14. TruthBook'
    <3>1. \A j \in Keys :
            \/ keys'[j].status # "finished" \/ ~keys'[j].answer.accepted
            \/ \E u : u = keys'[j].answer.tx /\ Backed(u, j)
      <4> SUFFICES ASSUME NEW j \in Keys, keys'[j].status = "finished",
                          keys'[j].answer.accepted
                   PROVE  \E u : u = keys'[j].answer.tx /\ Backed(u, j)
        OBVIOUS
      <4>1. keys'[j] = keys[j]
        BY <2>4, <2>5
      <4>. QED BY <2>6, <4>1 DEF TruthBook
    <3>2. \A j \in Keys : \A a \in replies'[j] :
            a.answer.accepted => Backed(a.answer.tx, j)
      BY <1>2, <2>6 DEF TruthBook
    <3>3. UNCHANGED <<deposits, rows, paid>>
      BY <1>2
    <3>. QED BY <2>1, <2>8, <3>1, <3>2, <3>3, RouteTruth
  <2>15. SubmissionTypeOK'
    <3>1. \A j \in Keys : keys'[j].status = "finished" <=> keys'[j].answer # None
      BY <2>4, <2>5, <2>6 DEF SubmissionTypeOK
    <3>. QED BY <1>2, <2>5, <2>6, <2>9, <3>1 DEF SubmissionTypeOK, bounds
  <2>. QED BY <2>10, <2>12, <2>13, <2>14, <2>15 DEF SubmissionInv
<1>. QED BY <1>5, <1>6

---------------------------------------------------------------------------
(* The steps of the world: calls come, time passes, the process crashes.    *)

(* What is believed of a payment outlasts every step that leaves payments,  *)
(* rows and what was said of them alone.                                    *)
LEMMA BooksStay ==
  ASSUME TruthBook, UNCHANGED <<deposits, rows, paid>>,
         \A u, o : Backed(u, o) => Backed(u, o)',
         \A k \in Keys : \/ keys'[k] = keys[k] /\ replies'[k] = replies[k]
                         \/ keys'[k].status # "finished" /\ replies'[k] = {},
         \A q \in Running' :
           /\ calls'[q].step \in {"accept", "keep_accept"}
                => Backed(calls[q].tx, calls[q].of)'
           /\ calls'[q].step = "record" /\ calls'[q].tx # None
                => Backed(calls[q].tx, calls[q].of)'
  PROVE  TruthBook'
<1>1. ASSUME NEW k \in Keys, NEW a \in replies'[k], a.answer.accepted
      PROVE  Backed(a.answer.tx, k)'
  BY <1>1 DEF TruthBook
<1>2. ASSUME NEW k \in Keys, keys'[k].status = "finished", keys'[k].answer.accepted
      PROVE  Backed(keys[k].answer.tx, k)'
  <2>1. PICK u : u = keys[k].answer.tx
    OBVIOUS
  <2>2. keys'[k] = keys[k]
    BY <1>2
  <2>3. Backed(u, k)'
    BY <1>2, <2>1, <2>2 DEF TruthBook
  <2>. QED BY <2>1, <2>2, <2>3 DEF Backed, Paying
<1>3. ASSUME NEW d \in Deposits, deposits'[d].tx # None
      PROVE  Backed(deposits[d].tx, d)'
  <2>1. PICK u : u = deposits[d].tx
    OBVIOUS
  <2>2. Backed(u, d)'
    BY <1>3, <2>1 DEF TruthBook
  <2>. QED BY <2>1, <2>2 DEF Backed, Paying
<1>. QED BY <1>1, <1>2, <1>3 DEF TruthBook

LEMMA BeginKeeps ==
  ASSUME SubmissionInv, NEW via \in Vias, NEW of \in Keys \cup Deposits,
         NEW asset \in Assets, NEW said \in Statuses \cup {None},
         via = "route" => of \in Keys,
         via # "route" => of \in Deposits /\ said \in Statuses,
         Begin(via, of, asset, said)
  PROVE  SubmissionInv'
<1>1. PICK r \in Calls, s \in {"read", "claim"} :
        /\ Unused(r) /\ (via = "poll" <=> s = "read")
        /\ calls' = [calls EXCEPT ![r] =
             [via |-> via, of |-> of, asset |-> asset, said |-> said,
              tx |-> None, step |-> s]]
  BY DEF Begin
<1>2. UNCHANGED <<keys, events, deposits, rows, paid, anchor, replies, bounds>>
  BY DEF Begin
<1>3. PICK c : c = [via |-> via, of |-> of, asset |-> asset, said |-> said,
                    tx |-> None, step |-> s]
  OBVIOUS
<1>4. /\ c \in CallRecords /\ c.via = via /\ c.of = of /\ c.asset = asset
      /\ c.said = said /\ c.step = s
  BY <1>1, <1>3 DEF CallRecords, Steps, Statuses
<1>5. c # None
  BY <1>4, NamesAssumption
<1>6. calls[r] = None
  BY <1>1 DEF Unused
<1>7. calls' = [calls EXCEPT ![r] = c]
  BY <1>1, <1>3
<1>8. /\ calls'[r] = c /\ \A q \in Calls \ {r} : calls'[q] = calls[q]
      /\ calls' \in [Calls -> CallRecords \cup {None}]
  BY <1>4, <1>7, StepTypes
<1>9. Identified
  BY <1>6, <1>8 DEF Identified
<1>10. SubmissionTypeOK /\ CallBook /\ HoldBook /\ ReplyBook /\ RowBook /\ TruthBook
  BY DEF SubmissionInv
<1>11. rows[r] = "none" /\ paid[r] = 0
  BY <1>6, <1>10 DEF CallBook, CallOK
<1>12. \A q \in Calls : Holding(q)' => Holding(q) /\ calls'[q] = calls[q] /\ q # r
  <2>1. ~Holding(r)'
    BY <1>1, <1>4, <1>8 DEF Holding, Via
  <2>. QED BY <1>8, <2>1 DEF Holding, Running, Via
<1>13. SubmissionTypeOK'
  BY <1>2, <1>8, <1>10 DEF SubmissionTypeOK, bounds
<1>14. CallBook'
  <2>1. Faults' = Faults
    BY <1>2 DEF Faults, bounds
  <2>2. CallOK(r, c, "none", 0, Faults)
    BY <1>1, <1>4, <1>5 DEF CallOK, Vias, Early, Sending, Keeping
  <2>3. \A q \in Calls : CallOK(q, calls'[q], rows'[q], paid'[q], Faults')
    BY <1>2, <1>8, <1>10, <1>11, <2>1, <2>2 DEF CallBook
  <2>. QED BY <2>3 DEF CallBook
<1>15. HoldBook'
  BY <1>2, <1>10, <1>12 DEF HoldBook, HeldBy
<1>16. ReplyBook'
  BY <1>2, <1>10, <1>12 DEF ReplyBook
<1>17. RowBook'
  <2>1. ASSUME NEW p \in Calls, NEW q \in Calls, p # r, q # r
        PROVE  SameKey(p, q)' <=> SameKey(p, q)
    BY <1>8, <2>1 DEF SameKey, Via
  <2>2. ASSUME NEW p \in Calls, NEW q \in Calls, p # q, calls'[q] # None, SameKey(p, q)'
        PROVE  "none" \in {rows'[p], rows'[q]}
    <3>1. CASE p = r \/ q = r
      BY <1>2, <1>11, <3>1
    <3>2. CASE p # r /\ q # r
      BY <1>2, <1>8, <1>10, <2>1, <2>2, <3>2 DEF RowBook
    <3>. QED BY <3>1, <3>2
  <2>3. ASSUME NEW p \in Calls, NEW q \in Calls,
               Holding(q)', calls'[q].step \in Sending, SameKey(p, q)'
        PROVE  rows'[p] = "none"
    <3>1. CASE p = r
      BY <1>2, <1>11, <3>1
    <3>2. CASE p # r
      BY <1>2, <1>10, <1>12, <2>1, <2>3, <3>2 DEF RowBook
    <3>. QED BY <3>1, <3>2
  <2>. QED BY <2>2, <2>3 DEF RowBook
<1>18. TruthBook'
  <2>1. \A u, o : Backed(u, o) => Backed(u, o)'
    BY <1>2, <1>9, BackedKept
  <2>2. ASSUME NEW q \in Running'
        PROVE  /\ calls'[q].step \in {"accept", "keep_accept"}
                    => Backed(calls[q].tx, calls[q].of)'
               /\ calls'[q].step = "record" /\ calls'[q].tx # None
                    => Backed(calls[q].tx, calls[q].of)'
    <3>1. PICK u, o : u = calls'[q].tx /\ o = calls'[q].of
      OBVIOUS
    <3>2. CASE q = r
      BY <1>1, <1>4, <1>8, <3>2
    <3>3. CASE q # r
      <4>1. q \in Running /\ calls'[q] = calls[q]
        BY <1>8, <3>3 DEF Running
      <4>2. /\ calls[q].step \in {"accept", "keep_accept"} => Backed(u, o)'
            /\ calls[q].step = "record" /\ calls[q].tx # None => Backed(u, o)'
        BY <1>10, <2>1, <3>1, <4>1 DEF TruthBook
      <4>. QED BY <3>1, <4>1, <4>2 DEF Backed, Paying
    <3>. QED BY <3>2, <3>3
  <2>. QED BY <1>2, <1>10, <2>1, <2>2, BooksStay
<1>. QED BY <1>13, <1>14, <1>15, <1>16, <1>17, <1>18 DEF SubmissionInv

LEMMA ArrivalsKeep ==
  ASSUME SubmissionInv,
         \/ \E k \in Keys, asset \in Assets : Post(k, asset)
         \/ \E d \in Deposits : Callback(d) \/ Poll(d)
  PROVE  SubmissionInv'
<1>1. CASE \E k \in Keys, asset \in Assets : Post(k, asset)
  <2>1. PICK k \in Keys, asset \in Assets : Begin("route", k, asset, None)
    BY <1>1 DEF Post
  <2>2. "route" \in Vias /\ k \in Keys \cup Deposits /\ None \in Statuses \cup {None}
    BY DEF Vias
  <2>. QED BY <2>1, <2>2, BeginKeeps
<1>2. CASE \E d \in Deposits : Callback(d) \/ Poll(d)
  <2>1. PICK d \in Deposits, via \in {"callback", "poll"}, said \in Statuses :
          Begin(via, d, deposits[d].asset, said)
    BY <1>2, StepTypes DEF Callback, Poll, Statuses
  <2>2. PICK asset \in Assets : asset = deposits[d].asset
    BY StepTypes DEF DepositRows
  <2>3. /\ via \in Vias /\ via # "route" /\ d \in Keys \cup Deposits
        /\ said \in Statuses \cup {None} /\ Begin(via, d, asset, said)
    BY <2>1, <2>2 DEF Vias
  <2>. QED BY <2>3, BeginKeeps
<1>. QED BY <1>1, <1>2

LEMMA ExpireKeeps ==
  ASSUME SubmissionInv, NEW k \in Keys, Expire(k)
  PROVE  SubmissionInv'
<1>1. /\ keys' = [keys EXCEPT ![k] = Free] /\ replies' = [replies EXCEPT ![k] = {}]
      /\ UNCHANGED <<events, deposits, rows, paid, anchor, calls, failures, crashes>>
      /\ expiries' = expiries + 1
      /\ \A r \in Running : Via(r, "route") => calls[r].of # k
  BY DEF Expire
<1>2. SubmissionTypeOK /\ CallBook /\ HoldBook /\ ReplyBook /\ RowBook /\ TruthBook
  BY DEF SubmissionInv
<1>3. /\ Free.status = "free" /\ Free.answer = None
      /\ Free \in [status : {"free", "processing", "finished"},
                   asset : Assets \cup {None}, answer : Answers \cup {None}]
  BY DEF Free
<1>4. /\ keys'[k] = Free /\ \A j \in Keys \ {k} : keys'[j] = keys[j]
      /\ keys' \in [Keys -> [status : {"free", "processing", "finished"},
                             asset : Assets \cup {None},
                             answer : Answers \cup {None}]]
  <2> HIDE DEF Free
  <2>. QED BY <1>1, <1>3, StepTypes
<1>5. /\ replies'[k] = {} /\ \A j \in Keys \ {k} : replies'[j] = replies[j]
      /\ replies' \in [Keys -> SUBSET [asset : Assets, answer : Answers]]
  <2> DEFINE R == [asset : Assets, answer : Answers]
  <2>1. replies \in [Keys -> SUBSET R]
    BY StepTypes
  <2> HIDE DEF R
  <2>2. /\ replies'[k] = {} /\ \A j \in Keys \ {k} : replies'[j] = replies[j]
        /\ replies' \in [Keys -> SUBSET R]
    BY <1>1, <2>1
  <2>. QED BY <2>2 DEF R
<1>6. \A q \in Calls : Holding(q)' => Holding(q)
  BY <1>1 DEF Holding, Running, Via
<1>7. \A q \in Calls : Holding(q) => calls[q].of # k /\ calls[q].of \in Keys
  <2> SUFFICES ASSUME NEW q \in Calls, Holding(q)
               PROVE  calls[q].of # k /\ calls[q].of \in Keys
    OBVIOUS
  <2>1. q \in Running /\ Via(q, "route")
    BY DEF Holding
  <2>. QED BY <1>1, <2>1, RunningCall DEF CallOK, Via
<1>8. SubmissionTypeOK'
  <2>1. \A j \in Keys : keys'[j].status = "finished" <=> keys'[j].answer # None
    BY <1>2, <1>3, <1>4 DEF SubmissionTypeOK
  <2>2. expiries' \in Nat
    BY <1>1, StepTypes
  <2>. QED BY <1>1, <1>2, <1>4, <1>5, <2>1, <2>2 DEF SubmissionTypeOK
<1>9. CallBook'
  BY <1>1, <1>2 DEF CallBook, Faults
<1>10. HoldBook'
  BY <1>1, <1>2, <1>4, <1>6, <1>7 DEF HoldBook, HeldBy
<1>11. ReplyBook'
  <2>1. ASSUME NEW j \in Keys
        PROVE  /\ \A a, b \in replies'[j] : a = b
               /\ \A a \in replies'[j] :
                    /\ a.asset = keys'[j].asset /\ keys'[j].status # "free"
                    /\ keys'[j].status = "finished" => a.answer = keys'[j].answer
    <3>1. CASE j = k
      BY <1>5, <3>1
    <3>2. CASE j # k
      BY <1>2, <1>4, <1>5, <3>2 DEF ReplyBook
    <3>. QED BY <3>1, <3>2
  <2>2. ASSUME NEW q \in Calls, Holding(q)', NEW a \in replies'[calls'[q].of]
        PROVE  /\ calls'[q].step \in Keeping
               /\ a.answer = [accepted |-> calls'[q].step = "keep_accept",
                              tx |-> calls'[q].tx]
    <3>1. Holding(q) /\ calls'[q] = calls[q] /\ a \in replies[calls[q].of]
      BY <1>1, <1>5, <1>6, <1>7, <2>2
    <3>. QED BY <1>2, <3>1 DEF ReplyBook
  <2>. QED BY <2>1, <2>2 DEF ReplyBook
<1>12. RowBook'
  BY <1>1, <1>2 DEF RowBook, Holding, Running, SameKey, Via
<1>13. TruthBook'
  <2>1. \A u, o : Backed(u, o) => Backed(u, o)'
    BY <1>1 DEF Backed, Paying
  <2>2. \A j \in Keys : \/ keys'[j] = keys[j] /\ replies'[j] = replies[j]
                        \/ keys'[j].status # "finished" /\ replies'[j] = {}
    BY <1>3, <1>4, <1>5
  <2>3. ASSUME NEW q \in Running'
        PROVE  /\ calls'[q].step \in {"accept", "keep_accept"}
                    => Backed(calls[q].tx, calls[q].of)'
               /\ calls'[q].step = "record" /\ calls'[q].tx # None
                    => Backed(calls[q].tx, calls[q].of)'
    <3>1. q \in Running
      BY <1>1 DEF Running
    <3>. QED BY <1>1, <1>2, <3>1 DEF TruthBook, Backed, Paying
  <2>. QED BY <1>1, <1>2, <2>1, <2>2, <2>3, BooksStay
<1>. QED BY <1>8, <1>9, <1>10, <1>11, <1>12, <1>13 DEF SubmissionInv

LEMMA QuietWorldKeeps ==
  ASSUME SubmissionInv,
         UNCHANGED submissionVars \/ \E d \in Deposits : AnchorSettles(d)
  PROVE  SubmissionInv'
<1>1. /\ UNCHANGED <<keys, events, deposits, rows, paid, calls, replies, bounds>>
      /\ anchor' \in [Deposits -> {"pending_anchor", "completed", "failed"}]
  <2>1. CASE UNCHANGED submissionVars
    BY <2>1, StepTypes DEF submissionVars
  <2>2. CASE \E d \in Deposits : AnchorSettles(d)
    BY <2>2, StepTypes DEF AnchorSettles
  <2>. QED BY <2>1, <2>2
<1>2. SubmissionTypeOK'
  BY <1>1 DEF SubmissionInv, SubmissionTypeOK, bounds
<1>3. CallBook'
  BY <1>1 DEF SubmissionInv, CallBook, Faults, bounds
<1>4. HoldBook' /\ RowBook'
  BY <1>1 DEF SubmissionInv, HoldBook, HeldBy, RowBook, Holding, Running, SameKey, Via
<1>5. ReplyBook'
  BY <1>1 DEF SubmissionInv, ReplyBook, Holding, Running, Via
<1>6. TruthBook'
  BY <1>1 DEF SubmissionInv, TruthBook, Backed, Paying, Running
<1>. QED BY <1>2, <1>3, <1>4, <1>5, <1>6 DEF SubmissionInv

LEMMA CrashKeeps ==
  ASSUME SubmissionInv, Crash
  PROVE  SubmissionInv'
<1>1. /\ crashes' = crashes + 1
      /\ calls' = [r \in Calls |->
           IF r \in Running THEN [calls[r] EXCEPT !.step = "done", !.tx = None]
                            ELSE calls[r]]
      /\ UNCHANGED <<keys, events, deposits, rows, paid, anchor, replies,
                     failures, expiries>>
  BY DEF Crash
<1>0. crashes \in Nat /\ failures \in Nat /\ crashes' = crashes + 1 /\ failures' = failures
  <2>1. crashes \in Nat /\ failures \in Nat
    BY StepTypes
  <2>. QED BY <1>1, <2>1
<1>2. SubmissionTypeOK /\ CallBook /\ HoldBook /\ ReplyBook /\ RowBook /\ TruthBook
  BY DEF SubmissionInv
<1>3. ASSUME NEW r \in Running
      PROVE  /\ r \in Calls /\ calls'[r] \in CallRecords /\ calls'[r] # None
             /\ calls'[r].step = "done" /\ calls'[r].via = calls[r].via
             /\ calls'[r].of = calls[r].of /\ calls'[r].said = calls[r].said
             /\ calls'[r].asset = calls[r].asset
  <2>1. r \in Calls /\ calls[r] \in CallRecords
    BY RunningCall
  <2>2. calls'[r] = [calls[r] EXCEPT !.step = "done", !.tx = None]
    BY <1>1, <2>1
  <2>3. calls'[r] \in CallRecords
    BY <2>1, <2>2 DEF CallRecords, Steps
  <2>4. calls'[r] # None
    BY <2>3, NamesAssumption
  <2>. QED BY <2>1, <2>2, <2>3, <2>4 DEF CallRecords
<1>4. \A q \in Calls : q \notin Running => calls'[q] = calls[q]
  BY <1>1
<1>5. /\ Identified /\ Running' = {}
      /\ \A q \in Calls : calls'[q] = None <=> calls[q] = None
  BY <1>3, <1>4 DEF Identified, Running
<1>6. SubmissionTypeOK'
  <2>1. calls' \in [Calls -> CallRecords \cup {None}]
    <3>1. \A q \in Calls : calls'[q] \in CallRecords \cup {None}
      BY <1>3, <1>4, StepTypes
    <3>2. PICK m : m = [r \in Calls |->
            IF r \in Running THEN [calls[r] EXCEPT !.step = "done", !.tx = None]
                             ELSE calls[r]]
      OBVIOUS
    <3>3. DOMAIN m = Calls /\ m = [q \in DOMAIN m |-> m[q]]
      BY <3>2
    <3>4. calls' = m
      BY <1>1, <3>2
    <3>. QED BY <3>1, <3>3, <3>4
  <2>2. crashes' \in Nat
    BY <1>0
  <2>. QED BY <1>1, <1>2, <2>1, <2>2 DEF SubmissionTypeOK
<1>7. CallBook'
  <2>1. Faults' > 0 /\ Faults' \in Nat
    BY <1>0 DEF Faults
  <2>2. ASSUME NEW q \in Calls
        PROVE  CallOK(q, calls'[q], rows'[q], paid'[q], Faults')
    <3>1. CallOK(q, calls[q], rows[q], paid[q], Faults)
      BY <1>2 DEF CallBook
    <3>2. CASE q \in Running
      <4>1. calls[q] # None /\ rows'[q] = rows[q] /\ paid'[q] = paid[q]
        BY <1>1, <3>2, RunningCall
      <4>2. PICK c : c = calls'[q]
        OBVIOUS
      <4>3. /\ c # None /\ c.step = "done" /\ c.via = calls[q].via /\ c.of = calls[q].of
            /\ c.said = calls[q].said /\ c.asset = calls[q].asset
        BY <1>3, <3>2, <4>2
      <4>4. Faults' # 0
        BY <2>1
      <4>5. CallOK(q, c, rows[q], paid[q], Faults')
        BY <3>1, <4>1, <4>3, <4>4 DEF CallOK, Early, Sending, Keeping
      <4>. QED BY <4>1, <4>2, <4>5
    <3>3. CASE q \notin Running
      <4>1. calls'[q] = calls[q] /\ rows'[q] = rows[q] /\ paid'[q] = paid[q]
        BY <1>1, <1>4, <3>3
      <4>2. CallOK(q, calls[q], rows[q], paid[q], Faults')
        BY <2>1, <3>1 DEF CallOK
      <4>. QED BY <4>1, <4>2
    <3>. QED BY <3>2, <3>3
  <2>. QED BY <2>2 DEF CallBook
<1>8. \A q \in Calls : ~Holding(q)'
  BY <1>5 DEF Holding
<1>9. HoldBook' /\ ReplyBook'
  BY <1>1, <1>2, <1>8 DEF HoldBook, ReplyBook
<1>10. RowBook'
  <2>1. \A p, q \in Calls : calls[q] # None => (SameKey(p, q)' <=> SameKey(p, q))
    BY <1>5 DEF SameKey, Identified, Via
  <2>. QED BY <1>1, <1>2, <1>5, <1>8, <2>1 DEF RowBook
<1>11. TruthBook'
  <2>1. \A u, o : Backed(u, o) => Backed(u, o)'
    BY <1>1, <1>5, BackedKept
  <2>. QED BY <1>1, <1>2, <1>5, <2>1, BooksStay
<1>. QED BY <1>6, <1>7, <1>9, <1>10, <1>11 DEF SubmissionInv

---------------------------------------------------------------------------
LEMMA SubmissionInitially == SubmissionInit => SubmissionInv
<1> SUFFICES ASSUME SubmissionInit
             PROVE  SubmissionInv
  OBVIOUS
<1>1. /\ Running = {} /\ \A k \in Keys : replies[k] = {} /\ keys[k] = Free
      /\ \A r \in Calls : calls[r] = None /\ rows[r] = "none" /\ paid[r] = 0
      /\ \A d \in Deposits : deposits[d].tx = None
  BY DEF SubmissionInit, Running
<1>2. SubmissionTypeOK
  <2>1. Free \in [status : {"free", "processing", "finished"},
                  asset : Assets \cup {None}, answer : Answers \cup {None}]
    BY DEF Free
  <2>2. \A k \in Keys : keys[k].status = "finished" <=> keys[k].answer # None
    <3>1. Free.status = "free" /\ Free.answer = None
      BY DEF Free
    <3> HIDE DEF Free
    <3>2. \A k \in Keys : keys[k].status = "free" /\ keys[k].answer = None
      BY <1>1, <3>1
    <3>. QED BY <3>2
  <2>3. deposits \in DepositRows
    BY DepositAssumption DEF SubmissionInit, DepositRows
  <2>4. replies \in [Keys -> SUBSET [asset : Assets, answer : Answers]]
    BY DEF SubmissionInit
  <2> HIDE DEF Free
  <2>5. keys \in [Keys -> [status : {"free", "processing", "finished"},
                           asset : Assets \cup {None},
                           answer : Answers \cup {None}]]
    BY <2>1 DEF SubmissionInit
  <2>. QED BY <2>2, <2>3, <2>4, <2>5 DEF SubmissionInit, SubmissionTypeOK, DepositRows
<1>3. CallBook
  BY <1>1 DEF CallBook, CallOK
<1>4. HoldBook /\ RowBook
  BY <1>1 DEF HoldBook, RowBook, Holding
<1>5. ReplyBook
  BY <1>1 DEF ReplyBook, Holding
<1>6. TruthBook
  BY <1>1 DEF TruthBook, Free
<1>. QED BY <1>2, <1>3, <1>4, <1>5, <1>6 DEF SubmissionInv

(* SubmissionInv holds whatever callers do, in whatever order, and whatever *)
(* fails.                                                                   *)
THEOREM SubmissionInvariance == SubmissionSpec => []SubmissionInv
<1>1. SubmissionInit => SubmissionInv
  BY SubmissionInitially
<1>2. SubmissionInv /\ [SubmissionNext]_submissionVars => SubmissionInv'
  <2> SUFFICES ASSUME SubmissionInv, [SubmissionNext]_submissionVars
               PROVE  SubmissionInv'
    OBVIOUS
  <2>1. CASE \E k \in Keys : Expire(k)
    BY <2>1, ExpireKeeps
  <2>2. CASE \/ \E k \in Keys, asset \in Assets : Post(k, asset)
             \/ \E d \in Deposits : Callback(d) \/ Poll(d)
    BY <2>2, ArrivalsKeep
  <2>3. CASE \E d \in Deposits : AnchorSettles(d)
    BY <2>3, QuietWorldKeeps
  <2>4. CASE \E r \in Running : RouteStep(r)
    BY <2>4, ClaimKeeps, LookKeeps, ReplyKeeps, PersistKeeps, PersistFailsKeeps
       DEF RouteStep
  <2>5. CASE \E r \in Running : DepositStep(r)
    BY <2>5, ClaimEventKeeps, ReadKeeps, SyncKeeps, StoreTransactionKeeps, LateFailuresKeep
       DEF DepositStep
  <2>6. CASE \E r \in Running : ServiceStep(r)
    BY <2>6, DeclineKeeps, QueryFailsKeeps, SelectKeeps, InsertKeeps, SubmitKeeps,
       UndoKeeps, LateFailuresKeep, MarkKeeps DEF ServiceStep
  <2>7. CASE Crash
    BY <2>7, CrashKeeps
  <2>8. CASE UNCHANGED submissionVars
    BY <2>8, QuietWorldKeeps
  <2>. QED BY <2>1, <2>2, <2>3, <2>4, <2>5, <2>6, <2>7, <2>8 DEF SubmissionNext
<1>. QED BY <1>1, <1>2, PTL DEF SubmissionSpec

(* Keys, deposits, rows, calls and answers stay what they are declared as. *)
THEOREM SubmissionTypeCorrect == SubmissionSpec => []SubmissionTypeOK
<1>1. SubmissionInv => SubmissionTypeOK
  BY DEF SubmissionInv
<1>. QED BY <1>1, SubmissionInvariance, PTL

(* Of the calls with one key at most one pays, but for the route's that     *)
(* failed, crashed or converted: the row is what a retry is told.           *)
THEOREM PaidOnce == SubmissionSpec => []PaidOncePerKey
<1>1. SubmissionInv => PaidOncePerKey
  <2> SUFFICES ASSUME SubmissionInv, NEW q \in Calls, NEW r \in Calls,
                      q # r, Paying(q), Paying(r), SameKey(q, r)
               PROVE  /\ Via(q, "route") /\ "none" \in {rows[q], rows[r]}
                      /\ \/ failures + crashes > 0
                         \/ "cross" \in {calls[q].asset, calls[r].asset}
    BY DEF PaidOncePerKey
  <2>1. /\ calls[q] # None /\ calls[r] # None /\ paid[q] > 0 /\ paid[r] > 0
        /\ calls[q].via = calls[r].via /\ calls[q].of = calls[r].of
    BY DEF Paying, SameKey
  <2>2. /\ CallOK(q, calls[q], rows[q], paid[q], Faults)
        /\ CallOK(r, calls[r], rows[r], paid[r], Faults)
    BY DEF SubmissionInv, CallBook
  <2>3. HoldBook /\ RowBook
    BY DEF SubmissionInv
  <2>4. "none" \in {rows[q], rows[r]}
    BY <2>1, <2>3 DEF RowBook
  <2>5. Via(q, "route") /\ Via(r, "route")
    BY <2>1, <2>2, <2>4 DEF CallOK, Via
  <2>6. calls[q].asset \in Assets /\ calls[r].asset \in Assets
    BY <2>1, StepTypes DEF CallRecords
  <2>7. ASSUME Faults = 0, calls[q].asset = "same", calls[r].asset = "same"
        PROVE  FALSE
    <3>1. /\ rows[q] = "submitted" \/ calls[q].step = "mark"
          /\ rows[r] = "submitted" \/ calls[r].step = "mark"
      BY <2>1, <2>2, <2>5, <2>7 DEF CallOK, Via
    <3>2. SameKey(r, q)
      BY <2>1, <2>5 DEF SameKey, Via
    <3>3. /\ calls[q].step = "mark" => Holding(q)
          /\ calls[r].step = "mark" => Holding(r)
      BY <2>1, <2>5 DEF Holding, Running
    <3>4. calls[q].step = "mark" => rows[r] = "none"
      BY <2>3, <3>2, <3>3 DEF RowBook, Sending
    <3>5. calls[r].step = "mark" => rows[q] = "none"
      BY <2>3, <3>3 DEF RowBook, Sending
    <3>6. calls[q].step = "mark" /\ calls[r].step = "mark"
      BY <2>4, <3>1, <3>4, <3>5
    <3>. QED BY <2>1, <2>3, <3>3, <3>6 DEF HoldBook
  <2>8. Faults \in Nat
    BY StepTypes DEF Faults
  <2>. QED BY <2>4, <2>5, <2>6, <2>7, <2>8 DEF Assets, Faults
<1>. QED BY <1>1, SubmissionInvariance, PTL

(* One answer to a life of a key; an accepted contribution and a deposit's  *)
(* transaction are payments on the ledger and in a row.                     *)
THEOREM AnswersTrue == SubmissionSpec => []AnswersAreTrue
<1>1. SubmissionInv => AnswersAreTrue
  <2> SUFFICES ASSUME SubmissionInv PROVE AnswersAreTrue
    OBVIOUS
  <2>1. ReplyBook /\ TruthBook
    BY DEF SubmissionInv
  <2>2. \A k \in Keys : \A a, b \in replies[k] : a = b
    BY <2>1 DEF ReplyBook
  <2>3. ASSUME NEW k \in Keys, NEW a \in replies[k], a.answer.accepted
        PROVE  \E r \in Calls : /\ r = a.answer.tx /\ Paying(r)
                                /\ rows[r] = "submitted" /\ calls[r].of = k
    BY <2>1, <2>3 DEF TruthBook, Backed
  <2>4. ASSUME NEW d \in Deposits, deposits[d].tx # None
        PROVE  /\ Paying(deposits[d].tx) /\ rows[deposits[d].tx] = "submitted"
               /\ calls[deposits[d].tx].of = d
    BY <2>1, <2>4 DEF TruthBook, Backed
  <2>. QED BY <2>2, <2>3, <2>4 DEF AnswersAreTrue
<1>. QED BY <1>1, SubmissionInvariance, PTL

(***************************************************************************)
(*                                 Balance                                 *)
(***************************************************************************)
(* Sums over sets of payments. *)
LEMMA AmountsType ==
  ASSUME NEW S
  PROVE  [p \in Payments |-> IF p \in S THEN AmountOf[p] ELSE 0] \in [Payments -> Nat]
BY PaymentsAssumption

LEMMA SumType ==
  ASSUME NEW S
  PROVE  Sum(S) \in Nat
BY AmountsType, PaymentsAssumption, TotalType DEF Sum

LEMMA SumGrows ==
  ASSUME NEW S, NEW T, S \subseteq T
  PROVE  Sum(S) <= Sum(T)
<1>. DEFINE f(U) == [p \in Payments |-> IF p \in U THEN AmountOf[p] ELSE 0]
<1>1. f(S) \in [Payments -> Nat] /\ f(T) \in [Payments -> Nat]
  BY AmountsType
<1>2. \A p \in Payments : f(S)[p] <= f(T)[p]
  <2>. TAKE p \in Payments
  <2>1. AmountOf[p] \in Nat
    BY PaymentsAssumption
  <2>. QED BY <2>1
<1>3. Sum(S) = Total(f(S)) /\ Sum(T) = Total(f(T))
  BY DEF Sum
<1>. HIDE DEF f
<1>. QED BY <1>1, <1>2, <1>3, PaymentsAssumption, TotalMono

LEMMA SumAdds ==
  ASSUME NEW S, NEW p \in Payments, p \notin S
  PROVE  Sum(S \cup {p}) = Sum(S) + AmountOf[p]
<1>. DEFINE f(U) == [q \in Payments |-> IF q \in U THEN AmountOf[q] ELSE 0]
<1>1. f(S) \in [Payments -> Nat] /\ f(S)[p] = 0 /\ AmountOf[p] \in Nat
  BY AmountsType, PaymentsAssumption
<1>2. f(S \cup {p}) = [f(S) EXCEPT ![p] = AmountOf[p]]
  OBVIOUS
<1>3. Sum(S) = Total(f(S)) /\ Sum(S \cup {p}) = Total(f(S \cup {p}))
  BY DEF Sum
<1>4. Total(f(S)) \in Nat
  BY <1>1, PaymentsAssumption, TotalType
<1>. DEFINE F == f(S)
<1>5. Total([F EXCEPT ![p] = AmountOf[p]]) = Total(F) - F[p] + AmountOf[p]
  <2>1. F \in [Payments -> Nat] /\ AmountOf[p] \in Nat /\ IsFiniteSet(Payments)
    BY <1>1, PaymentsAssumption
  <2>. HIDE DEF F, f
  <2>. QED BY <2>1, TotalUpdate, Zenon
<1>. QED BY <1>1, <1>2, <1>3, <1>4, <1>5

LEMMA SumEmpty == Sum({}) = 0
BY TotalZero DEF Sum

---------------------------------------------------------------------------
(* Types, in parts, and what the pass and the history hold. *)
States == {"none", "paid", "checked", "recorded", "dropped"}
ReleaseRecords ==
  [step : {"pending", "approved", "landed", "released"}, amount : Nat]

Typed ==
  /\ payments \in [Payments -> States]
  /\ raised \in Nat /\ matched \in 0 .. Pledge /\ adjustments \in Int
  /\ status \in {"active", "failed"} \cup PaidStatuses
  /\ releases \in [Milestones -> ReleaseRecords]
  /\ base \in Nat /\ lowered \in BOOLEAN /\ stale \in BOOLEAN

PassTyped ==
  /\ pass \in [step : {"idle", "selected", "read"}, seen : Nat, live : Nat,
               among : SUBSET Payments]
  /\ passes \in 0 .. MaxPasses

(* What is remembered of the payments lies in the wallet. *)
PassIsSound ==
  /\ pass.among \subseteq InWallet
  /\ pass.step = "read" => pass.live <= Sum(pass.among)
  /\ counted \subseteq InWallet
  /\ doubled \subseteq Recorded

Solvent == Promised(Landed) <= Sum(InWallet)

(* raised_amount, with the payments a correction has counted already. *)
RaisedIsBacked == raised <= Sum(Recorded \cup counted) + matched + Sum(doubled)

PaidIsEarned == status \in PaidStatuses => Worth >= Target

BaseStands ==
  /\ Approved \cup Landed # {} => base > 0
  /\ ~lowered => base <= raised

IInv ==
  /\ Typed /\ PassTyped /\ PassIsSound
  /\ Solvent /\ RaisedIsBacked /\ RowsAddUp /\ PaidIsEarned
  /\ BaseStands /\ SharesAreKept

(* What a job credits. *)
LEMMA CreditFacts ==
  ASSUME Typed, NEW p \in Payments
  PROVE  /\ AmountOf[p] \in Nat /\ MatchFor(p) \in Nat
         /\ matched + MatchFor(p) \in 0 .. Pledge
         /\ Credit(p) \in Nat /\ Credit(p) = AmountOf[p] + MatchFor(p)
<1>1. AmountOf[p] \in Nat /\ Ratio \in Nat /\ Pledge \in Nat
  BY PaymentsAssumption, CampaignAssumption
<1>2. AmountOf[p] * Ratio \in Nat
  BY <1>1, MulNat
<1>3. matched \in Nat /\ matched <= Pledge
  BY <1>1 DEF Typed
<1>. DEFINE x == AmountOf[p] * Ratio
<1>4. MatchFor(p) = Smaller(x, Pledge - matched)
  BY DEF MatchFor
<1>. HIDE DEF x
<1>5. MatchFor(p) \in Nat /\ MatchFor(p) <= Pledge - matched
  BY <1>1, <1>2, <1>3, <1>4 DEF Smaller, x
<1>. QED BY <1>1, <1>3, <1>5 DEF Credit

(* A table of the promised amounts of some milestones. *)
LEMMA AmountsPromised ==
  ASSUME Typed, NEW S
  PROVE  [m \in Milestones |-> IF m \in S THEN releases[m].amount ELSE 0]
           \in [Milestones -> Nat]
BY DEF Typed, ReleaseRecords

LEMMA PromisedType ==
  ASSUME Typed, NEW S
  PROVE  Promised(S) \in Nat
BY AmountsPromised, MilestonesAssumption, TotalType DEF Promised

LEMMA BalanceType ==
  ASSUME Typed, Solvent
  PROVE  Balance \in Nat /\ Balance <= Sum(InWallet)
<1>1. Promised(Landed) \in Nat /\ Sum(InWallet) \in Nat
  BY PromisedType, SumType
<1>. QED BY <1>1 DEF Balance, Solvent

LEMMA WorthType ==
  ASSUME Typed
  PROVE  Worth \in Nat
<1>1. matched \in Nat
  BY CampaignAssumption DEF Typed
<1>. QED BY <1>1, SumType DEF Worth

---------------------------------------------------------------------------
(* A step leaves the types as they are. *)
LEMMA TypedStep ==
  ASSUME Typed, PassTyped, Solvent, [Next]_vars
  PROVE  Typed'
<1>1. ASSUME NEW p \in Payments, PaymentStep(p) PROVE Typed'
  <2>1. ASSUME NEW from, NEW to \in States, Advance(p, from, to)
        PROVE  payments' \in [Payments -> States]
    BY <2>1 DEF Advance, Typed
  <2>2. CASE Pay(p)
    BY <2>1, <2>2 DEF Pay, campaign, history, Typed, States
  <2>3. CASE CheckStatus(p)
    BY <2>1, <2>3 DEF CheckStatus, campaign, history, Typed, States
  <2>4. CASE RecordFails(p)
    BY <2>1, <2>4 DEF RecordFails, campaign, history, Typed, States
  <2>5. CASE Record(p)
    <3>1. payments' \in [Payments -> States]
      BY <2>1, <2>5 DEF Record, States
    <3>2. raised' \in Nat /\ matched' \in 0 .. Pledge
      BY <2>5, CreditFacts DEF Record, Typed
    <3>3. status' \in {"active", "failed"} \cup PaidStatuses
      BY <2>5 DEF Record, Typed, PaidStatuses, ReleaseStatuses
    <3>. QED BY <2>5, <3>1, <3>2, <3>3 DEF Record, Typed
  <2>. QED BY <1>1, <2>2, <2>3, <2>4, <2>5 DEF PaymentStep
<1>2. ASSUME NEW m \in Milestones, ReleaseStep(m) PROVE Typed'
  <2>1. ASSUME NEW from,
               NEW to \in {"pending", "approved", "landed", "released"},
               Release(m, from, to)
        PROVE  releases' \in [Milestones -> ReleaseRecords]
    BY <2>1 DEF Release, Typed, ReleaseRecords
  <2>2. CASE Approve(m)
    <3>1. PICK a \in ReleaseAmounts(raised, ShareOf[m]) :
            releases' = [releases EXCEPT ![m] = [step |-> "approved", amount |-> a]]
      BY <2>2 DEF Approve
    <3>2. a \in Nat
      BY <3>1 DEF ReleaseAmounts, Typed
    <3>3. releases' \in [Milestones -> ReleaseRecords]
      BY <3>1, <3>2 DEF Typed, ReleaseRecords
    <3>. QED BY <2>2, <3>3 DEF Approve, campaign, Typed
  <2>3. CASE ReleaseFails(m)
    <3>1. releases' \in [Milestones -> ReleaseRecords]
      BY <2>3 DEF ReleaseFails, NoRelease, Typed, ReleaseRecords
    <3>. QED BY <2>3, <3>1 DEF ReleaseFails, campaign, history, Typed
  <2>4. CASE Land(m)
    BY <2>1, <2>4 DEF Land, campaign, history, Typed
  <2>5. CASE Finalize(m)
    <3>1. status' \in {"active", "failed"} \cup PaidStatuses
      BY <2>5 DEF Finalize, Typed, PaidStatuses, ReleaseStatuses
    <3>. QED BY <2>1, <2>5, <3>1 DEF Finalize, history, Typed
  <2>. QED BY <1>2, <2>2, <2>3, <2>4, <2>5 DEF ReleaseStep
<1>3. CASE SelectCampaign \/ ReadBalance \/ EndPass \/ UNCHANGED vars
  BY <1>3 DEF SelectCampaign, ReadBalance, EndPass, vars, campaign, history, Typed
<1>4. CASE Correct
  <2>1. pass.live \in Nat /\ pass.seen \in Nat
    BY DEF PassTyped
  <2>2. status' \in {"active", "failed"} \cup PaidStatuses
    BY <1>4 DEF Correct, Typed, PaidStatuses, ReleaseStatuses
  <2>3. stale' \in BOOLEAN /\ lowered' \in BOOLEAN
    BY <1>4 DEF Correct, Typed
  <2>4. raised' \in Nat /\ adjustments' \in Int
    BY <1>4, <2>1 DEF Correct, Typed
  <2>. QED BY <1>4, <2>2, <2>3, <2>4 DEF Correct, Typed
<1>5. CASE RefreshStatus
  BY <1>5 DEF RefreshStatus, history, Typed, PaidStatuses, ReleaseStatuses
<1>. QED BY <1>1, <1>2, <1>3, <1>4, <1>5 DEF Next, PassStep

(* The sets of payments and the memory only grow. *)
LEMMA PaymentsMove ==
  ASSUME Typed, [Next]_vars
  PROVE  /\ InWallet \subseteq InWallet'
         /\ Recorded \subseteq Recorded'
         /\ doubled \subseteq doubled'
<1>1. ASSUME NEW p \in Payments, PaymentStep(p)
      PROVE  InWallet \subseteq InWallet' /\ Recorded \subseteq Recorded'
  <2>1. ASSUME NEW from, NEW to, Advance(p, from, to), to # "none",
               from # "recorded"
        PROVE  InWallet \subseteq InWallet' /\ Recorded \subseteq Recorded'
    BY <2>1 DEF Advance, InWallet, Recorded, Typed
  <2>. QED
    BY <1>1, <2>1 DEF PaymentStep, Pay, CheckStatus, Record, RecordFails
<1>2. ASSUME payments' = payments
      PROVE  InWallet' = InWallet /\ Recorded' = Recorded
  BY <1>2 DEF InWallet, Recorded
<1>3. ASSUME NEW m \in Milestones, ReleaseStep(m)
      PROVE  payments' = payments /\ doubled' = doubled
  BY <1>3 DEF ReleaseStep, Approve, ReleaseFails, Land, Finalize, history
<1>4. CASE PassStep \/ RefreshStatus \/ UNCHANGED vars
  <2>1. payments' = payments /\ doubled' = doubled
    BY <1>4 DEF PassStep, SelectCampaign, ReadBalance, Correct, EndPass,
                RefreshStatus, vars, history
  <2>. QED BY <1>2, <2>1
<1>5. ASSUME NEW p \in Payments, PaymentStep(p) PROVE doubled \subseteq doubled'
  BY <1>5 DEF PaymentStep, Pay, CheckStatus, Record, RecordFails, history
<1>. QED BY <1>1, <1>2, <1>3, <1>4, <1>5 DEF Next

(* A job that commits moves one payment; no other step records any. *)
LEMMA RecordMoves ==
  ASSUME Typed, NEW p \in Payments, Record(p)
  PROVE  /\ InWallet' = InWallet /\ p \in InWallet
         /\ p \notin Recorded /\ Recorded' = Recorded \cup {p}
BY DEF Record, Advance, InWallet, Recorded, Typed

LEMMA OthersRecordNothing ==
  ASSUME Typed, [Next]_vars, ~(\E p \in Payments : Record(p))
  PROVE  Recorded' = Recorded /\ matched' = matched /\ doubled' = doubled
<1>1. ASSUME NEW p \in Payments, Pay(p) \/ CheckStatus(p) \/ RecordFails(p)
      PROVE  Recorded' = Recorded
  BY <1>1 DEF Pay, CheckStatus, RecordFails, Advance, Recorded, Typed
<1>2. ASSUME NEW p \in Payments, Pay(p) \/ CheckStatus(p) \/ RecordFails(p)
      PROVE  matched' = matched /\ doubled' = doubled
  BY <1>2 DEF Pay, CheckStatus, RecordFails, history
<1>3. ASSUME payments' = payments PROVE Recorded' = Recorded
  BY <1>3 DEF Recorded
<1>4. ASSUME NEW m \in Milestones, ReleaseStep(m)
      PROVE  payments' = payments /\ matched' = matched /\ doubled' = doubled
  BY <1>4 DEF ReleaseStep, Approve, ReleaseFails, Land, Finalize, history
<1>5. CASE PassStep \/ RefreshStatus \/ UNCHANGED vars
  <2>1. payments' = payments /\ matched' = matched /\ doubled' = doubled
    BY <1>5 DEF PassStep, SelectCampaign, ReadBalance, Correct, EndPass,
                RefreshStatus, vars, history
  <2>. QED BY <1>3, <2>1
<1>. QED BY <1>1, <1>2, <1>3, <1>4, <1>5 DEF Next, PaymentStep

(* What a payment or a release leaves alone of the pass. *)
LEMMA PassFrame ==
  ASSUME [Next]_vars, ~PassStep
  PROVE  pass' = pass /\ passes' = passes /\ counted' = counted
<1>1. ASSUME NEW p \in Payments, PaymentStep(p)
      PROVE  pass' = pass /\ passes' = passes /\ counted' = counted
  BY <1>1 DEF PaymentStep, Pay, CheckStatus, Record, RecordFails, history
<1>2. ASSUME NEW m \in Milestones, ReleaseStep(m)
      PROVE  pass' = pass /\ passes' = passes /\ counted' = counted
  BY <1>2 DEF ReleaseStep, Approve, ReleaseFails, Land, Finalize, history
<1>3. CASE RefreshStatus \/ UNCHANGED vars
  BY <1>3 DEF RefreshStatus, vars, history
<1>. QED BY <1>1, <1>2, <1>3 DEF Next

LEMMA PassTypedStep ==
  ASSUME Typed, PassTyped, Solvent, [Next]_vars
  PROVE  PassTyped'
<1>1. CASE ~PassStep
  BY <1>1, PassFrame DEF PassTyped
<1>2. CASE SelectCampaign
  <2>1. passes' \in 0 .. MaxPasses
    BY <1>2, PassesAssumption DEF SelectCampaign, PassTyped
  <2>2. pass' = [step |-> "selected", seen |-> raised, live |-> 0, among |-> {}]
    BY <1>2 DEF SelectCampaign, Idle
  <2>. QED BY <2>1, <2>2 DEF PassTyped, Typed
<1>3. CASE ReadBalance
  <2>1. Balance \in Nat /\ InWallet \subseteq Payments
    BY BalanceType DEF InWallet
  <2>. QED BY <1>3, <2>1 DEF ReadBalance, PassTyped
<1>4. CASE Correct \/ EndPass
  <2>1. pass' = Idle /\ passes' = passes
    BY <1>4 DEF Correct, EndPass
  <2>. QED BY <2>1 DEF PassTyped, Idle
<1>. QED BY <1>1, <1>2, <1>3, <1>4 DEF PassStep

LEMMA PassIsSoundStep ==
  ASSUME Typed, PassTyped, PassIsSound, Solvent, [Next]_vars
  PROVE  PassIsSound'
<1>1. /\ InWallet \subseteq InWallet' /\ Recorded \subseteq Recorded'
  BY PaymentsMove
<1>2. doubled' \subseteq Recorded'
  <2>1. ASSUME NEW p \in Payments, Record(p) PROVE doubled' \subseteq Recorded'
    BY <1>1, <2>1, RecordMoves DEF Record, PassIsSound
  <2>2. CASE ~(\E p \in Payments : Record(p))
    BY <2>2, OthersRecordNothing DEF PassIsSound
  <2>. QED BY <2>1, <2>2
<1>3. CASE ~PassStep
  BY <1>1, <1>2, <1>3, PassFrame DEF PassIsSound
<1>4. CASE SelectCampaign
  BY <1>1, <1>2, <1>4 DEF SelectCampaign, Idle, history, PassIsSound
<1>5. CASE ReadBalance
  <2>1. Balance <= Sum(InWallet)
    BY BalanceType
  <2>2. pass' = [pass EXCEPT !.step = "read", !.live = Balance, !.among = InWallet]
        /\ counted' = counted
    BY <1>5 DEF ReadBalance, history
  <2>3. pass'.among = InWallet /\ pass'.live = Balance
    BY <2>2 DEF PassTyped
  <2>. QED BY <1>1, <1>2, <2>1, <2>2, <2>3 DEF PassIsSound
<1>6. CASE Correct
  BY <1>1, <1>2, <1>6 DEF Correct, Idle, PassIsSound
<1>7. CASE EndPass
  BY <1>1, <1>2, <1>7 DEF EndPass, Idle, history, PassIsSound
<1>. QED BY <1>3, <1>4, <1>5, <1>6, <1>7 DEF PassStep

---------------------------------------------------------------------------
(* The wallet can pay what has left it. *)
LEMMA PromisedFrame ==
  ASSUME Landed' = Landed,
         \A m \in Landed : releases'[m].amount = releases[m].amount
  PROVE  Promised(Landed)' = Promised(Landed)
<1>1. \A m \in Milestones :
        (IF m \in Landed' THEN releases'[m].amount ELSE 0)
          = (IF m \in Landed THEN releases[m].amount ELSE 0)
  OBVIOUS
<1>. QED BY <1>1 DEF Promised

LEMMA SolventStep ==
  ASSUME Typed, Solvent, [Next]_vars
  PROVE  Solvent'
<1>1. Sum(InWallet) <= Sum(InWallet') /\ Sum(InWallet) \in Nat
      /\ Sum(InWallet') \in Nat /\ Promised(Landed) \in Nat
  BY PaymentsMove, SumGrows, SumType, PromisedType
<1>2. ASSUME Promised(Landed)' = Promised(Landed) PROVE Solvent'
  BY <1>1, <1>2 DEF Solvent
<1>3. ASSUME releases' = releases PROVE Solvent'
  BY <1>2, <1>3, PromisedFrame DEF Landed
<1>4. ASSUME NEW m \in Milestones, Approve(m) \/ ReleaseFails(m) \/ Finalize(m)
      PROVE  Solvent'
  <2>1. Landed' = Landed /\ \A n \in Landed : releases'[n].amount = releases[n].amount
    BY <1>4 DEF Approve, ReleaseFails, Finalize, Release, NoRelease, Landed,
                Typed, ReleaseRecords
  <2>. QED BY <1>2, <2>1, PromisedFrame
<1>5. ASSUME NEW m \in Milestones, Land(m) PROVE Solvent'
  <2>. DEFINE f == [n \in Milestones |-> IF n \in Landed THEN releases[n].amount ELSE 0]
              g == [n \in Milestones |-> IF n \in Landed' THEN releases'[n].amount ELSE 0]
              v == releases[m].amount
  <2>1. m \notin Landed /\ Landed' = Landed \cup {m} /\ v \in 1 .. Balance
        /\ \A n \in Milestones : releases'[n].amount = releases[n].amount
    BY <1>5 DEF Land, Release, Landed, Typed, ReleaseRecords
  <2>2. f \in [Milestones -> Nat] /\ f[m] = 0
    BY <2>1, AmountsPromised
  <2>3. g = [f EXCEPT ![m] = v]
    BY <2>1
  <2>4. v \in Nat /\ v <= Balance
    BY <2>1, BalanceType
  <2>5. Promised(Landed) = Total(f) /\ Promised(Landed)' = Total(g)
    BY DEF Promised
  <2>. HIDE DEF f, g, v
  <2>6. Total([f EXCEPT ![m] = v]) = Total(f) - f[m] + v
    BY <2>2, <2>4, MilestonesAssumption, TotalUpdate, Zenon
  <2>7. Balance = Sum(InWallet) - Total(f)
    BY <2>5 DEF Balance
  <2>8. Total(g) <= Sum(InWallet)
    BY <1>1, <2>2, <2>3, <2>4, <2>5, <2>6, <2>7
  <2>9. Total(g) \in Nat
    BY <1>1, <2>2, <2>3, <2>4, <2>5, <2>6
  <2>. QED BY <1>1, <2>5, <2>8, <2>9 DEF Solvent
<1>6. ASSUME NEW p \in Payments, PaymentStep(p) PROVE releases' = releases
  BY <1>6 DEF PaymentStep, Pay, CheckStatus, Record, RecordFails
<1>7. CASE PassStep \/ RefreshStatus \/ UNCHANGED vars
  <2>1. releases' = releases
    BY <1>7 DEF PassStep, SelectCampaign, ReadBalance, Correct, EndPass,
                RefreshStatus, vars
  <2>. QED BY <1>3, <2>1
<1>. QED BY <1>3, <1>4, <1>5, <1>6, <1>7 DEF Next, ReleaseStep

---------------------------------------------------------------------------
(* raised_amount: only a job and a correction write it. *)
LEMMA RaisedFrame ==
  ASSUME [Next]_vars, ~Correct, ~(\E p \in Payments : Record(p))
  PROVE  /\ raised' = raised /\ adjustments' = adjustments
         /\ stale' = stale /\ lowered' = lowered /\ counted' = counted
<1>1. ASSUME NEW p \in Payments, Pay(p) \/ CheckStatus(p) \/ RecordFails(p)
      PROVE  /\ raised' = raised /\ adjustments' = adjustments
             /\ stale' = stale /\ lowered' = lowered /\ counted' = counted
  BY <1>1 DEF Pay, CheckStatus, RecordFails, campaign, history
<1>2. ASSUME NEW m \in Milestones, ReleaseStep(m)
      PROVE  /\ raised' = raised /\ adjustments' = adjustments
             /\ stale' = stale /\ lowered' = lowered /\ counted' = counted
  BY <1>2 DEF ReleaseStep, Approve, ReleaseFails, Land, Finalize, campaign, history
<1>3. CASE SelectCampaign \/ ReadBalance \/ EndPass \/ RefreshStatus \/ UNCHANGED vars
  BY <1>3 DEF SelectCampaign, ReadBalance, EndPass, RefreshStatus, vars,
              campaign, history
<1>. QED BY <1>1, <1>2, <1>3 DEF Next, PaymentStep, PassStep

LEMMA RaisedIsBackedStep ==
  ASSUME Typed, PassTyped, PassIsSound, RaisedIsBacked, [Next]_vars, Typed'
  PROVE  RaisedIsBacked'
<1>1. matched \in Nat /\ matched' \in Nat /\ raised \in Nat
  BY CampaignAssumption DEF Typed
<1>2. /\ Sum(Recorded \cup counted) \in Nat /\ Sum(doubled) \in Nat
      /\ Sum(Recorded' \cup counted') \in Nat /\ Sum(doubled') \in Nat
  BY SumType
<1>3. ASSUME NEW p \in Payments, Record(p) PROVE RaisedIsBacked'
  <2>1. /\ AmountOf[p] \in Nat /\ MatchFor(p) \in Nat
        /\ Credit(p) = AmountOf[p] + MatchFor(p)
    BY CreditFacts
  <2>2. /\ raised' = raised + Credit(p) /\ matched' = matched + MatchFor(p)
        /\ doubled' = doubled \cup (counted \cap {p}) /\ counted' = counted
    BY <1>3 DEF Record
  <2>3. p \notin Recorded /\ Recorded' = Recorded \cup {p} /\ p \notin doubled
    BY <1>3, RecordMoves DEF PassIsSound
  <2>4. ASSUME Sum(Recorded' \cup counted') + Sum(doubled')
                 = Sum(Recorded \cup counted) + Sum(doubled) + AmountOf[p]
        PROVE  RaisedIsBacked'
    <3>. DEFINE x == Sum(Recorded \cup counted)  y == Sum(doubled)
                v == Sum(Recorded' \cup counted')  w == Sum(doubled')
    <3>1. raised <= x + matched + y
      BY DEF RaisedIsBacked
    <3>2. v + w = x + y + AmountOf[p] /\ x \in Nat /\ y \in Nat /\ v \in Nat /\ w \in Nat
      BY <1>2, <2>4
    <3>. HIDE DEF x, y, v, w
    <3>3. raised' <= v + matched' + w
      BY <1>1, <2>1, <2>2, <3>1, <3>2
    <3>. QED BY <3>3 DEF RaisedIsBacked, v, w
  <2>5. CASE p \in counted
    <3>1. Recorded' \cup counted' = Recorded \cup counted /\ doubled' = doubled \cup {p}
      BY <2>2, <2>3, <2>5
    <3>2. Sum(doubled') = Sum(doubled) + AmountOf[p]
      BY <2>3, <3>1, SumAdds
    <3>3. Sum(Recorded' \cup counted') = Sum(Recorded \cup counted)
      BY <3>1
    <3>. QED BY <1>2, <2>1, <2>4, <3>2, <3>3
  <2>6. CASE p \notin counted
    <3>1. Recorded' \cup counted' = (Recorded \cup counted) \cup {p}
          /\ doubled' = doubled
      BY <2>2, <2>3, <2>6
    <3>2. p \notin Recorded \cup counted
      BY <2>3, <2>6
    <3>3. Sum(Recorded' \cup counted') = Sum(Recorded \cup counted) + AmountOf[p]
      BY <3>1, <3>2, SumAdds
    <3>4. Sum(doubled') = Sum(doubled)
      BY <3>1
    <3>. QED BY <1>2, <2>1, <2>4, <3>3, <3>4
  <2>. QED BY <2>5, <2>6
<1>4. CASE Correct
  <2>1. /\ raised' = pass.live /\ counted' = pass.among \ Recorded
        /\ pass.live <= Sum(pass.among) /\ pass.live \in Nat
    BY <1>4 DEF Correct, PassIsSound, PassTyped
  <2>2. ~(\E p \in Payments : Record(p))
    BY <1>4 DEF Correct, Record, Advance, Typed
  <2>3. Recorded' = Recorded
    BY <2>2, OthersRecordNothing
  <2>4. Sum(pass.among) <= Sum(Recorded' \cup counted') /\ Sum(pass.among) \in Nat
    BY <2>1, <2>3, SumGrows, SumType
  <2>. QED BY <1>1, <1>2, <2>1, <2>4 DEF RaisedIsBacked
<1>5. CASE ~Correct /\ ~(\E p \in Payments : Record(p))
  BY <1>5, RaisedFrame, OthersRecordNothing DEF RaisedIsBacked
<1>. QED BY <1>3, <1>4, <1>5

LEMMA RowsAddUpStep ==
  ASSUME Typed, PassTyped, RowsAddUp, [Next]_vars
  PROVE  RowsAddUp'
<1>1. /\ matched \in Nat /\ raised \in Nat /\ adjustments \in Int
      /\ Sum(Recorded) \in Nat
  BY CampaignAssumption, SumType DEF Typed
<1>2. ASSUME NEW p \in Payments, Record(p) PROVE RowsAddUp'
  <2>1. /\ AmountOf[p] \in Nat /\ MatchFor(p) \in Nat
        /\ Credit(p) = AmountOf[p] + MatchFor(p)
    BY CreditFacts
  <2>2. /\ raised' = raised + Credit(p) /\ matched' = matched + MatchFor(p)
        /\ adjustments' = adjustments /\ stale' = stale
    BY <1>2 DEF Record
  <2>3. Sum(Recorded') = Sum(Recorded) + AmountOf[p]
    BY <1>2, RecordMoves, SumAdds
  <2>. QED BY <1>1, <2>1, <2>2, <2>3 DEF RowsAddUp
<1>3. CASE Correct
  <2>1. /\ raised' = pass.live /\ stale' = (stale \/ raised # pass.seen)
        /\ adjustments' = adjustments + (pass.live - pass.seen)
        /\ pass.live \in Nat /\ pass.seen \in Nat
    BY <1>3 DEF Correct, PassTyped
  <2>2. ~(\E p \in Payments : Record(p))
    BY <1>3 DEF Correct, Record, Advance, Typed
  <2>3. Recorded' = Recorded /\ matched' = matched
    BY <2>2, OthersRecordNothing
  <2>4. SUFFICES ASSUME ~stale, raised = pass.seen
                 PROVE  raised' = Sum(Recorded') + matched' + adjustments'
    BY <2>1 DEF RowsAddUp
  <2>. QED BY <1>1, <2>1, <2>3, <2>4 DEF RowsAddUp
<1>4. CASE ~Correct /\ ~(\E p \in Payments : Record(p))
  BY <1>4, RaisedFrame, OthersRecordNothing DEF RowsAddUp
<1>. QED BY <1>2, <1>3, <1>4

(* What raised_amount is backed by is no more than what there is. *)
LEMMA RaisedWithinWorth ==
  ASSUME Typed, PassIsSound, RaisedIsBacked
  PROVE  raised <= Worth
<1>1. Recorded \cup counted \subseteq InWallet
  BY DEF PassIsSound, Recorded, InWallet
<1>2. Sum(Recorded \cup counted) <= Sum(InWallet)
  BY <1>1, SumGrows
<1>3. /\ matched \in Nat /\ raised \in Nat /\ Sum(InWallet) \in Nat
      /\ Sum(Recorded \cup counted) \in Nat /\ Sum(doubled) \in Nat
  BY CampaignAssumption, SumType DEF Typed
<1>. QED BY <1>2, <1>3 DEF RaisedIsBacked, Worth

LEMMA WorthGrows ==
  ASSUME Typed, Typed', [Next]_vars
  PROVE  Worth \in Nat /\ Worth' \in Nat /\ Worth <= Worth'
<1>1. Sum(InWallet) <= Sum(InWallet') /\ Sum(doubled) <= Sum(doubled')
  BY PaymentsMove, SumGrows
<1>2. matched <= matched' /\ matched \in Nat /\ matched' \in Nat
  <2>1. matched \in Nat /\ matched' \in Nat
    BY CampaignAssumption DEF Typed
  <2>2. ASSUME NEW p \in Payments, Record(p) PROVE matched <= matched'
    <3>1. matched' = matched + MatchFor(p) /\ MatchFor(p) \in Nat
      BY <2>2, CreditFacts DEF Record
    <3>. QED BY <2>1, <3>1
  <2>. QED BY <2>1, <2>2, OthersRecordNothing
<1>3. /\ Sum(InWallet) \in Nat /\ Sum(InWallet') \in Nat
      /\ Sum(doubled) \in Nat /\ Sum(doubled') \in Nat
  BY SumType
<1>. QED BY <1>1, <1>2, <1>3 DEF Worth

LEMMA PaidIsEarnedStep ==
  ASSUME Typed, Typed', PassIsSound, PassIsSound', RaisedIsBacked, RaisedIsBacked',
         PaidIsEarned, [Next]_vars
  PROVE  PaidIsEarned'
<1>1. /\ Worth \in Nat /\ Worth' \in Nat /\ Worth <= Worth'
      /\ Target \in Nat /\ raised' \in Nat
  BY WorthGrows, CampaignAssumption DEF Typed
<1>2. raised' <= Worth'
  <2>1. matched' \in Nat /\ raised' \in Nat
    BY CampaignAssumption DEF Typed
  <2>2. Recorded' \cup counted' \subseteq InWallet'
    BY DEF PassIsSound, Recorded, InWallet
  <2>3. Sum(Recorded' \cup counted') <= Sum(InWallet')
    BY <2>2, SumGrows
  <2>4. /\ Sum(InWallet') \in Nat /\ Sum(Recorded' \cup counted') \in Nat
        /\ Sum(doubled') \in Nat
    BY SumType
  <2>. QED BY <2>1, <2>3, <2>4 DEF RaisedIsBacked, Worth
<1>3. ASSUME status' \in PaidStatuses => status \in PaidStatuses \/ raised' >= Target
      PROVE  PaidIsEarned'
  BY <1>1, <1>2, <1>3 DEF PaidIsEarned
<1>4. ASSUME status' = status PROVE PaidIsEarned'
  BY <1>3, <1>4
<1>5. ASSUME NEW p \in Payments, PaymentStep(p) PROVE PaidIsEarned'
  <2>1. CASE Pay(p) \/ CheckStatus(p) \/ RecordFails(p)
    BY <1>4, <2>1 DEF Pay, CheckStatus, RecordFails, campaign
  <2>2. CASE Record(p)
    BY <1>3, <2>2 DEF Record
  <2>. QED BY <1>5, <2>1, <2>2 DEF PaymentStep
<1>6. ASSUME NEW m \in Milestones, ReleaseStep(m) PROVE PaidIsEarned'
  <2>1. CASE Approve(m) \/ ReleaseFails(m) \/ Land(m)
    BY <1>4, <2>1 DEF Approve, ReleaseFails, Land, campaign
  <2>2. CASE Finalize(m)
    BY <1>3, <2>2 DEF Finalize
  <2>. QED BY <1>6, <2>1, <2>2 DEF ReleaseStep
<1>7. CASE SelectCampaign \/ ReadBalance \/ EndPass \/ UNCHANGED vars
  BY <1>4, <1>7 DEF SelectCampaign, ReadBalance, EndPass, vars, campaign
<1>8. CASE Correct
  BY <1>3, <1>8 DEF Correct
<1>9. CASE RefreshStatus
  BY <1>3, <1>9 DEF RefreshStatus, PaidStatuses, ReleaseStatuses
<1>. QED BY <1>5, <1>6, <1>7, <1>8, <1>9 DEF Next, PassStep

---------------------------------------------------------------------------
(* The milestones. *)
Held == Approved \cup Landed

(* Only an approval adds a milestone or sets the first amount. *)
LEMMA HeldFrame ==
  ASSUME Typed, [Next]_vars, ~(\E m \in Milestones : Approve(m))
  PROVE  /\ base' = base /\ Held' \subseteq Held
         /\ \A m \in Held' : releases'[m].amount = releases[m].amount
<1>1. ASSUME releases' = releases
      PROVE  /\ Held' \subseteq Held
             /\ \A m \in Held' : releases'[m].amount = releases[m].amount
  BY <1>1 DEF Held, Approved, Landed
<1>2. ASSUME NEW p \in Payments, PaymentStep(p)
      PROVE  releases' = releases /\ base' = base
  BY <1>2 DEF PaymentStep, Pay, CheckStatus, Record, RecordFails, history
<1>3. ASSUME PassStep \/ RefreshStatus \/ UNCHANGED vars
      PROVE  releases' = releases /\ base' = base
  BY <1>3 DEF PassStep, SelectCampaign, ReadBalance, Correct, EndPass,
              RefreshStatus, vars, history
<1>4. ASSUME NEW n \in Milestones, ReleaseFails(n) \/ Land(n) \/ Finalize(n)
      PROVE  /\ base' = base /\ Held' \subseteq Held
             /\ \A m \in Held' : releases'[m].amount = releases[m].amount
  <2>1. base' = base
    BY <1>4 DEF ReleaseFails, Land, Finalize, history
  <2>2. CASE ReleaseFails(n)
    BY <2>1, <2>2 DEF ReleaseFails, NoRelease, Held, Approved, Landed,
                      Typed, ReleaseRecords
  <2>3. ASSUME NEW from \in {"approved", "landed"}, NEW to \in {"landed", "released"},
               Release(n, from, to)
        PROVE  /\ Held' \subseteq Held
               /\ \A m \in Held' : releases'[m].amount = releases[m].amount
    BY <2>3 DEF Release, Held, Approved, Landed, Typed, ReleaseRecords
  <2>4. CASE Land(n) \/ Finalize(n)
    BY <2>1, <2>3, <2>4 DEF Land, Finalize
  <2>. QED BY <1>4, <2>2, <2>4
<1>. QED BY <1>1, <1>2, <1>3, <1>4 DEF Next, ReleaseStep

(* What an approval writes. *)
LEMMA ApproveFacts ==
  ASSUME Typed, NEW m \in Milestones, Approve(m)
  PROVE  /\ releases'[m].amount \in Nat
         /\ 200 * releases'[m].amount <= 2 * raised * ShareOf[m] + 100
         /\ 2 * raised * ShareOf[m] <= 200 * releases'[m].amount + 100
         /\ Held' \subseteq Held \cup {m}
         /\ \A n \in Held' \ {m} : releases'[n].amount = releases[n].amount
         /\ raised' = raised /\ raised > 0 /\ lowered' = lowered
         /\ base' = (IF base = 0 THEN raised ELSE base)
<1>1. PICK a \in ReleaseAmounts(raised, ShareOf[m]) :
        releases' = [releases EXCEPT ![m] = [step |-> "approved", amount |-> a]]
  BY DEF Approve
<1>2. /\ a \in Nat
      /\ 200 * a <= 2 * raised * ShareOf[m] + 100
      /\ 2 * raised * ShareOf[m] <= 200 * a + 100
  BY <1>1 DEF ReleaseAmounts, Typed
<1>3. /\ releases'[m].amount = a
      /\ \A n \in Milestones \ {m} : releases'[n] = releases[n]
  BY <1>1 DEF Typed
<1>4. /\ Held' \subseteq Held \cup {m}
      /\ \A n \in Held' \ {m} : releases'[n].amount = releases[n].amount
  BY <1>3 DEF Held, Approved, Landed
<1>. QED BY <1>2, <1>3, <1>4 DEF Approve, campaign

LEMMA BaseStandsStep ==
  ASSUME Typed, PassTyped, Typed', BaseStands, [Next]_vars
  PROVE  BaseStands'
<1>1. base \in Nat /\ base' \in Nat /\ raised \in Nat /\ raised' \in Nat
      /\ lowered \in BOOLEAN
  BY DEF Typed
<1>. SUFFICES (Held' # {} => base' > 0) /\ (~lowered' => base' <= raised')
  BY DEF BaseStands, Held
<1>2. (Held # {} => base > 0) /\ (~lowered => base <= raised)
  BY DEF BaseStands, Held
<1>3. ASSUME NEW m \in Milestones, Approve(m)
      PROVE  (Held' # {} => base' > 0) /\ (~lowered' => base' <= raised')
  <2>1. /\ raised' = raised /\ raised > 0 /\ lowered' = lowered
        /\ base' = (IF base = 0 THEN raised ELSE base)
    BY <1>3, ApproveFacts
  <2>. QED BY <1>1, <1>2, <2>1
<1>4. ASSUME ~(\E m \in Milestones : Approve(m))
      PROVE  Held' # {} => base' > 0
  <2>1. base' = base /\ Held' \subseteq Held
    BY <1>4, HeldFrame
  <2>. QED BY <1>2, <2>1
<1>5. ASSUME NEW p \in Payments, Record(p) PROVE ~lowered' => base' <= raised'
  <2>1. raised' = raised + Credit(p) /\ base' = base /\ lowered' = lowered
        /\ Credit(p) \in Nat
    BY <1>5, CreditFacts DEF Record
  <2>. QED BY <1>1, <1>2, <2>1
<1>6. CASE Correct
  <2>1. /\ lowered' = (lowered \/ (base > 0 /\ pass.live < raised))
        /\ base' = base /\ raised' = pass.live /\ pass.live \in Nat
    BY <1>6 DEF Correct, PassTyped
  <2>2. ~(\E m \in Milestones : Approve(m))
    BY <1>6 DEF Correct, Approve, Typed, ReleaseRecords
  <2>3. ASSUME ~lowered' PROVE base' <= raised'
    <3>1. ~lowered /\ ~(base > 0 /\ pass.live < raised)
      BY <2>1, <2>3
    <3>2. base <= raised
      BY <1>2, <3>1
    <3>3. base' = base /\ raised' = pass.live /\ pass.live \in Nat
      BY <2>1
    <3>. QED BY <1>1, <3>1, <3>2, <3>3
  <2>. QED BY <1>4, <2>2, <2>3
<1>7. ASSUME ~Correct, ~(\E p \in Payments : Record(p)),
             ~(\E m \in Milestones : Approve(m))
      PROVE  ~lowered' => base' <= raised'
  <2>1. base' = base
    BY <1>7, HeldFrame
  <2>. QED BY <1>2, <1>7, <2>1, RaisedFrame
<1>8. ASSUME NEW p \in Payments, Record(p)
      PROVE  ~(\E m \in Milestones : Approve(m))
  BY <1>8 DEF Record, Approve, Advance, Typed
<1>. QED BY <1>3, <1>4, <1>5, <1>6, <1>7, <1>8

(* A larger amount has larger shares. *)
LEMMA ShareMono ==
  ASSUME NEW x \in Nat, NEW y \in Nat, x <= y, NEW m \in Milestones
  PROVE  /\ 2 * x * ShareOf[m] \in Nat /\ 2 * y * ShareOf[m] \in Nat
         /\ 2 * x * ShareOf[m] <= 2 * y * ShareOf[m]
<1>. DEFINE a == 2 * x
            b == 2 * y
            k == ShareOf[m]
<1>1. a \in Nat /\ b \in Nat /\ a <= b /\ k \in Nat
  BY MilestonesAssumption
<1>. HIDE DEF a, b, k
<1>2. a * k \in Nat /\ b * k \in Nat /\ a * k <= b * k
  BY <1>1, MulNat, MulMono
<1>. QED BY <1>2 DEF a, b, k

LEMMA SharesAreKeptStep ==
  ASSUME Typed, PassTyped, PassIsSound, RaisedIsBacked, BaseStands, SharesAreKept,
         Typed', [Next]_vars
  PROVE  SharesAreKept'
<1>1. /\ Worth \in Nat /\ Worth' \in Nat /\ Worth <= Worth'
      /\ raised \in Nat /\ raised <= Worth
      /\ base \in Nat /\ base' \in Nat /\ lowered \in BOOLEAN /\ lowered' \in BOOLEAN
  BY WorthGrows, RaisedWithinWorth DEF Typed
<1>. SUFFICES ASSUME NEW n \in Held'
              PROVE  /\ 200 * releases'[n].amount <= 2 * Worth' * ShareOf[n] + 100
                     /\ ~lowered' =>
                          2 * base' * ShareOf[n] <= 200 * releases'[n].amount + 100
  BY DEF SharesAreKept, Held
<1>2. n \in Milestones /\ releases'[n].amount \in Nat
  BY DEF Held, Approved, Landed, Typed, ReleaseRecords
<1>. DEFINE Kept ==
       /\ 200 * releases'[n].amount <= 2 * Worth' * ShareOf[n] + 100
       /\ ~lowered' => 2 * base' * ShareOf[n] <= 200 * releases'[n].amount + 100
<1>3. ASSUME n \in Held, releases'[n].amount = releases[n].amount, base' = base,
             ~lowered' => ~lowered
      PROVE  Kept
  <2>1. /\ 200 * releases[n].amount <= 2 * Worth * ShareOf[n] + 100
        /\ ~lowered => 2 * base * ShareOf[n] <= 200 * releases[n].amount + 100
    BY <1>3 DEF SharesAreKept, Held
  <2>2. /\ 2 * Worth * ShareOf[n] \in Nat /\ 2 * Worth' * ShareOf[n] \in Nat
        /\ 2 * Worth * ShareOf[n] <= 2 * Worth' * ShareOf[n]
    BY <1>1, <1>2, ShareMono
  <2>3. 200 * releases'[n].amount <= 2 * Worth' * ShareOf[n] + 100
    <3>. DEFINE u == 2 * Worth * ShareOf[n]
                v == 2 * Worth' * ShareOf[n]
    <3>1. /\ u \in Nat /\ v \in Nat /\ u <= v
          /\ 200 * releases'[n].amount <= u + 100
      BY <1>3, <2>1, <2>2
    <3>. HIDE DEF u, v
    <3>2. 200 * releases'[n].amount <= v + 100
      BY <1>2, <3>1
    <3>. QED BY <3>2 DEF v
  <2>. QED BY <1>3, <2>1, <2>3
<1>4. ASSUME NEW m \in Milestones, Approve(m) PROVE Kept
  <2>1. /\ 200 * releases'[m].amount <= 2 * raised * ShareOf[m] + 100
        /\ 2 * raised * ShareOf[m] <= 200 * releases'[m].amount + 100
        /\ Held' \subseteq Held \cup {m}
        /\ \A k \in Held' \ {m} : releases'[k].amount = releases[k].amount
        /\ raised' = raised /\ raised > 0 /\ lowered' = lowered
        /\ base' = (IF base = 0 THEN raised ELSE base)
    BY <1>4, ApproveFacts
  <2>2. ~lowered => base <= raised
    BY DEF BaseStands
  <2>3. CASE n = m
    <3>1. raised <= Worth' /\ (~lowered' => base' <= raised)
      BY <1>1, <2>1, <2>2
    <3>. DEFINE r == 2 * raised * ShareOf[n]
                v == 2 * Worth' * ShareOf[n]
                b == 2 * base' * ShareOf[n]
    <3>2. r \in Nat /\ v \in Nat /\ r <= v
      BY <1>1, <1>2, <3>1, ShareMono
    <3>3. ~lowered' => b \in Nat /\ b <= r
      BY <1>1, <1>2, <3>1, ShareMono
    <3>4. 200 * releases'[n].amount <= r + 100 /\ r <= 200 * releases'[n].amount + 100
      BY <2>1, <2>3
    <3>. HIDE DEF r, v, b
    <3>5. /\ 200 * releases'[n].amount <= v + 100
          /\ ~lowered' => b <= 200 * releases'[n].amount + 100
      BY <1>2, <3>2, <3>3, <3>4
    <3>. QED BY <3>5 DEF v, b
  <2>4. CASE n # m
    <3>1. n \in Held /\ releases'[n].amount = releases[n].amount
      BY <2>1, <2>4
    <3>2. base > 0
      BY <3>1 DEF BaseStands, Held
    <3>3. base' = base
      BY <1>1, <2>1, <3>2
    <3>. QED BY <1>3, <2>1, <3>1, <3>3
  <2>. QED BY <2>3, <2>4
<1>5. ASSUME ~(\E m \in Milestones : Approve(m)) PROVE Kept
  <2>1. n \in Held /\ releases'[n].amount = releases[n].amount /\ base' = base
    BY <1>5, HeldFrame
  <2>2. ~lowered' => ~lowered
    <3>1. ASSUME NEW p \in Payments, Record(p) PROVE lowered' = lowered
      BY <3>1 DEF Record
    <3>2. CASE Correct
      BY <3>2 DEF Correct
    <3>. QED BY <3>1, <3>2, RaisedFrame
  <2>. QED BY <1>3, <2>1, <2>2
<1>. QED BY <1>4, <1>5

---------------------------------------------------------------------------
(* Together: the shares of everybody, rounded. *)
LEMMA SharesAreBacked ==
  ASSUME Typed, SharesAreKept
  PROVE  ReleasesAreBacked
<1>. DEFINE S == Approved \cup Landed
            f == [m \in Milestones |-> IF m \in S THEN releases[m].amount ELSE 0]
            W == 2 * Worth
            h == [m \in Milestones |-> ShareOf[m] * W]
            l == [m \in Milestones |-> f[m] * 200]
            r == [m \in Milestones |-> h[m] + 100]
<1>1. IsFiniteSet(Milestones) /\ ShareOf \in [Milestones -> Nat]
      /\ Total(ShareOf) <= 100 /\ Total(ShareOf) \in Nat
  BY MilestonesAssumption, TotalType
<1>2. Worth \in Nat /\ W \in Nat
  BY WorthType
<1>3. f \in [Milestones -> Nat] /\ Promised(S) = Total(f) /\ Total(f) \in Nat
  BY AmountsPromised, PromisedType DEF Promised
<1>4. \A m \in Milestones : 200 * f[m] <= h[m] + 100
  <2>. TAKE m \in Milestones
  <2>1. ShareOf[m] \in Nat /\ h[m] = W * ShareOf[m] /\ h[m] \in Nat
    <3>1. ShareOf[m] \in Nat
      BY <1>1
    <3>. HIDE DEF W
    <3>2. ShareOf[m] * W \in Nat /\ ShareOf[m] * W = W * ShareOf[m]
      <4>1. ASSUME NEW x \in Nat, NEW y \in Nat
            PROVE  x * y \in Nat /\ x * y = y * x
        BY MulNat, SMT
      <4>. QED BY <1>2, <3>1, <4>1
    <3>. QED BY <3>1, <3>2
  <2>2. CASE m \in S
    BY <2>1, <2>2 DEF SharesAreKept
  <2>3. CASE m \notin S
    BY <2>1, <2>3
  <2>. QED BY <2>2, <2>3
<1>. HIDE DEF f, W, S
<1>5. h \in [Milestones -> Nat]
  BY <1>1, <1>2, MulNat
<1>6. Total(h) = Total(ShareOf) * W
  BY <1>1, <1>2, TotalScale
<1>7. Total(l) = Total(f) * 200
  BY <1>1, <1>3, TotalScale
<1>. HIDE DEF h
<1>8. [m \in Milestones |-> 100] \in [Milestones -> Nat]
      /\ Total([m \in Milestones |-> 100]) = Cardinality(Milestones) * 100
  BY <1>1, TotalConst
<1>9. Total(r) = Total(h) + Cardinality(Milestones) * 100
  <2>. DEFINE c == [m \in Milestones |-> 100]
  <2>1. r = [m \in Milestones |-> h[m] + c[m]]
    OBVIOUS
  <2>. HIDE DEF c, r
  <2>2. Total([m \in Milestones |-> h[m] + c[m]]) = Total(h) + Total(c)
    BY <1>1, <1>5, <1>8, TotalPlus DEF c
  <2>. QED BY <1>8, <2>1, <2>2 DEF c
<1>10. Total(l) <= Total(r)
  <2>1. l \in [Milestones -> Nat] /\ r \in [Milestones -> Nat]
    BY <1>3, <1>5
  <2>2. \A m \in Milestones : l[m] <= r[m]
    BY <1>3, <1>4, <1>5
  <2>. HIDE DEF l, r
  <2>. QED BY <1>1, <2>1, <2>2, TotalMono
<1>. HIDE DEF l, r
<1>11. Cardinality(Milestones) \in Nat
  BY <1>1, FS_CardinalityType
<1>12. Total(ShareOf) * W <= 100 * W /\ Total(ShareOf) * W \in Nat
  BY <1>1, <1>2, MulMono, MulNat
<1>13. 200 * Total(f) <= 100 * W + 100 * Cardinality(Milestones)
  BY <1>2, <1>3, <1>6, <1>7, <1>9, <1>10, <1>11, <1>12
<1>14. 2 * Total(f) <= W + Cardinality(Milestones)
  BY <1>2, <1>3, <1>11, <1>13
<1>. QED BY <1>3, <1>14 DEF ReleasesAreBacked, W, S

---------------------------------------------------------------------------
(* The inductive invariant. *)
LEMMA InitInv == Init => IInv
<1>. SUFFICES ASSUME Init PROVE IInv
  OBVIOUS
<1>1. InWallet = {} /\ Recorded = {} /\ Held = {} /\ Landed = {}
  BY DEF Init, InWallet, Recorded, Held, Approved, Landed, NoRelease
<1>2. Typed
  <2>1. payments \in [Payments -> States] /\ releases \in [Milestones -> ReleaseRecords]
    BY DEF Init, States, ReleaseRecords, NoRelease
  <2>2. 0 \in 0 .. Pledge
    BY CampaignAssumption
  <2>3. raised \in Nat /\ matched \in 0 .. Pledge /\ adjustments \in Int /\ base \in Nat
    BY <2>2 DEF Init
  <2>4. status \in {"active", "failed"} \cup PaidStatuses
    BY DEF Init
  <2>5. lowered \in BOOLEAN /\ stale \in BOOLEAN
    BY DEF Init
  <2>. QED BY <2>1, <2>3, <2>4, <2>5 DEF Typed
<1>3. PassTyped
  BY PassesAssumption DEF Init, PassTyped, Idle
<1>4. PassIsSound
  BY DEF Init, PassIsSound, Idle
<1>5. Solvent
  <2>1. Promised(Landed) = 0
    <3>1. [m \in Milestones |-> IF m \in Landed THEN releases[m].amount ELSE 0]
            = [m \in Milestones |-> 0]
      BY <1>1
    <3>. QED BY <3>1, TotalZero DEF Promised
  <2>. QED BY <2>1, SumType DEF Solvent
<1>6. /\ Sum({}) = 0 /\ raised = 0 /\ matched = 0 /\ adjustments = 0
      /\ doubled = {} /\ counted = {} /\ status = "active" /\ base = 0
  BY SumEmpty DEF Init
<1>7. Recorded \cup counted = {}
  BY <1>1, <1>6
<1>8. RaisedIsBacked
  <2>1. Sum(Recorded \cup counted) = 0 /\ Sum(doubled) = 0
    BY <1>6, <1>7
  <2>. QED BY <1>6, <2>1 DEF RaisedIsBacked
<1>9. RowsAddUp
  BY <1>1, <1>6 DEF RowsAddUp
<1>10. PaidIsEarned
  BY <1>6 DEF PaidIsEarned, PaidStatuses, ReleaseStatuses
<1>11. BaseStands /\ SharesAreKept
  BY <1>1, <1>6 DEF BaseStands, SharesAreKept, Held
<1>. QED BY <1>2, <1>3, <1>4, <1>5, <1>8, <1>9, <1>10, <1>11 DEF IInv

LEMMA StepInv == IInv /\ [Next]_vars => IInv'
<1>. SUFFICES ASSUME IInv, [Next]_vars PROVE IInv'
  OBVIOUS
<1>1. /\ Typed /\ PassTyped /\ PassIsSound /\ Solvent /\ RaisedIsBacked
      /\ RowsAddUp /\ PaidIsEarned /\ BaseStands /\ SharesAreKept
  BY DEF IInv
<1>2. Typed'
  BY <1>1, TypedStep
<1>3. PassTyped' /\ PassIsSound' /\ Solvent'
  BY <1>1, PassTypedStep, PassIsSoundStep, SolventStep
<1>4. RaisedIsBacked' /\ RowsAddUp'
  BY <1>1, <1>2, RaisedIsBackedStep, RowsAddUpStep
<1>5. PaidIsEarned'
  BY <1>1, <1>2, <1>3, <1>4, PaidIsEarnedStep
<1>6. BaseStands' /\ SharesAreKept'
  BY <1>1, <1>2, BaseStandsStep, SharesAreKeptStep
<1>. QED BY <1>2, <1>3, <1>4, <1>5, <1>6 DEF IInv

LEMMA InvIsInvariant == Spec => []IInv
BY InitInv, StepInv, PTL DEF Spec

(* Every variable keeps its type: in particular no more is matched than    *)
(* the sponsor pledged, and raised_amount is never negative, whatever      *)
(* balance a correction reads (creditSponsorMatch, reconcileCampaign).     *)
THEOREM BalanceTypeCorrect == Spec => []BalanceTypeOK
<1>1. IInv => BalanceTypeOK
  <2>. SUFFICES ASSUME IInv PROVE BalanceTypeOK
    OBVIOUS
  <2>1. counted \subseteq Payments /\ doubled \subseteq Payments
    BY DEF IInv, PassIsSound, InWallet, Recorded
  <2>. QED
    BY <2>1 DEF IInv, Typed, PassTyped, BalanceTypeOK, States, ReleaseRecords
<1>. QED BY <1>1, InvIsInvariant, PTL

(* raised_amount is the rows, the matches and the adjustments, unless a    *)
(* correction was stale; it is never more than what was paid, matched or   *)
(* counted twice; and no campaign becomes funded, or pays, before these    *)
(* together reach its target, which a payment counted twice can bring      *)
(* about (recordConfirmedContribution, applyReconciliationCorrection).     *)
THEOREM RaisedExplained == Spec => []RaisedIsExplained
<1>1. IInv => RaisedIsExplained
  BY RaisedWithinWorth DEF IInv, RaisedIsExplained, RaisedIsEarned, PaidIsEarned
<1>. QED BY <1>1, InvIsInvariant, PTL

(* No release is more than its milestone's share of what the campaign is   *)
(* worth, nor, unless a correction took a payout for missing money, less   *)
(* than its share of what the first was computed from; together they       *)
(* exceed what the campaign is worth by half a stroop for each milestone   *)
(* at most (toReleaseAmount, attemptAutoRelease).                          *)
THEOREM ReleasesFair == Spec => []ReleasesAreFair
<1>1. IInv => ReleasesAreFair
  BY SharesAreBacked DEF IInv, ReleasesAreFair
<1>. QED BY <1>1, InvIsInvariant, PTL
=============================================================================
