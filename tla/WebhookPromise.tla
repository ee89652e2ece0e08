--------------------------- MODULE WebhookPromise ---------------------------
(***************************************************************************)
(* What the dispatcher promises of one webhook delivery: a number of       *)
(* attempts after which it is settled, a fresh number of them when it is   *)
(* replayed, and no way back once it is delivered.  How the attempts are   *)
(* claimed, lost and reclaimed is WebhookDelivery's business.              *)
(***************************************************************************)
EXTENDS Integers

CONSTANT MaxAttempts    \* attempts between two replays

VARIABLES outcome, attemptsLeft

promiseVars == <<outcome, attemptsLeft>>

Init == outcome = "open" /\ attemptsLeft = MaxAttempts

Attempt ==
  /\ outcome = "open" /\ attemptsLeft > 0
  /\ attemptsLeft' = attemptsLeft - 1
  /\ UNCHANGED outcome

(* Nothing is delivered without an attempt. *)
Deliver ==
  /\ outcome = "open" /\ attemptsLeft < MaxAttempts
  /\ outcome' = "delivered"
  /\ UNCHANGED attemptsLeft

GiveUp ==
  /\ outcome = "open"
  /\ outcome' = "failed"
  /\ UNCHANGED attemptsLeft

Replay ==
  /\ outcome \in {"open", "failed"}
  /\ outcome' = "open"
  /\ attemptsLeft' = MaxAttempts

Next == Attempt \/ Deliver \/ GiveUp \/ Replay

Spec == Init /\ [][Next]_promiseVars
=============================================================================
