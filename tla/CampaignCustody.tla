------------------------- MODULE CampaignCustody --------------------------
(***************************************************************************)
(* What a campaign promises about the money it is given: either the target *)
(* is met and the creator is paid out of what was raised, or it is not and *)
(* every contributor gets the whole contribution back.  Never both.        *)
(***************************************************************************)
EXTENDS TokenSums

CONSTANTS Contributors, Target

VARIABLES
  contributed,   \* what each contributor put in
  released,      \* what left for the creator and the platform
  returned       \* what each contributor got back

custodyVars == <<contributed, released, returned>>

NothingReturned == \A c \in Contributors : returned[c] = 0

CustodyInit ==
  /\ contributed = [c \in Contributors |-> 0]
  /\ released = 0
  /\ returned = [c \in Contributors |-> 0]

Contribute(c) ==
  /\ NothingReturned
  /\ contributed'[c] \in Nat /\ contributed'[c] > contributed[c]
  /\ contributed' = [contributed EXCEPT ![c] = contributed'[c]]
  /\ UNCHANGED <<released, returned>>

Release ==
  /\ NothingReturned
  /\ Total(contributed) >= Target
  /\ released' \in released + 1 .. Total(contributed)
  /\ UNCHANGED <<contributed, returned>>

GiveBack(c) ==
  /\ released = 0
  /\ Total(contributed) < Target
  /\ returned[c] = 0
  /\ returned' = [returned EXCEPT ![c] = contributed[c]]
  /\ UNCHANGED <<contributed, released>>

CustodyNext ==
  \/ \E c \in Contributors : Contribute(c) \/ GiveBack(c)
  \/ Release

CustodySpec == CustodyInit /\ [][CustodyNext]_custodyVars
===========================================================================
