---------------------------- MODULE TokenSums ----------------------------
(***************************************************************************)
(* Sums of the token amounts a contract keeps per address.                 *)
(*                                                                         *)
(* A balance table is a function from addresses to natural numbers.  Each  *)
(* token is given an identity, the pair of its owner and its rank in the   *)
(* owner's balance, and the total is the number of tokens.  The definition *)
(* needs no recursion, so that facts about it follow from the theorems on  *)
(* cardinalities (see TokenSumTheorems).                                   *)
(***************************************************************************)
EXTENDS Integers, FiniteSets

TokensOf(f, c) == {c} \X (1 .. f[c])

Tokens(f) == UNION {TokensOf(f, c) : c \in DOMAIN f}

Total(f) == Cardinality(Tokens(f))
==========================================================================
