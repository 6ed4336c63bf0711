---------------------------- MODULE MCAccountBook ----------------------------
(* Values of AccountBook's constants for TLC: one customer, who may sweep  *)
(* any account into any other, and minimum opening balances of 0 or 2.     *)
EXTENDS AccountBook

OneOwner         == [a \in Accounts |-> "customer"]
NoMinimum        == [a \in Accounts |-> 0]
SecondHasMinimum == [a \in Accounts |-> IF a = 1 THEN 0 ELSE 2]
=============================================================================
